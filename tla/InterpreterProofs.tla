------------------------- MODULE InterpreterProofs -------------------------
(***************************************************************************)
(* Theorems about Interpreter, for every program, memory and number of     *)
(* registers.  Those that say BYTE = 8 are about words as wide as the      *)
(* code's: no prover knows powers of two of a width that is not given.     *)
(* Large numbers have names (Top, Lower, Lowest, Upmost), which most steps *)
(* leave unexpanded.                                                       *)
(***************************************************************************)
EXTENDS Interpreter, ScanProofs, SequenceTheorems, FiniteSetTheorems, TLAPS

-----------------------------------------------------------------------------
\* The number whose bits are s, at the width of the code, by its bytes.
Eight(s, n) ==
  (IF n \in s THEN 128 ELSE 0) + (IF n + 1 \in s THEN 64 ELSE 0)
  + (IF n + 2 \in s THEN 32 ELSE 0) + (IF n + 3 \in s THEN 16 ELSE 0)
  + (IF n + 4 \in s THEN 8 ELSE 0) + (IF n + 5 \in s THEN 4 ELSE 0)
  + (IF n + 6 \in s THEN 2 ELSE 0) + (IF n + 7 \in s THEN 1 ELSE 0)

Value(s) ==
  Eight(s, 0) * 16777216 + Eight(s, 8) * 65536 + Eight(s, 16) * 256 + Eight(s, 24)

\* The greatest word.
Top == 4294967295

\* Top is a number, which is all that most proofs have to know of it.
LEMMA TopIs == Top \in Nat
BY SMT DEF Top

\* Eight bits make a byte.
LEMMA EightRange ==
  ASSUME NEW s, NEW n \in Int
  PROVE  Eight(s, n) \in 0 .. 255
BY SMT DEF Eight

\* A byte of 0 has no bits.
LEMMA EightNone ==
  ASSUME NEW s, NEW n \in Int, Eight(s, n) = 0, NEW k \in n .. n + 7
  PROVE  k \notin s
BY SMT DEF Eight

\* The digits of a byte.
LEMMA EightDigits ==
  ASSUME NEW s, NEW n \in Int
  PROVE
    /\ ((Eight(s, n) \div 128) % 2 = 1 <=> n + 0 \in s)
    /\ ((Eight(s, n) \div 64) % 2 = 1 <=> n + 1 \in s)
    /\ ((Eight(s, n) \div 32) % 2 = 1 <=> n + 2 \in s)
    /\ ((Eight(s, n) \div 16) % 2 = 1 <=> n + 3 \in s)
    /\ ((Eight(s, n) \div 8) % 2 = 1 <=> n + 4 \in s)
    /\ ((Eight(s, n) \div 4) % 2 = 1 <=> n + 5 \in s)
    /\ ((Eight(s, n) \div 2) % 2 = 1 <=> n + 6 \in s)
    /\ ((Eight(s, n) \div 1) % 2 = 1 <=> n + 7 \in s)
BY SMT DEF Eight

\* 32 bits make a word, 0 if there are none of them.
LEMMA ValueFacts ==
  ASSUME NEW s \in SUBSET (0 .. 31)
  PROVE  /\ Value(s) \in Int /\ 0 <= Value(s) /\ Value(s) <= Top
         /\ s = {} => Value(s) = 0
         /\ s # {} => Value(s) > 0
<1>1. /\ Eight(s, 0) \in Int /\ 0 <= Eight(s, 0) /\ Eight(s, 0) <= 255
      /\ Eight(s, 8) \in Int /\ 0 <= Eight(s, 8) /\ Eight(s, 8) <= 255
      /\ Eight(s, 16) \in Int /\ 0 <= Eight(s, 16) /\ Eight(s, 16) <= 255
      /\ Eight(s, 24) \in Int /\ 0 <= Eight(s, 24) /\ Eight(s, 24) <= 255
  BY EightRange, SMT
<1>2. Value(s) \in Int /\ 0 <= Value(s) /\ Value(s) <= Top
  BY <1>1, SMT DEF Value, Top
<1>3. s = {} => Value(s) = 0
  BY SMT DEF Value, Eight
<1>4. ASSUME NEW k \in s PROVE Value(s) > 0
  <2>1. k \in 0 .. 0 + 7 \/ k \in 8 .. 8 + 7 \/ k \in 16 .. 16 + 7 \/ k \in 24 .. 24 + 7
    BY SMT
  <2>2. Eight(s, 0) # 0 \/ Eight(s, 8) # 0 \/ Eight(s, 16) # 0 \/ Eight(s, 24) # 0
    BY <1>4, <2>1, EightNone, SMT
  <2> QED
    <3> DEFINE a == Eight(s, 0)
               b == Eight(s, 8)
               c == Eight(s, 16)
               d == Eight(s, 24)
    <3>1. a \in Nat /\ b \in Nat /\ c \in Nat /\ d \in Nat /\ (a > 0 \/ b > 0 \/ c > 0 \/ d > 0)
      BY <1>1, <2>2, SMT
    <3>2. Value(s) = a * 16777216 + b * 65536 + c * 256 + d
      BY SMT DEF Value
    <3> HIDE DEF a, b, c, d
    <3> QED
      BY <3>1, <3>2, SMT
<1> QED
  BY <1>2, <1>3, <1>4, Zenon

\* What a bit is worth.
Worth == [k \in 0 .. 31 |-> 2 ^ (31 - k)]

\* What each place is worth.
LEMMA Worths ==
  /\ Worth[0] = 2147483648 /\ Worth[1] = 1073741824 /\ Worth[2] = 536870912 /\ Worth[3] = 268435456
  /\ Worth[4] = 134217728 /\ Worth[5] = 67108864 /\ Worth[6] = 33554432 /\ Worth[7] = 16777216
  /\ Worth[8] = 8388608 /\ Worth[9] = 4194304 /\ Worth[10] = 2097152 /\ Worth[11] = 1048576
  /\ Worth[12] = 524288 /\ Worth[13] = 262144 /\ Worth[14] = 131072 /\ Worth[15] = 65536
  /\ Worth[16] = 32768 /\ Worth[17] = 16384 /\ Worth[18] = 8192 /\ Worth[19] = 4096
  /\ Worth[20] = 2048 /\ Worth[21] = 1024 /\ Worth[22] = 512 /\ Worth[23] = 256
  /\ Worth[24] = 128 /\ Worth[25] = 64 /\ Worth[26] = 32 /\ Worth[27] = 16
  /\ Worth[28] = 8 /\ Worth[29] = 4 /\ Worth[30] = 2 /\ Worth[31] = 1
BY SMT DEF Worth

\* The worth of a place is a power of two.
LEMMA WorthIs ==
  ASSUME NEW x \in 0 .. 31
  PROVE  Worth[x] \in Nat /\ Worth[x] > 0 /\ Worth[x] = 2 ^ (31 - x)
<1>1. Worth[x] \in Nat /\ Worth[x] > 0
  BY Worths, SMT
<1> QED
  BY <1>1, Zenon DEF Worth

\* A digit of a byte in a greater number is one of the byte.
LEMMA ByteInNumber ==
  ASSUME NEW h \in Nat, NEW x \in Nat, x <= 255
  PROVE
    /\ ((h * 256 + x) \div 128) % 2 = (x \div 128) % 2 /\ ((h * 256 + x) \div 64) % 2 = (x \div 64) % 2
    /\ ((h * 256 + x) \div 32) % 2 = (x \div 32) % 2 /\ ((h * 256 + x) \div 16) % 2 = (x \div 16) % 2
    /\ ((h * 256 + x) \div 8) % 2 = (x \div 8) % 2 /\ ((h * 256 + x) \div 4) % 2 = (x \div 4) % 2
    /\ ((h * 256 + x) \div 2) % 2 = (x \div 2) % 2 /\ ((h * 256 + x) \div 1) % 2 = (x \div 1) % 2
BY SMT

\* A number is its digits.
LEMMA BitsOfValue ==
  ASSUME BYTE = 8, NEW s \in SUBSET (0 .. 31)
  PROVE  BitsOf(Value(s)) = s
<1> DEFINE v == Value(s)
           a == Eight(s, 0)
           b == Eight(s, 8)
           c == Eight(s, 16)
           d == Eight(s, 24)
<1>1. /\ a \in Int /\ 0 <= a /\ a <= 255
      /\ b \in Int /\ 0 <= b /\ b <= 255
      /\ c \in Int /\ 0 <= c /\ c <= 255
      /\ d \in Int /\ 0 <= d /\ d <= 255
  BY EightRange, SMT
<1>2. v = a * 16777216 + b * 65536 + c * 256 + d
  BY SMT DEF Value
<1> HIDE DEF a, b, c, d, v
<1>3.
      /\ (v \div Worth[0]) % 2 = (a \div 128) % 2
      /\ (v \div Worth[1]) % 2 = (a \div 64) % 2
      /\ (v \div Worth[2]) % 2 = (a \div 32) % 2
      /\ (v \div Worth[3]) % 2 = (a \div 16) % 2
      /\ (v \div Worth[4]) % 2 = (a \div 8) % 2
      /\ (v \div Worth[5]) % 2 = (a \div 4) % 2
      /\ (v \div Worth[6]) % 2 = (a \div 2) % 2
      /\ (v \div Worth[7]) % 2 = (a \div 1) % 2
  <2> DEFINE h == 0
             r == b * 65536 + c * 256 + d
             y == v \div 16777216
  <2>1. h \in Nat /\ r \in Nat /\ r < 16777216 /\ v = (h * 256 + a) * 16777216 + r
    BY <1>1, <1>2, SMT
  <2> HIDE DEF h, r
  <2>2. y = h * 256 + a
    BY <1>1, <2>1, SMT
  <2>3.
      /\ v \div 2147483648 = y \div 128
      /\ v \div 1073741824 = y \div 64
      /\ v \div 536870912 = y \div 32
      /\ v \div 268435456 = y \div 16
      /\ v \div 134217728 = y \div 8
      /\ v \div 67108864 = y \div 4
      /\ v \div 33554432 = y \div 2
      /\ v \div 16777216 = y \div 1
    BY <1>1, <2>1, SMT
  <2> HIDE DEF y
  <2>4.
      /\ (y \div 128) % 2 = (a \div 128) % 2
      /\ (y \div 64) % 2 = (a \div 64) % 2
      /\ (y \div 32) % 2 = (a \div 32) % 2
      /\ (y \div 16) % 2 = (a \div 16) % 2
      /\ (y \div 8) % 2 = (a \div 8) % 2
      /\ (y \div 4) % 2 = (a \div 4) % 2
      /\ (y \div 2) % 2 = (a \div 2) % 2
      /\ (y \div 1) % 2 = (a \div 1) % 2
    BY <1>1, <2>1, <2>2, ByteInNumber, SMT
  <2> QED
    BY <2>3, <2>4, Worths, SMT
<1>4.
      /\ (v \div Worth[8]) % 2 = (b \div 128) % 2
      /\ (v \div Worth[9]) % 2 = (b \div 64) % 2
      /\ (v \div Worth[10]) % 2 = (b \div 32) % 2
      /\ (v \div Worth[11]) % 2 = (b \div 16) % 2
      /\ (v \div Worth[12]) % 2 = (b \div 8) % 2
      /\ (v \div Worth[13]) % 2 = (b \div 4) % 2
      /\ (v \div Worth[14]) % 2 = (b \div 2) % 2
      /\ (v \div Worth[15]) % 2 = (b \div 1) % 2
  <2> DEFINE h == a
             r == c * 256 + d
             y == v \div 65536
  <2>1. h \in Nat /\ r \in Nat /\ r < 65536 /\ v = (h * 256 + b) * 65536 + r
    BY <1>1, <1>2, SMT
  <2> HIDE DEF h, r
  <2>2. y = h * 256 + b
    BY <1>1, <2>1, SMT
  <2>3.
      /\ v \div 8388608 = y \div 128
      /\ v \div 4194304 = y \div 64
      /\ v \div 2097152 = y \div 32
      /\ v \div 1048576 = y \div 16
      /\ v \div 524288 = y \div 8
      /\ v \div 262144 = y \div 4
      /\ v \div 131072 = y \div 2
      /\ v \div 65536 = y \div 1
    BY <1>1, <2>1, SMT
  <2> HIDE DEF y
  <2>4.
      /\ (y \div 128) % 2 = (b \div 128) % 2
      /\ (y \div 64) % 2 = (b \div 64) % 2
      /\ (y \div 32) % 2 = (b \div 32) % 2
      /\ (y \div 16) % 2 = (b \div 16) % 2
      /\ (y \div 8) % 2 = (b \div 8) % 2
      /\ (y \div 4) % 2 = (b \div 4) % 2
      /\ (y \div 2) % 2 = (b \div 2) % 2
      /\ (y \div 1) % 2 = (b \div 1) % 2
    BY <1>1, <2>1, <2>2, ByteInNumber, SMT
  <2> QED
    BY <2>3, <2>4, Worths, SMT
<1>5.
      /\ (v \div Worth[16]) % 2 = (c \div 128) % 2
      /\ (v \div Worth[17]) % 2 = (c \div 64) % 2
      /\ (v \div Worth[18]) % 2 = (c \div 32) % 2
      /\ (v \div Worth[19]) % 2 = (c \div 16) % 2
      /\ (v \div Worth[20]) % 2 = (c \div 8) % 2
      /\ (v \div Worth[21]) % 2 = (c \div 4) % 2
      /\ (v \div Worth[22]) % 2 = (c \div 2) % 2
      /\ (v \div Worth[23]) % 2 = (c \div 1) % 2
  <2> DEFINE h == a * 256 + b
             r == d
             y == v \div 256
  <2>1. h \in Nat /\ r \in Nat /\ r < 256 /\ v = (h * 256 + c) * 256 + r
    BY <1>1, <1>2, SMT
  <2> HIDE DEF h, r
  <2>2. y = h * 256 + c
    BY <1>1, <2>1, SMT
  <2>3.
      /\ v \div 32768 = y \div 128
      /\ v \div 16384 = y \div 64
      /\ v \div 8192 = y \div 32
      /\ v \div 4096 = y \div 16
      /\ v \div 2048 = y \div 8
      /\ v \div 1024 = y \div 4
      /\ v \div 512 = y \div 2
      /\ v \div 256 = y \div 1
    BY <1>1, <2>1, SMT
  <2> HIDE DEF y
  <2>4.
      /\ (y \div 128) % 2 = (c \div 128) % 2
      /\ (y \div 64) % 2 = (c \div 64) % 2
      /\ (y \div 32) % 2 = (c \div 32) % 2
      /\ (y \div 16) % 2 = (c \div 16) % 2
      /\ (y \div 8) % 2 = (c \div 8) % 2
      /\ (y \div 4) % 2 = (c \div 4) % 2
      /\ (y \div 2) % 2 = (c \div 2) % 2
      /\ (y \div 1) % 2 = (c \div 1) % 2
    BY <1>1, <2>1, <2>2, ByteInNumber, SMT
  <2> QED
    BY <2>3, <2>4, Worths, SMT
<1>6.
      /\ (v \div Worth[24]) % 2 = (d \div 128) % 2
      /\ (v \div Worth[25]) % 2 = (d \div 64) % 2
      /\ (v \div Worth[26]) % 2 = (d \div 32) % 2
      /\ (v \div Worth[27]) % 2 = (d \div 16) % 2
      /\ (v \div Worth[28]) % 2 = (d \div 8) % 2
      /\ (v \div Worth[29]) % 2 = (d \div 4) % 2
      /\ (v \div Worth[30]) % 2 = (d \div 2) % 2
      /\ (v \div Worth[31]) % 2 = (d \div 1) % 2
  <2> DEFINE h == (a * 256 + b) * 256 + c
             r == 0
             y == v \div 1
  <2>1. h \in Nat /\ r \in Nat /\ r < 1 /\ v = (h * 256 + d) * 1 + r
    BY <1>1, <1>2, SMT
  <2> HIDE DEF h, r
  <2>2. y = h * 256 + d
    BY <1>1, <2>1, SMT
  <2>3.
      /\ v \div 128 = y \div 128
      /\ v \div 64 = y \div 64
      /\ v \div 32 = y \div 32
      /\ v \div 16 = y \div 16
      /\ v \div 8 = y \div 8
      /\ v \div 4 = y \div 4
      /\ v \div 2 = y \div 2
      /\ v \div 1 = y \div 1
    BY <1>1, <2>1, SMT
  <2> HIDE DEF y
  <2>4.
      /\ (y \div 128) % 2 = (d \div 128) % 2
      /\ (y \div 64) % 2 = (d \div 64) % 2
      /\ (y \div 32) % 2 = (d \div 32) % 2
      /\ (y \div 16) % 2 = (d \div 16) % 2
      /\ (y \div 8) % 2 = (d \div 8) % 2
      /\ (y \div 4) % 2 = (d \div 4) % 2
      /\ (y \div 2) % 2 = (d \div 2) % 2
      /\ (y \div 1) % 2 = (d \div 1) % 2
    BY <1>1, <2>1, <2>2, ByteInNumber, SMT
  <2> QED
    BY <2>3, <2>4, Worths, SMT
<1>7.
      /\ ((v \div Worth[0]) % 2 = 1 <=> 0 \in s)
      /\ ((v \div Worth[1]) % 2 = 1 <=> 1 \in s)
      /\ ((v \div Worth[2]) % 2 = 1 <=> 2 \in s)
      /\ ((v \div Worth[3]) % 2 = 1 <=> 3 \in s)
      /\ ((v \div Worth[4]) % 2 = 1 <=> 4 \in s)
      /\ ((v \div Worth[5]) % 2 = 1 <=> 5 \in s)
      /\ ((v \div Worth[6]) % 2 = 1 <=> 6 \in s)
      /\ ((v \div Worth[7]) % 2 = 1 <=> 7 \in s)
  BY <1>3, EightDigits, SMT DEF a
<1>8.
      /\ ((v \div Worth[8]) % 2 = 1 <=> 8 \in s)
      /\ ((v \div Worth[9]) % 2 = 1 <=> 9 \in s)
      /\ ((v \div Worth[10]) % 2 = 1 <=> 10 \in s)
      /\ ((v \div Worth[11]) % 2 = 1 <=> 11 \in s)
      /\ ((v \div Worth[12]) % 2 = 1 <=> 12 \in s)
      /\ ((v \div Worth[13]) % 2 = 1 <=> 13 \in s)
      /\ ((v \div Worth[14]) % 2 = 1 <=> 14 \in s)
      /\ ((v \div Worth[15]) % 2 = 1 <=> 15 \in s)
  BY <1>4, EightDigits, SMT DEF b
<1>9.
      /\ ((v \div Worth[16]) % 2 = 1 <=> 16 \in s)
      /\ ((v \div Worth[17]) % 2 = 1 <=> 17 \in s)
      /\ ((v \div Worth[18]) % 2 = 1 <=> 18 \in s)
      /\ ((v \div Worth[19]) % 2 = 1 <=> 19 \in s)
      /\ ((v \div Worth[20]) % 2 = 1 <=> 20 \in s)
      /\ ((v \div Worth[21]) % 2 = 1 <=> 21 \in s)
      /\ ((v \div Worth[22]) % 2 = 1 <=> 22 \in s)
      /\ ((v \div Worth[23]) % 2 = 1 <=> 23 \in s)
  BY <1>5, EightDigits, SMT DEF c
<1>10.
      /\ ((v \div Worth[24]) % 2 = 1 <=> 24 \in s)
      /\ ((v \div Worth[25]) % 2 = 1 <=> 25 \in s)
      /\ ((v \div Worth[26]) % 2 = 1 <=> 26 \in s)
      /\ ((v \div Worth[27]) % 2 = 1 <=> 27 \in s)
      /\ ((v \div Worth[28]) % 2 = 1 <=> 28 \in s)
      /\ ((v \div Worth[29]) % 2 = 1 <=> 29 \in s)
      /\ ((v \div Worth[30]) % 2 = 1 <=> 30 \in s)
      /\ ((v \div Worth[31]) % 2 = 1 <=> 31 \in s)
  BY <1>6, EightDigits, SMT DEF d
<1>11. \A k \in 0 .. 31 : (v \div Worth[k]) % 2 = 1 <=> k \in s
  BY <1>7, <1>8, <1>9, <1>10, SMT
<1>12. \A k \in 0 .. 31 : WBITS - 1 - k = 31 - k
  BY SMT DEF WBITS
<1>13. 0 .. WBITS - 1 = 0 .. 31
  BY SMT DEF WBITS
<1>14. \A k \in 0 .. 31 : (v \div 2 ^ (WBITS - 1 - k)) % 2 = 1 <=> k \in s
  BY <1>11, <1>12, WorthIs, Zenon
<1> QED
  BY <1>13, <1>14, Zenon DEF BitsOf, v

\* Taking out a bit takes out its worth.
LEMMA ValueLess ==
  ASSUME BYTE = 8, NEW s \in SUBSET (0 .. 31), NEW x \in s
  PROVE  Value(s) = 2 ^ (WBITS - 1 - x) + Value(s \ {x})
<1> DEFINE t == s \ {x}
<1>1. x \in 0 .. 31 /\ WBITS - 1 - x = 31 - x
  BY SMT DEF WBITS
<1>2.
      /\ x = 0 => Value(s) = Worth[x] + Value(t)
      /\ x = 1 => Value(s) = Worth[x] + Value(t)
      /\ x = 2 => Value(s) = Worth[x] + Value(t)
      /\ x = 3 => Value(s) = Worth[x] + Value(t)
      /\ x = 4 => Value(s) = Worth[x] + Value(t)
      /\ x = 5 => Value(s) = Worth[x] + Value(t)
      /\ x = 6 => Value(s) = Worth[x] + Value(t)
      /\ x = 7 => Value(s) = Worth[x] + Value(t)
  BY Worths, SMT DEF Value, Eight
<1>3.
      /\ x = 8 => Value(s) = Worth[x] + Value(t)
      /\ x = 9 => Value(s) = Worth[x] + Value(t)
      /\ x = 10 => Value(s) = Worth[x] + Value(t)
      /\ x = 11 => Value(s) = Worth[x] + Value(t)
      /\ x = 12 => Value(s) = Worth[x] + Value(t)
      /\ x = 13 => Value(s) = Worth[x] + Value(t)
      /\ x = 14 => Value(s) = Worth[x] + Value(t)
      /\ x = 15 => Value(s) = Worth[x] + Value(t)
  BY Worths, SMT DEF Value, Eight
<1>4.
      /\ x = 16 => Value(s) = Worth[x] + Value(t)
      /\ x = 17 => Value(s) = Worth[x] + Value(t)
      /\ x = 18 => Value(s) = Worth[x] + Value(t)
      /\ x = 19 => Value(s) = Worth[x] + Value(t)
      /\ x = 20 => Value(s) = Worth[x] + Value(t)
      /\ x = 21 => Value(s) = Worth[x] + Value(t)
      /\ x = 22 => Value(s) = Worth[x] + Value(t)
      /\ x = 23 => Value(s) = Worth[x] + Value(t)
  BY Worths, SMT DEF Value, Eight
<1>5.
      /\ x = 24 => Value(s) = Worth[x] + Value(t)
      /\ x = 25 => Value(s) = Worth[x] + Value(t)
      /\ x = 26 => Value(s) = Worth[x] + Value(t)
      /\ x = 27 => Value(s) = Worth[x] + Value(t)
      /\ x = 28 => Value(s) = Worth[x] + Value(t)
      /\ x = 29 => Value(s) = Worth[x] + Value(t)
      /\ x = 30 => Value(s) = Worth[x] + Value(t)
      /\ x = 31 => Value(s) = Worth[x] + Value(t)
  BY Worths, SMT DEF Value, Eight
<1>6. Value(s) = Worth[x] + Value(t)
  BY <1>1, <1>2, <1>3, <1>4, <1>5, SMT
<1> QED
  BY <1>1, <1>6, WorthIs, Zenon

\* The fold of FromBits, which takes out one bit after the other, whichever
\* it chooses.
LEMMA FromBitsIs ==
  ASSUME BYTE = 8, NEW S \in SUBSET (0 .. 31)
  PROVE  FromBits(S) = Value(S)
<1> DEFINE choose(s) == CHOOSE x \in s : TRUE
           F(f) == [s \in SUBSET S |->
                      IF s = {} THEN 0
                      ELSE 2 ^ (WBITS - 1 - choose(s)) + f[s \ {choose(s)}]]
           iter == CHOOSE f : f = F(f)
           v == [s \in SUBSET S |-> Value(s)]
<1>1. FromBits(S) = iter[S]
  BY Zenon DEF FromBits, MapThenSumSet, MapThenFoldSet
<1>2. ASSUME NEW s \in SUBSET S, s # {}
      PROVE  /\ choose(s) \in s /\ s \in SUBSET (0 .. 31)
             /\ s \ {choose(s)} \in SUBSET S /\ s \ {choose(s)} \in SUBSET (0 .. 31)
             /\ Value(s) = 2 ^ (WBITS - 1 - choose(s)) + Value(s \ {choose(s)})
             /\ Value(s \ {choose(s)}) < Value(s)
  <2> DEFINE x == choose(s)
  <2>1. x \in s
    BY <1>2, Zenon
  <2> HIDE DEF x
  <2>2. s \in SUBSET (0 .. 31) /\ s \ {x} \in SUBSET S /\ s \ {x} \in SUBSET (0 .. 31)
    BY Zenon
  <2>3. Value(s) = 2 ^ (WBITS - 1 - x) + Value(s \ {x})
    BY <2>1, <2>2, ValueLess, Zenon
  <2>4. x \in 0 .. 31 /\ WBITS - 1 - x = 31 - x
    BY <2>1, <2>2, SMT DEF WBITS
  <2>5. 2 ^ (31 - x) = Worth[x] /\ Worth[x] \in Nat /\ Worth[x] > 0
    BY <2>4, WorthIs, Zenon
  <2>6. Value(s \ {x}) \in Int
    BY <2>2, ValueFacts, Zenon
  <2>7. Value(s \ {x}) < Value(s)
    BY <2>3, <2>4, <2>5, <2>6, SMT
  <2> QED
    BY <2>1, <2>2, <2>3, <2>7, Zenon DEF x
<1> HIDE DEF choose
<1>3. {} \in SUBSET S /\ Value({}) = 0
  BY ValueFacts, Zenon
<1>4. v = F(v)
  <2>1. ASSUME NEW s \in SUBSET S
        PROVE  Value(s) = IF s = {} THEN 0
                          ELSE 2 ^ (WBITS - 1 - choose(s)) + v[s \ {choose(s)}]
    <3>1. CASE s = {}
      BY <1>3, <3>1, Zenon
    <3>2. CASE s # {}
      BY <1>2, <3>2, Zenon
    <3> QED
      BY <3>1, <3>2, Zenon
  <2> QED
    BY <2>1, Zenon
<1>5. iter = F(iter)
  <2>1. \E f : f = F(f)
    BY <1>4, Zenon
  <2> QED
    BY <2>1, Zenon
<1> HIDE DEF iter
<1>6. ASSUME NEW s \in SUBSET S
      PROVE  iter[s] = IF s = {} THEN 0
                       ELSE 2 ^ (WBITS - 1 - choose(s)) + iter[s \ {choose(s)}]
  BY <1>5, Zenon
<1> DEFINE Up(n) == \A s \in SUBSET S : Value(s) <= n => iter[s] = Value(s)
           K == {n \in 0 .. Top : Up(n)}
<1>7. \A n \in 0 .. Top - 1 : n \in Nat /\ n + 1 \in 0 .. Top
  BY TopIs, SMT
<1>8. 0 \in K
  <2>1. ASSUME NEW s \in SUBSET S, Value(s) <= 0 PROVE iter[s] = Value(s)
    <3>1. s = {}
      <4>1. s \in SUBSET (0 .. 31)
        BY Zenon
      <4> QED
        BY <2>1, <4>1, ValueFacts, SMT
    <3> QED
      BY <1>3, <1>6, <3>1, Zenon
  <2>2. 0 \in 0 .. Top
    BY TopIs, SMT
  <2> QED
    BY <2>1, <2>2, Zenon
<1>9. ASSUME NEW n \in 0 .. Top - 1, n \in K PROVE n + 1 \in K
  <2>1. ASSUME NEW s \in SUBSET S, Value(s) <= n + 1 PROVE iter[s] = Value(s)
    <3>1. CASE s = {}
      BY <1>3, <1>6, <3>1, Zenon
    <3>2. CASE s # {}
      <4> DEFINE x == choose(s)
      <4>1. /\ x \in s /\ s \in SUBSET (0 .. 31)
            /\ s \ {x} \in SUBSET S /\ s \ {x} \in SUBSET (0 .. 31)
            /\ Value(s) = 2 ^ (WBITS - 1 - x) + Value(s \ {x})
            /\ Value(s \ {x}) < Value(s)
        BY <1>2, <3>2, Zenon
      <4>2. iter[s] = 2 ^ (WBITS - 1 - x) + iter[s \ {x}]
        BY <1>6, <3>2, Zenon
      <4> HIDE DEF x
      <4>3. Value(s \ {x}) \in Int /\ Value(s) \in Int
        BY <4>1, ValueFacts, Zenon
      <4>4. Value(s \ {x}) <= n
        BY <1>7, <2>1, <4>1, <4>3, SMT
      <4>5. iter[s \ {x}] = Value(s \ {x})
        BY <1>9, <4>1, <4>4, Zenon
      <4> QED
        BY <4>1, <4>2, <4>5, Zenon
    <3> QED
      BY <3>1, <3>2, Zenon
  <2> QED
    BY <1>7, <2>1, Zenon
<1>10. \A n \in 0 .. Top : n \in K
  <2> HIDE DEF K
  <2> QED
    BY <1>8, <1>9, TopIs, Steps, Zenon
<1>11. Value(S) \in 0 .. Top /\ Value(S) <= Value(S)
  BY ValueFacts, SMT
<1>12. iter[S] = Value(S)
  BY <1>10, <1>11, Zenon
<1> QED
  BY <1>1, <1>12, Zenon

\* A word made of bits has them.
LEMMA BitsFacts ==
  ASSUME BYTE = 8, NEW S \in SUBSET (0 .. 31)
  PROVE  BitsOf(FromBits(S)) = S /\ FromBits(S) \in Word
<1>1. FromBits(S) = Value(S)
  BY FromBitsIs, Zenon
<1>2. Word = 0 .. Top
  <2>1. WBITS = 32
    BY SMT DEF WBITS
  <2>2. 2 ^ 32 = Top + 1
    BY SMT DEF Top
  <2>3. 2 ^ WBITS = Top + 1
    BY <2>1, <2>2, Zenon
  <2> QED
    BY <2>3, TopIs, SMT DEF Word
<1>3. Value(S) \in 0 .. Top
  BY ValueFacts, SMT
<1> QED
  BY <1>1, <1>2, <1>3, BitsOfValue, Zenon

-----------------------------------------------------------------------------
(* Exceptions, of every program.                                           *)

\* The inductive invariant: the history of instructions is a sequence of them.
TraceInv ==
  /\ prog \in DOMAIN Programs
  /\ ir \in Seq(Instructions)

\* The newest of the history is the one executed.
LEMMA Newest ==
  ASSUME NEW s \in Seq(Instructions), NEW i \in Instructions
  PROVE  /\ <<i>> \o SubSeq(s, 1, Min({1, Len(s)})) \in Seq(Instructions)
         /\ (<<i>> \o SubSeq(s, 1, Min({1, Len(s)})))[1] = i
<1> DEFINE m == Min({1, Len(s)})
<1>1. Len(s) \in Nat
  OBVIOUS
<1>2. m \in 0 .. Len(s)
  <2>1. Len(s) = 0 \/ Len(s) >= 1
    BY <1>1
  <2>2. \E x \in {1, Len(s)} : \A y \in {1, Len(s)} : x =< y
    BY <1>1
  <2>3. m \in {1, Len(s)} /\ \A y \in {1, Len(s)} : m =< y
    BY <2>2, Zenon DEF Min
  <2> HIDE DEF m
  <2> QED
    BY <1>1, <2>3
<1> HIDE DEF m
<1>3. SubSeq(s, 1, m) \in Seq(Instructions)
  BY <1>1, <1>2, SubSeqProperties, SMT
<1>4. <<i>> \in Seq(Instructions) /\ Len(<<i>>) = 1 /\ <<i>>[1] = i
  OBVIOUS
<1> DEFINE t == SubSeq(s, 1, m)
<1>5. <<i>> \o t \in Seq(Instructions) /\ (<<i>> \o t)[1] = <<i>>[1]
  <2> HIDE DEF t
  <2>1. t \in Seq(Instructions)
    BY <1>3 DEF t
  <2> QED
    BY <1>4, <2>1, ConcatProperties
<1> QED
  BY <1>4, <1>5 DEF m

\* Every step keeps what the history variables say of the last.
LEMMA TraceStep == TraceInv /\ [Next]_vars => TraceInv'
<1> SUFFICES ASSUME TraceInv, [Next]_vars PROVE TraceInv'
  OBVIOUS
<1>1. CASE UNCHANGED vars
  BY <1>1 DEF vars, TraceInv
<1>2. CASE Next
  <2>1. PICK i \in Programs[prog][CIA], junk \in Junk : Step(i, junk)
    BY <1>2 DEF Next
  <2>2. i \in Instructions
    BY <1>2, <2>1 DEF TraceInv, Instructions, Next, Running
  <2>3. ir' \in Seq(Instructions)
    BY <2>1, <2>2, Newest DEF TraceInv, Step
  <2> QED
    BY <2>1, <2>3 DEF TraceInv, Step
<1> QED
  BY <1>1, <1>2

\* The history belongs to the specification.
LEMMA TraceTheorem == Spec => []TraceInv
<1>1. Init => TraceInv
  BY DEF Init, TraceInv
<1> QED
  BY <1>1, TraceStep, PTL DEF Spec

\* An instruction that completes raises nothing.
LEMMA Completes ==
  ASSUME NEW s, NEW o, Complete(s, o) PROVE ret' = 0
BY DEF Complete, CompleteTo

\* What an instruction that raises an exception leaves alone, by the units.
Faultless(i) ==
  ret' # 0 =>
    /\ UNCHANGED <<CIA, spr, vr, BTS>>
    /\ i.op \notin Multiples => UNCHANGED <<gpr, mem>>

\* No integer instruction faults half-way.
LEMMA IntegerFaults ==
  ASSUME NEW i, NEW junk, Integer(i, junk) PROVE Faultless(i)
<1>1. CASE Arithmetic(i)
  BY <1>1, Completes DEF Arithmetic, Faultless
<1>2. CASE Divide(i, junk)
  BY <1>2, Completes DEF Divide, Faultless
<1>3. CASE Logic(i)
  BY <1>3, Completes DEF Logic, Faultless
<1>4. CASE Extend(i)
  BY <1>4, Completes DEF Extend, Faultless
<1>5. CASE ShiftRightAlgebraic(i)
  BY <1>5, Completes DEF ShiftRightAlgebraic, Faultless
<1>6. CASE Rotate(i, junk)
  BY <1>6, Completes DEF Rotate, Faultless
<1>7. CASE Compare(i)
  BY <1>7, Completes DEF Compare, Faultless
<1>8. CASE Trap(i)
  <2>1. CASE TrapOn(i)
    BY <1>8, <2>1 DEF Trap, Fail, Integer, Faultless
  <2>2. CASE ~ TrapOn(i)
    BY <1>8, <2>2, Completes DEF Trap, Faultless
  <2> QED
    BY <2>1, <2>2
<1>9. CASE MoveToCR(i) \/ MoveXERToCR(i)
  BY <1>9, Completes DEF MoveToCR, MoveXERToCR, Faultless
<1>10. CASE MoveFrom(i) \/ MoveTo(i) \/ CacheOp(i)
  BY <1>10, Completes DEF MoveFrom, MoveTo, CacheOp, Faultless
<1> QED
  BY <1>1, <1>2, <1>3, <1>4, <1>5, <1>6, <1>7, <1>8, <1>9, <1>10 DEF Integer

\* No branch faults half-way.
LEMMA BranchFaults ==
  ASSUME NEW i, NEW junk, Branches(i, junk) PROVE Faultless(i)
<1>1. CASE BranchConditional(i) \/ Branch(i) \/ ReturnFromInterrupt(i)
  BY <1>1 DEF BranchConditional, Branch, ReturnFromInterrupt, CompleteTo, Faultless
<1>2. CASE BranchToRegister(i, junk)
  BY <1>2 DEF BranchToRegister, CompleteTo, Faultless
<1>3. CASE MoveCRField(i) \/ CRLogic(i) \/ Synchronize(i)
  BY <1>3, Completes DEF MoveCRField, CRLogic, Synchronize, Faultless
<1>4. CASE SystemCall(i)
  BY <1>4 DEF SystemCall, Fail, Branches, Faultless
<1> QED
  BY <1>1, <1>2, <1>3, <1>4 DEF Branches

\* No load or store does, but for the multiples and the strings.
LEMMA MemoryFaults ==
  ASSUME NEW i, NEW junk, LoadsAndStores(i, junk) PROVE Faultless(i)
<1>1. CASE Load(i, junk)
  <2>1. CASE ~ Mapped(EA(i))
    BY <1>1, <2>1 DEF Load, Fail, LoadsAndStores, Faultless
  <2>2. CASE Mapped(EA(i))
    BY <1>1, <2>2, Completes DEF Load, Faultless
  <2> QED
    BY <2>1, <2>2
<1>2. CASE Store(i)
  <2>1. CASE ~ Mapped(EA(i))
    BY <1>2, <2>1 DEF Store, Fail, LoadsAndStores, Faultless
  <2>2. CASE Mapped(EA(i))
    BY <1>2, <2>2, Completes DEF Store, Faultless
  <2> QED
    BY <2>1, <2>2
<1>3. CASE LoadReserved(i)
  <2>1. CASE ~ Mapped(EA(i))
    BY <1>3, <2>1 DEF LoadReserved, Fail, LoadsAndStores, Faultless
  <2>2. CASE Mapped(EA(i))
    BY <1>3, <2>2, Completes DEF LoadReserved, Faultless
  <2> QED
    BY <2>1, <2>2
<1>4. CASE StoreConditional(i)
  <2> DEFINE hit == reserve_valid /\ rsvd_addr = EA(i)
  <2>1. CASE hit /\ ~ Mapped(EA(i))
    BY <1>4, <2>1 DEF StoreConditional, Fail, LoadsAndStores, Faultless
  <2>2. CASE ~ (hit /\ ~ Mapped(EA(i)))
    BY <1>4, <2>2, Completes DEF StoreConditional, Faultless
  <2> QED
    BY <2>1, <2>2
<1>5. ASSUME NEW n, NEW done, Multiple(i, n, done)
      PROVE  ret' # 0 => UNCHANGED <<CIA, spr>>
  BY <1>5, Completes DEF Multiple, Fail
<1>6. CASE LoadMultiple(i) \/ StoreMultiple(i) \/ LoadString(i) \/ StoreString(i)
  <2>1. i.op \in Multiples /\ (ret' # 0 => UNCHANGED <<CIA, spr>>)
    BY <1>5, <1>6 DEF LoadMultiple, StoreMultiple, LoadString, StoreString, Multiples
  <2> QED
    BY <2>1 DEF LoadsAndStores, Faultless
<1> QED
  BY <1>1, <1>2, <1>3, <1>4, <1>6 DEF LoadsAndStores

\* No vector instruction faults half-way.
LEMMA VectorFaults ==
  ASSUME NEW i, NEW junk, Vectors(i, junk) PROVE Faultless(i)
<1>1. CASE Fail(NO_AV) /\ UNCHANGED vr
  BY <1>1 DEF Fail, Vectors, Faultless
<1>2. CASE VectorLanes(i, junk)
  BY <1>2, Completes DEF VectorLanes, Faultless
<1>3. CASE VectorSaturating(i, junk)
  BY <1>3, Completes DEF VectorSaturating, Faultless
<1>4. CASE MoveVSCR(i)
  BY <1>4, Completes DEF MoveVSCR, Faultless
<1> QED
  BY <1>1, <1>2, <1>3, <1>4 DEF Vectors

\* An instruction that raises an exception has changed nothing that a retry
\* would see, but for the multiple and string forms: of every program, every
\* memory and every number of registers.
THEOREM FaultTheorem == Spec => PreciseFaults
<1>1. ASSUME TraceInv, [Next]_vars
      PROVE  [ret' # 0 =>
               /\ UNCHANGED <<CIA, spr, vr, BTS>>
               /\ ir'[1].op \notin Multiples => UNCHANGED <<gpr, mem>>]_vars
  <2>1. CASE Next
    <3>1. PICK i \in Programs[prog][CIA], junk \in Junk : Step(i, junk)
      BY <2>1 DEF Next
    <3>2. Faultless(i)
      BY <3>1, IntegerFaults, BranchFaults, MemoryFaults, VectorFaults DEF Step
    <3>3. i \in Instructions
      BY <1>1, <2>1, <3>1 DEF TraceInv, Instructions, Next, Running
    <3>4. ir'[1] = i
      BY <1>1, <3>1, <3>3, Newest DEF TraceInv, Step
    <3> QED
      BY <3>2, <3>4 DEF Faultless
  <2> QED
    BY <1>1, <2>1
<1> QED
  BY <1>1, TraceTheorem, PTL DEF Spec, PreciseFaults

-----------------------------------------------------------------------------
(* The registers stay words, at the width of the code.                     *)

\* The widths and ranges of the code.
LEMMA Widths ==
  ASSUME BYTE = 8
  PROVE  /\ WBITS = 32 /\ WBITS - 1 = 31 /\ 2 ^ WBITS = Top + 1 /\ Word = 0 .. Top
         /\ CRFields = 8 /\ CR6 = 7 /\ Fields = 0 .. 7
<1>1. WBITS = 32 /\ WBITS - 1 = 31 /\ WBITS \div 4 = 8
  BY SMT DEF WBITS
<1>2. 2 ^ 32 = Top + 1
  BY SMT DEF Top
<1>3. 2 ^ WBITS = Top + 1
  BY <1>1, <1>2, Zenon
<1>4. Word = 0 .. Top
  BY <1>3, TopIs, SMT DEF Word
<1>5. CRFields = 8 /\ CR6 = 7 /\ Fields = 0 .. 7
  BY <1>1, SMT DEF CRFields, CR6, Fields
<1> QED
  BY <1>1, <1>3, <1>4, <1>5, Zenon

\* The parts of a word.
Lower == 65536
Lowest == 256
Upmost == 2147483648

\* The parts of a word.
LEMMA Parts ==
  ASSUME BYTE = 8
  PROVE  /\ 2 ^ (2 * BYTE) = Lower /\ 2 ^ BYTE = Lowest
         /\ 2 ^ (3 * BYTE) = Lower * Lowest /\ 2 ^ (WBITS - 1) = Upmost
         /\ Half = 0 .. Lower - 1 /\ Byte = 0 .. Lowest - 1
<1>1. 2 * BYTE = 16 /\ 3 * BYTE = 24 /\ WBITS - 1 = 31
  BY SMT DEF WBITS
<1>2. 2 ^ 31 = Upmost /\ 2 ^ 24 = Lower * Lowest /\ 2 ^ 16 = Lower /\ 2 ^ 8 = Lowest
  BY SMT DEF Upmost, Lower, Lowest
<1>3. /\ 2 ^ (2 * BYTE) = Lower /\ 2 ^ BYTE = Lowest
      /\ 2 ^ (3 * BYTE) = Lower * Lowest /\ 2 ^ (WBITS - 1) = Upmost
  BY <1>1, <1>2, Zenon
<1> QED
  BY <1>3, Zenon DEF Half, Byte

\* Being a word, by its bounds.
LEMMA WordIs ==
  ASSUME BYTE = 8, NEW x
  PROVE  x \in Word <=> x \in Int /\ 0 <= x /\ x <= Top
<1>1. x \in 0 .. Top <=> x \in Int /\ 0 <= x /\ x <= Top
  BY TopIs, SMT
<1> QED
  BY <1>1, Widths, Zenon

\* The low bits of a number.
LEMMA LowIs ==
  ASSUME BYTE = 8, NEW x
  PROVE  Low(x) = x % (Top + 1)
BY Widths, Zenon DEF Low

\* What fits is a word: the low bits of a number, what is made of bits, and
\* a word with its bits inverted.
LEMMA LowIsWord ==
  ASSUME BYTE = 8, NEW x \in Int
  PROVE  Low(x) \in Word
<1>1. x % (Top + 1) \in Int /\ 0 <= x % (Top + 1) /\ x % (Top + 1) <= Top
  BY SMT DEF Top
<1>2. x % (Top + 1) \in Word
  BY <1>1, WordIs, Zenon
<1> QED
  BY <1>2, LowIs, Zenon

\* The bits of a word are at the places of a word.
LEMMA BitsIn ==
  ASSUME BYTE = 8, NEW x
  PROVE  BitsOf(x) \in SUBSET (0 .. 31)
BY Widths, Zenon DEF BitsOf

\* Bitwise operations make words.
LEMMA OrIsWord ==
  ASSUME BYTE = 8, NEW x, NEW y
  PROVE  OrW(x, y) \in Word /\ AndW(x, y) \in Word /\ XorW(x, y) \in Word
<1>1. /\ BitsOf(x) \cup BitsOf(y) \in SUBSET (0 .. 31)
      /\ BitsOf(x) \cap BitsOf(y) \in SUBSET (0 .. 31)
      /\ (BitsOf(x) \cup BitsOf(y)) \ (BitsOf(x) \cap BitsOf(y)) \in SUBSET (0 .. 31)
  BY BitsIn, Zenon
<1> QED
  BY <1>1, BitsFacts, Zenon DEF OrW, AndW, XorW

\* The complement of a word is its distance from the greatest.
LEMMA NotIsWord ==
  ASSUME BYTE = 8, NEW x \in Word
  PROVE  NotW(x) \in Word /\ NotW(x) = Top - x
<1> DEFINE p == 2 ^ WBITS
<1>1. p = Top + 1 /\ NotW(x) = p - 1 - x
  BY Widths, Zenon DEF NotW
<1>2. x \in Int /\ 0 <= x /\ x <= Top
  BY WordIs, Zenon
<1> HIDE DEF p
<1>3. NotW(x) = Top - x /\ Top - x \in Int /\ 0 <= Top - x /\ Top - x <= Top
  BY <1>1, <1>2, TopIs, SMT
<1> QED
  BY <1>3, WordIs, Zenon

\* The sign of a word, and its value with it.
LEMMA SignIs ==
  ASSUME BYTE = 8, NEW x \in Word
  PROVE  /\ Bit(x, 0) <=> x >= Upmost
         /\ Sign(x) = (IF x >= Upmost THEN Upmost ELSE 0)
         /\ Signed(x) = (IF x >= Upmost THEN x - (Top + 1) ELSE x)
<1>1. WBITS - 1 - 0 = WBITS - 1 /\ 0 \in 0 .. WBITS - 1
  BY SMT DEF WBITS
<1>2. Bit(x, 0) <=> (x \div Upmost) % 2 = 1
  BY <1>1, Parts, Zenon DEF Bit, BitsOf
<1>3. (x \div Upmost) % 2 = 1 <=> x >= Upmost
  <2>1. x \in Int /\ 0 <= x /\ x <= Top
    BY WordIs, Zenon
  <2> QED
    BY <2>1, SMT DEF Top, Upmost
<1> QED
  BY <1>2, <1>3, Widths, Parts, Zenon DEF Sign, Signed

\* An immediate operand, extended.
LEMMA HalfIsWord ==
  ASSUME BYTE = 8, NEW h \in Half
  PROVE  h \in Word
<1>1. h \in 0 .. Lower - 1
  BY Parts, Zenon
<1>2. h \in Int /\ 0 <= h /\ h <= Top
  BY <1>1, SMTT(30) DEF Lower, Top
<1> QED
  BY <1>2, WordIs, Zenon

\* Half a word extended by its sign is a word.
LEMMA ExtendedIsWord ==
  ASSUME BYTE = 8, NEW h \in Half
  PROVE  EXTS(h) \in Word
BY HalfIsWord, OrIsWord, Zenon DEF EXTS

\* So is a byte.
LEMMA ExtByteIsWord ==
  ASSUME BYTE = 8, NEW b \in Byte
  PROVE  ExtByte(b) \in Word
<1>1. b \in 0 .. Lowest - 1
  BY Parts, Zenon
<1>2. BYTE - 1 = 7 /\ 2 ^ 7 = 128
  BY SMT
<1>3. ExtByte(b) = IF b >= 128 THEN b + (Top + 1) - Lowest ELSE b
  <2>1. 2 ^ (BYTE - 1) = 128
    BY <1>2, Zenon
  <2> QED
    BY <2>1, Widths, Parts, Zenon DEF ExtByte
<1> DEFINE e == IF b >= 128 THEN b + (Top + 1) - Lowest ELSE b
<1>4. e \in Int /\ 0 <= e /\ e <= Top
  BY <1>1, SMTT(30) DEF Top, Lowest
<1> QED
  BY <1>3, <1>4, WordIs, Zenon

\* A quotient is no more than what is divided.
LEMMA Quotient ==
  ASSUME NEW x \in Nat, NEW d \in Nat, d > 0
  PROVE  x \div d \in 0 .. x
<1> DEFINE q == x \div d
<1>1. q \in Int /\ d * q <= x /\ x < d * (q + 1)
  BY SMT
<1> HIDE DEF q
<1>2. q >= 0
  <2>1. SUFFICES ASSUME q <= -1 PROVE FALSE
    BY <1>1, SMT
  <2>2. d * (q + 1) <= 0
    BY <1>1, <2>1, SMT
  <2> QED
    BY <1>1, <2>2, SMT
<1>3. q <= d * q
  BY <1>1, <1>2, SMT
<1> QED
  BY <1>1, <1>2, <1>3, SMT DEF q

\* Bytes of memory and of registers.
LEMMA ByteIs ==
  ASSUME BYTE = 8, NEW x
  PROVE  x \in Byte <=> x \in Int /\ 0 <= x /\ x <= 255
<1>1. Byte = 0 .. Lowest - 1
  BY Parts, Zenon
<1> QED
  BY <1>1, SMT DEF Lowest

\* Being half a word, by its bounds.
LEMMA HalfIs ==
  ASSUME BYTE = 8, NEW x
  PROVE  x \in Half <=> x \in Int /\ 0 <= x /\ x < Lower
<1>1. Half = 0 .. Lower - 1
  BY Parts, Zenon
<1>2. Lower \in Int
  BY SMT DEF Lower
<1> QED
  BY <1>1, <1>2, SMT

\* A byte of a word is a byte.
LEMMA ByteOfIsByte ==
  ASSUME BYTE = 8, NEW x \in Word, NEW k \in 0 .. 3
  PROVE  ByteOf(x, k) \in Byte
<1>1. x \in Int
  BY WordIs, Zenon
<1>2. /\ BYTE * (3 - 0) = 24 /\ BYTE * (3 - 1) = 16 /\ BYTE * (3 - 2) = 8 /\ BYTE * (3 - 3) = 0
      /\ 2 ^ 8 = Lowest
  BY SMT DEF Lower, Lowest
<1>3. ASSUME NEW y \in Int PROVE y % Lowest \in Byte
  <2>1. y % Lowest \in Int /\ 0 <= y % Lowest /\ y % Lowest <= 255
    BY SMT DEF Lowest
  <2> QED
    BY <2>1, ByteIs, Zenon
<1> DEFINE y == x \div 2 ^ (BYTE * (3 - k))
<1>4. y \in Int
  <2>1. /\ x \div 2 ^ 24 \in Int /\ x \div 2 ^ 16 \in Int
        /\ x \div 2 ^ 8 \in Int /\ x \div 2 ^ 0 \in Int
    BY <1>1, SMT
  <2>2. k = 0 \/ k = 1 \/ k = 2 \/ k = 3
    BY SMT
  <2> QED
    BY <1>2, <2>1, <2>2, Zenon
<1>5. ByteOf(x, k) = y % Lowest
  BY Parts, Zenon DEF ByteOf
<1> QED
  BY <1>3, <1>4, <1>5, Zenon

\* Four bytes make a word.
LEMMA OfBytesIsWord ==
  ASSUME BYTE = 8, NEW b, b[0] \in Byte, b[1] \in Byte, b[2] \in Byte, b[3] \in Byte
  PROVE  OfBytes(b) \in Word
<1> DEFINE w == b[0] * (Lower * Lowest) + b[1] * Lower + b[2] * Lowest + b[3]
<1>1. OfBytes(b) = w
  BY Parts, Zenon DEF OfBytes
<1>2. /\ b[0] \in Int /\ 0 <= b[0] /\ b[0] <= 255
      /\ b[1] \in Int /\ 0 <= b[1] /\ b[1] <= 255
      /\ b[2] \in Int /\ 0 <= b[2] /\ b[2] <= 255
      /\ b[3] \in Int /\ 0 <= b[3] /\ b[3] <= 255
  BY ByteIs, Zenon
<1>3. w \in Int /\ 0 <= w /\ w <= Top
  BY <1>2, SMT DEF Lower, Lowest, Top
<1> QED
  BY <1>1, <1>3, WordIs, Zenon

\* A word with its bytes swapped is a word.
LEMMA SwappedIsWord ==
  ASSUME BYTE = 8, NEW x \in Word
  PROVE  pSwap4Bytes(x) \in Word
<1> DEFINE b == [k \in 0 .. 3 |-> ByteOf(x, 3 - k)]
<1>1. /\ b[0] = ByteOf(x, 3 - 0) /\ b[1] = ByteOf(x, 3 - 1)
      /\ b[2] = ByteOf(x, 3 - 2) /\ b[3] = ByteOf(x, 3 - 3)
  BY SMT
<1>2. 3 - 0 \in 0 .. 3 /\ 3 - 1 \in 0 .. 3 /\ 3 - 2 \in 0 .. 3 /\ 3 - 3 \in 0 .. 3
  BY SMT
<1>3. b[0] \in Byte /\ b[1] \in Byte /\ b[2] \in Byte /\ b[3] \in Byte
  BY <1>1, <1>2, ByteOfIsByte, Zenon
<1> HIDE DEF b
<1>4. OfBytes(b) \in Word
  BY <1>3, OfBytesIsWord, Zenon
<1> QED
  BY <1>4, Zenon DEF pSwap4Bytes, b

\* Half a word with its bytes swapped is half a word.
LEMMA SwapHalfIsHalf ==
  ASSUME BYTE = 8, NEW h \in Half
  PROVE  SwapHalf(h) \in Half
<1>1. h \in Int /\ 0 <= h /\ h < Lower
  BY HalfIs, Zenon
<1>2. SwapHalf(h) = (h % Lowest) * Lowest + h \div Lowest
  BY Parts, Zenon DEF SwapHalf
<1> DEFINE g == (h % Lowest) * Lowest + h \div Lowest
<1>3. g \in Int /\ 0 <= g /\ g < Lower
  BY <1>1, SMT DEF Lower, Lowest
<1> QED
  BY <1>2, <1>3, HalfIs, Zenon

MemTyped == mem \in [MemBytes -> Byte]

\* What is read from memory is as wide as what is asked for.
LEMMA MemIs ==
  ASSUME BYTE = 8, MemTyped, NEW a \in Nat, Mapped(a)
  PROVE  MemWord(a) \in Word /\ MemHalf(a) \in Half /\ MemByte(a) \in Byte
<1>1. /\ a + 0 \in MemBytes /\ a + 1 \in MemBytes /\ a + 2 \in MemBytes /\ a + 3 \in MemBytes
      /\ a + 0 = a
  BY ProcessorAssumption, SMT DEF Mapped, MemBytes
<1>2. /\ mem[a + 0] \in Byte /\ mem[a + 1] \in Byte /\ mem[a + 2] \in Byte /\ mem[a + 3] \in Byte
  BY <1>1, Zenon DEF MemTyped
<1> DEFINE b == [k \in 0 .. 3 |-> mem[a + k]]
<1>3. b[0] = mem[a + 0] /\ b[1] = mem[a + 1] /\ b[2] = mem[a + 2] /\ b[3] = mem[a + 3]
  BY SMT
<1> HIDE DEF b
<1>4. OfBytes(b) \in Word
  BY <1>2, <1>3, OfBytesIsWord, Zenon
<1>5. MemHalf(a) = mem[a] * Lowest + mem[a + 1]
  BY Parts, Zenon DEF MemHalf
<1>6. /\ mem[a] \in Int /\ 0 <= mem[a] /\ mem[a] <= 255
      /\ mem[a + 1] \in Int /\ 0 <= mem[a + 1] /\ mem[a + 1] <= 255
  BY <1>1, <1>2, ByteIs, Zenon
<1> DEFINE g == mem[a] * Lowest + mem[a + 1]
<1>7. g \in Int /\ 0 <= g /\ g < Lower
  BY <1>6, SMT DEF Lower, Lowest
<1>8. g \in Half
  BY <1>7, HalfIs, Zenon
<1> QED
  BY <1>1, <1>2, <1>4, <1>5, <1>8, Zenon DEF MemWord, MemByte, b

\* Bytes put into memory leave memory of bytes.
LEMMA PutIsTyped ==
  ASSUME MemTyped, NEW a \in Nat, NEW n \in Nat, NEW b, \A k \in 0 .. n - 1 : b[k] \in Byte
  PROVE  MemPut(a, n, b) \in [MemBytes -> Byte]
<1>1. ASSUME NEW x \in MemBytes
      PROVE  (IF x - a \in 0 .. n - 1 THEN b[x - a] ELSE mem[x]) \in Byte
  BY <1>1, Zenon DEF MemTyped
<1> QED
  BY <1>1, Zenon DEF MemPut

\* Products grow with their factors, and a quotient is what its remainder says.
LEMMA Least ==
  ASSUME NEW x \in Int, NEW y \in Int, NEW p \in Int, p > 0, x <= y
  PROVE  p * x <= p * y
<1>1. p * (y - x) >= 0
  BY SMT
<1>2. p * (y - x) = p * y - p * x
  BY SMT
<1>3. p * x \in Int /\ p * y \in Int
  BY SMT
<1> QED
  BY <1>1, <1>2, <1>3, SMT

\* A quotient, from the remainder.
LEMMA DivIs ==
  ASSUME NEW x \in Int, NEW p \in Int, p > 0, NEW w \in Int, NEW r \in Int, 0 <= r, r < p,
         x = p * w + r
  PROVE  x \div p = w
<1> DEFINE g == x \div p
<1>1. g \in Int /\ p * g <= x /\ x < p * (g + 1)
  BY SMT
<1> HIDE DEF g
<1>2. ~ (g < w)
  <2>1. SUFFICES ASSUME g + 1 <= w PROVE FALSE
    BY <1>1, SMT
  <2>2. p * (g + 1) <= p * w
    BY <1>1, <2>1, Least, SMT
  <2> QED
    BY <1>1, <2>2, SMT
<1>3. ~ (w < g)
  <2>1. SUFFICES ASSUME w + 1 <= g PROVE FALSE
    BY <1>1, SMT
  <2>2. p * (w + 1) <= p * g /\ p * (w + 1) = p * w + p
    BY <1>1, <2>1, Least, SMT
  <2> QED
    BY <1>1, <2>2, SMT
<1> QED
  BY <1>1, <1>2, <1>3, SMT DEF g

\* Four bits of a number replaced by others, at the place worth p.
FieldPut(c, p, v) == c + (v - ((c \div p) % 16)) * p

\* A field of four bits that is put reads back, and nothing above it moves.
LEMMA FieldAt ==
  ASSUME NEW c \in Int, 0 <= c, NEW p \in Int, p > 0, NEW h \in Int, c < p * (16 * h),
         NEW v \in Int, 0 <= v, v <= 15
  PROVE  /\ FieldPut(c, p, v) \in Int /\ 0 <= FieldPut(c, p, v)
         /\ FieldPut(c, p, v) < p * (16 * h)
         /\ (FieldPut(c, p, v) \div p) % 16 = v
<1> DEFINE f == (c \div p) % 16
           put == FieldPut(c, p, v)
           g == c \div p
           r == c - p * g
           k == g \div 16
           w == 16 * k + v
<1>1. g \in Int /\ p * g <= c /\ c < p * (g + 1)
  BY SMT
<1>13. f = g % 16 /\ put = c + (v - f) * p
  BY Zenon DEF FieldPut
<1> HIDE DEF f, g, put
<1>2. r \in Int /\ 0 <= r /\ r < p /\ c = p * g + r
  <2>1. p * (g + 1) = p * g + p
    BY <1>1, SMT
  <2> QED
    BY <1>1, <2>1, SMT
<1> HIDE DEF r
<1>3. g >= 0
  <2>1. SUFFICES ASSUME g <= -1 PROVE FALSE
    BY <1>1, SMT
  <2>2. p * (g + 1) <= p * 0
    BY <1>1, <2>1, Least, SMT
  <2> QED
    BY <1>1, <2>2, SMT
<1>4. g <= 16 * h - 1
  <2>1. SUFFICES ASSUME 16 * h <= g PROVE FALSE
    BY <1>1, SMT
  <2>2. p * (16 * h) <= p * g
    BY <1>1, <2>1, Least, SMT
  <2> QED
    BY <1>1, <2>2, SMT
<1>5. k \in Int /\ 0 <= k /\ k <= h - 1
  BY <1>1, <1>3, <1>4, SMT
<1>6. f = g - 16 * k
  BY <1>1, <1>13, SMT
<1> HIDE DEF k
<1>7. (16 * k + v) % 16 = v
  BY <1>5, SMT
<1> HIDE DEF w
<1>8. w \in Int /\ 0 <= w /\ w + 1 <= 16 * h /\ w = g + (v - f)
  BY <1>1, <1>5, <1>6, SMT DEF w
<1>9. w % 16 = v
  BY <1>7, Zenon DEF w
<1>10. put = p * w + r
  <2>1. f \in Int
    BY <1>1, <1>5, <1>6, SMT
  <2>2. p * (g + (v - f)) = p * g + (v - f) * p
    BY <1>1, <2>1, SMT
  <2>3. p * w = p * (g + (v - f))
    BY <1>8, Zenon
  <2>4. p * g \in Int /\ (v - f) * p \in Int
    BY <1>1, <2>1, SMT
  <2> HIDE DEF w
  <2> QED
    BY <1>2, <1>13, <2>2, <2>3, <2>4, SMT
<1>11. p * 0 <= p * w /\ p * (w + 1) <= p * (16 * h) /\ p * (w + 1) = p * w + p
  <2>1. p * 0 <= p * w
    BY <1>8, Least, SMT
  <2>2. 16 * h \in Int /\ w + 1 \in Int
    BY <1>8, SMT
  <2>3. p * (w + 1) <= p * (16 * h)
    BY <1>8, <2>2, Least, Zenon
  <2>4. p * (w + 1) = p * w + p
    BY <1>8, SMT
  <2> QED
    BY <2>1, <2>3, <2>4, SMT
<1>12. put \div p = w
  <2>1. p * w + r \in Int
    BY <1>2, <1>8, SMT
  <2> QED
    BY <1>2, <1>8, <1>10, <2>1, DivIs, Zenon
<1> QED
  BY <1>2, <1>8, <1>9, <1>10, <1>11, <1>12, SMT DEF put

\* A field of the CR.
LEMMA FieldFacts ==
  ASSUME BYTE = 8, NEW s, s["CR"] \in Word, NEW v \in 0 .. 15, NEW no \in Fields,
         "CR" \in DOMAIN s
  PROVE  CR_put(s, no, v)["CR"] \in Word /\ CR_get(CR_put(s, no, v), no) = v
<1> DEFINE c == s["CR"]
           p == 2 ^ (4 * (CRFields - 1 - no))
           put == FieldPut(c, p, v)
<1>1. c \in Int /\ 0 <= c /\ c <= Top
  BY WordIs, Zenon
<1>2. \E h \in Int : p \in Int /\ p > 0 /\ p * (16 * h) = Top + 1
  <2>1. /\ 4 * (CRFields - 1 - 0) = 28 /\ 4 * (CRFields - 1 - 1) = 24
        /\ 4 * (CRFields - 1 - 2) = 20 /\ 4 * (CRFields - 1 - 3) = 16
        /\ 4 * (CRFields - 1 - 4) = 12 /\ 4 * (CRFields - 1 - 5) = 8
        /\ 4 * (CRFields - 1 - 6) = 4 /\ 4 * (CRFields - 1 - 7) = 0
    BY Widths, SMT
  <2>2. no = 0 \/ no = 1 \/ no = 2 \/ no = 3 \/ no = 4 \/ no = 5 \/ no = 6 \/ no = 7
    BY Widths, SMT
  <2> DEFINE Good(q) == \E h \in Int : q \in Int /\ q > 0 /\ q * (16 * h) = Top + 1
  <2>3. Good(2 ^ 0) /\ Good(2 ^ 4) /\ Good(2 ^ 8) /\ Good(2 ^ 12)
    BY SMT DEF Top
  <2>4. Good(2 ^ 16) /\ Good(2 ^ 20) /\ Good(2 ^ 24) /\ Good(2 ^ 28)
    BY SMT DEF Top
  <2> HIDE DEF Good
  <2>5. Good(p)
    BY <2>1, <2>2, <2>3, <2>4, Zenon
  <2> QED
    BY <2>5, Zenon DEF Good
<1>3. CR_put(s, no, v)["CR"] = put /\ CR_get(CR_put(s, no, v), no) = (put \div p) % 16
  <2>1. CR_put(s, no, v) = [s EXCEPT !["CR"] = s["CR"] + (v - CR_get(s, no)) * p]
    BY Zenon DEF CR_put
  <2>4. CR_put(s, no, v) = [s EXCEPT !["CR"] = put]
    BY <2>1, Zenon DEF CR_get, FieldPut
  <2> HIDE DEF put
  <2>2. CR_put(s, no, v)["CR"] = put
    BY <2>4, Zenon
  <2> QED
    BY <2>2, Zenon DEF CR_get
<1> HIDE DEF c, p
<1>4. put \in Int /\ 0 <= put /\ put < Top + 1 /\ (put \div p) % 16 = v
  <2>1. PICK h \in Int : p \in Int /\ p > 0 /\ p * (16 * h) = Top + 1
    BY <1>2, Zenon
  <2>2. c < p * (16 * h) /\ v \in Int /\ 0 <= v /\ v <= 15
    BY <1>1, <2>1, TopIs, SMT
  <2> HIDE DEF put
  <2>3. /\ FieldPut(c, p, v) \in Int /\ 0 <= FieldPut(c, p, v)
        /\ FieldPut(c, p, v) < p * (16 * h)
        /\ (FieldPut(c, p, v) \div p) % 16 = v
    BY <1>1, <2>1, <2>2, FieldAt, Zenon
  <2> QED
    BY <2>1, <2>3, Zenon DEF put
<1> HIDE DEF put
<1>5. put <= Top
  BY <1>4, TopIs, SMT
<1> QED
  BY <1>3, <1>4, <1>5, WordIs, Zenon

-----------------------------------------------------------------------------
(* Every register stays a word and every byte of memory a byte.            *)

\* The inductive invariant.
RegsInv ==
  /\ gpr \in [Regs -> Word]
  /\ SpecialRegisters(spr)
  /\ CIA \in Int

WordsInv == RegsInv /\ MemTyped

\* Powers of two are numbers.
LEMMA PowerIs ==
  ASSUME NEW n \in 0 .. 32
  PROVE  2 ^ n \in Nat /\ 2 ^ n > 0
<1> DEFINE Pow(k) == 2 ^ k \in Nat /\ 2 ^ k > 0
<1>1. /\ Pow(0) /\ Pow(1) /\ Pow(2) /\ Pow(3) /\ Pow(4) /\ Pow(5) /\ Pow(6) /\ Pow(7)
      /\ Pow(8) /\ Pow(9) /\ Pow(10) /\ Pow(11) /\ Pow(12) /\ Pow(13) /\ Pow(14) /\ Pow(15)
  BY SMT
<1>2. /\ Pow(16) /\ Pow(17) /\ Pow(18) /\ Pow(19) /\ Pow(20) /\ Pow(21) /\ Pow(22) /\ Pow(23)
      /\ Pow(24) /\ Pow(25) /\ Pow(26) /\ Pow(27) /\ Pow(28) /\ Pow(29) /\ Pow(30) /\ Pow(31)
  BY SMT
<1>3. Pow(32)
  BY SMT
<1>4. Pow(n)
  <2> HIDE DEF Pow
  <2>1. n \in 0 .. 15 \/ n \in 16 .. 31 \/ n = 32
    BY SMT
  <2>2. CASE n \in 0 .. 15
    <3>1. \/ n = 0 \/ n = 1 \/ n = 2 \/ n = 3 \/ n = 4 \/ n = 5 \/ n = 6 \/ n = 7
          \/ n = 8 \/ n = 9 \/ n = 10 \/ n = 11 \/ n = 12 \/ n = 13 \/ n = 14 \/ n = 15
      BY <2>2, SMT
    <3> QED
      BY <1>1, <3>1, Zenon
  <2>3. CASE n \in 16 .. 31
    <3>1. \/ n = 16 \/ n = 17 \/ n = 18 \/ n = 19 \/ n = 20 \/ n = 21 \/ n = 22 \/ n = 23
          \/ n = 24 \/ n = 25 \/ n = 26 \/ n = 27 \/ n = 28 \/ n = 29 \/ n = 30 \/ n = 31
      BY <2>3, SMT
    <3> QED
      BY <1>2, <3>1, Zenon
  <2> QED
    BY <1>3, <2>1, <2>2, <2>3, Zenon
<1> QED
  BY <1>4, Zenon DEF Pow

\* One special register is written.
LEMMA PutTyped ==
  ASSUME NEW s, SpecialRegisters(s), NEW r \in SPRs, NEW v, r = "VSCR" \/ v \in Word
  PROVE  /\ SpecialRegisters([s EXCEPT ![r] = v])
         /\ [s EXCEPT ![r] = v][r] = v
BY Zenon DEF SpecialRegisters

\* A field of the CR is written.
LEMMA FieldTyped ==
  ASSUME BYTE = 8, NEW s, SpecialRegisters(s), NEW no \in Fields, NEW v \in 0 .. 15
  PROVE  SpecialRegisters(CR_put(s, no, v))
<1>1. "CR" \in SPRs \ {"VSCR"} /\ "CR" \in DOMAIN s /\ s["CR"] \in Word
  BY Zenon DEF SpecialRegisters, SPRs
<1>2. CR_put(s, no, v)["CR"] \in Word
  BY <1>1, FieldFacts, Zenon
<1> DEFINE w == s["CR"] + (v - CR_get(s, no)) * 2 ^ (4 * (CRFields - 1 - no))
<1>3. CR_put(s, no, v) = [s EXCEPT !["CR"] = w]
  BY Zenon DEF CR_put
<1> HIDE DEF w
<1>4. w \in Word
  BY <1>1, <1>2, <1>3, Zenon
<1> QED
  BY <1>1, <1>3, <1>4, PutTyped, Zenon

\* A bit of the XER is written.
LEMMA XERTyped ==
  ASSUME BYTE = 8, NEW s, SpecialRegisters(s), NEW ov, NEW ca
  PROVE  SpecialRegisters(XER_setOV(s, ov)) /\ SpecialRegisters(XER_setCA(s, ca))
<1> DEFINE b == BitsOf(s["XER"])
           x == IF ov THEN b \cup {0, 1} ELSE b \ {1}
           y == IF ca = 1 THEN b \cup {2} ELSE b \ {2}
<1>1. b \in SUBSET (0 .. 31) /\ {0, 1, 2} \subseteq 0 .. 31
  BY BitsIn, SMT
<1>2. x \in SUBSET (0 .. 31) /\ y \in SUBSET (0 .. 31)
  BY <1>1, Zenon
<1>3. /\ XER_setOV(s, ov) = [s EXCEPT !["XER"] = FromBits(x)]
      /\ XER_setCA(s, ca) = [s EXCEPT !["XER"] = FromBits(y)]
  BY Zenon DEF XER_setOV, XER_setCA
<1> HIDE DEF x, y
<1>4. FromBits(x) \in Word /\ FromBits(y) \in Word /\ "XER" \in SPRs
  BY <1>2, BitsFacts, Zenon DEF SPRs
<1>5. SpecialRegisters([s EXCEPT !["XER"] = FromBits(x)])
  BY <1>4, PutTyped, Zenon
<1>6. SpecialRegisters([s EXCEPT !["XER"] = FromBits(y)])
  BY <1>4, PutTyped, Zenon
<1> QED
  BY <1>3, <1>5, <1>6, Zenon

\* What is put into a field of CR has four bits.
LEMMA FieldValues ==
  /\ \A ac, s : Recorded(ac, s) \in 0 .. 15
  /\ \A x, y, s : Compared(x, y, s) \in 0 .. 15
  /\ \A s : SOBit(s) \in 0 .. 1
<1>1. ASSUME NEW s PROVE SOBit(s) \in 0 .. 1
  BY SMT DEF SOBit
<1>2. ASSUME NEW ac, NEW s PROVE Recorded(ac, s) \in 0 .. 15
  <2>1. SOBit(s) \in 0 .. 1
    BY <1>1, Zenon
  <2> DEFINE f == IF Bit(ac, 0) THEN LT ELSE IF ac = 0 THEN EQ ELSE GT
  <2>2. f = LT \/ f = EQ \/ f = GT
    BY Zenon
  <2>3. Recorded(ac, s) = f + SOBit(s)
    BY Zenon DEF Recorded
  <2> HIDE DEF f
  <2> QED
    BY <2>1, <2>2, <2>3, SMT DEF LT, EQ, GT
<1>3. ASSUME NEW x, NEW y, NEW s PROVE Compared(x, y, s) \in 0 .. 15
  <2>1. SOBit(s) \in 0 .. 1
    BY <1>1, Zenon
  <2> DEFINE f == IF x < y THEN LT ELSE IF x > y THEN GT ELSE EQ
  <2>2. f = LT \/ f = EQ \/ f = GT
    BY Zenon
  <2>3. Compared(x, y, s) = f + SOBit(s)
    BY Zenon DEF Compared
  <2> HIDE DEF f
  <2> QED
    BY <2>1, <2>2, <2>3, SMT DEF LT, EQ, GT
<1> QED
  BY <1>1, <1>2, <1>3, Zenon

\* The updates at the end of an instruction.
LEMMA UpdatedTyped ==
  ASSUME BYTE = 8, NEW s, SpecialRegisters(s), NEW o, o.vrc => o.ac \in 0 .. 15
  PROVE  SpecialRegisters(Updated(s, o))
<1> DEFINE s1 == IF o.rc    THEN CR_put(s, 0, Recorded(o.ac, s)) ELSE s
           s2 == IF o.vrc   THEN CR_put(s1, CR6, o.ac) ELSE s1
           s3 == IF o.sat   THEN [s2 EXCEPT !["VSCR"] = OrW(@, 1)] ELSE s2
           s4 == IF o.oe    THEN XER_setOV(s3, o.ov) ELSE s3
<1>0. 0 \in Fields /\ CR6 \in Fields
  BY Widths, SMT
<1>1. SpecialRegisters(s1)
  BY <1>0, FieldTyped, FieldValues, Zenon
<1> HIDE DEF s1
<1>2. SpecialRegisters(s2)
  BY <1>0, <1>1, FieldTyped, Zenon
<1> HIDE DEF s2
<1>3. SpecialRegisters(s3)
  BY <1>2, PutTyped, Zenon DEF SPRs
<1> HIDE DEF s3
<1>4. SpecialRegisters(s4)
  BY <1>3, XERTyped, Zenon
<1> HIDE DEF s4
<1>5. SpecialRegisters(IF o.setCA THEN XER_setCA(s4, o.ca) ELSE s4)
  BY <1>4, XERTyped, Zenon
<1> QED
  BY <1>5, Zenon DEF Updated, s4, s3, s2, s1

\* The outcome of an instruction: its result, and nothing for CR6.
Plain(o) == o.vrc = FALSE /\ o.ac \in Word

\* An outcome is what it was made from.
LEMMA OutcomeIs ==
  ASSUME NEW i, NEW ac
  PROVE  /\ Outcome(i, ac).ac = ac /\ Outcome(i, ac).vrc = FALSE
         /\ \A r, e : LET o == [Outcome(i, ac) EXCEPT !.rc = r, !.oe = e]
                      IN  o.ac = ac /\ o.vrc = FALSE
BY Zenon DEF Outcome

\* A word makes an outcome that is to be recorded as a word.
LEMMA OutcomePlain ==
  ASSUME NEW i, NEW ac \in Word
  PROVE  Plain(Outcome(i, ac))
BY OutcomeIs, Zenon DEF Plain

\* So does a sum, by its low bits.
LEMMA SumIs ==
  ASSUME BYTE = 8, NEW i, NEW l \in Int, NEW msb, NEW setCA
  PROVE  Plain(Sum(i, l, msb, setCA))
<1>1. Sum(i, l, msb, setCA).ac = Low(l) /\ Sum(i, l, msb, setCA).vrc = FALSE
  BY Zenon DEF Sum, Outcome
<1> QED
  BY <1>1, LowIsWord, Zenon DEF Plain

\* The next instruction is at a word.
LEMMA NIAIs ==
  ASSUME BYTE = 8, CIA \in Int
  PROVE  NIA \in Word /\ NIA \in Int
<1>1. CIA + 4 \in Int
  BY SMT
<1>2. NIA \in Word
  BY <1>1, LowIsWord, Zenon DEF NIA
<1> QED
  BY <1>2, WordIs, Zenon

\* An instruction completes.
LEMMA CompletesTyped ==
  ASSUME BYTE = 8, CIA \in Int, NEW s, SpecialRegisters(s), NEW o, Complete(s, o),
         o.vrc => o.ac \in 0 .. 15
  PROVE  SpecialRegisters(spr') /\ CIA' \in Int
<1>1. SpecialRegisters(Updated(s, o))
  BY UpdatedTyped, Zenon
<1> QED
  BY <1>1, NIAIs, Zenon DEF Complete, CompleteTo

\* A word put into a register leaves registers of words.
LEMMA RegisterPut ==
  ASSUME NEW g, g \in [Regs -> Word], NEW d \in Regs, NEW v \in Word
  PROVE  [g EXCEPT ![d] = v] \in [Regs -> Word]
OBVIOUS

\* The carry is a bit.
LEMMA CAIs ==
  ASSUME NEW s
  PROVE  XER_CA(s) \in Int /\ XER_CA(s) \in 0 .. 1
BY SMT DEF XER_CA

\* The upper word of a product is no more than either factor.
LEMMA UpperWord ==
  ASSUME BYTE = 8, NEW a \in Word, NEW b \in Word
  PROVE  (a * b) \div 2 ^ WBITS \in Word
<1> DEFINE m == Top + 1
           q == (a * b) \div m
<1>1. a \in Int /\ 0 <= a /\ a <= Top /\ b \in Int /\ 0 <= b /\ b <= Top
  BY WordIs, Zenon
<1>2. m \in Int /\ m > 0 /\ b <= m /\ a * b \in Int /\ a * b >= 0
  BY <1>1, TopIs, SMT
<1> HIDE DEF m
<1>3. a * b <= a * m
  <2>1. CASE a = 0
    BY <1>1, <1>2, <2>1, SMT
  <2>2. CASE a > 0
    BY <1>1, <1>2, <2>2, Least, SMT
  <2> QED
    BY <1>1, <2>1, <2>2, SMT
<1>4. q \in Int /\ 0 <= q /\ m * q <= a * b
  BY <1>2, Quotient, SMT
<1> HIDE DEF q
<1>5. q <= a
  <2>1. SUFFICES ASSUME a + 1 <= q PROVE FALSE
    BY <1>1, <1>4, SMT
  <2>2. m * (a + 1) <= m * q
    BY <1>1, <1>2, <1>4, <2>1, Least, SMT
  <2>3. m * (a + 1) = a * m + m /\ a * m \in Int
    BY <1>1, <1>2, SMT
  <2> QED
    BY <1>1, <1>2, <1>3, <1>4, <2>2, <2>3, SMT
<1>6. q \in Word
  <2>1. q <= Top
    BY <1>1, <1>4, <1>5, TopIs, SMT
  <2> QED
    BY <1>4, <2>1, WordIs, Zenon
<1>7. m = 2 ^ WBITS
  BY Widths, Zenon DEF m
<1> QED
  BY <1>6, <1>7, Zenon DEF q

\* Signed words and what the arithmetic makes of them are integers.
LEMMA WordInt ==
  ASSUME BYTE = 8, NEW x \in Word
  PROVE  /\ x \in Int /\ 0 <= x /\ x <= Top /\ Signed(x) \in Int /\ Sign(x) \in Int
         /\ NotW(x) \in Int /\ NotW(x) \in Word
<1>1. x \in Int /\ 0 <= x /\ x <= Top
  BY WordIs, Zenon
<1>2. Signed(x) \in Int /\ Sign(x) \in Int
  <2>1. /\ Sign(x) = (IF x >= Upmost THEN Upmost ELSE 0)
        /\ Signed(x) = (IF x >= Upmost THEN x - (Top + 1) ELSE x)
    BY SignIs, Zenon
  <2> QED
    BY <1>1, <2>1, TopIs, SMT DEF Upmost
<1> QED
  BY <1>1, <1>2, NotIsWord, WordIs, Zenon

\* Every arithmetic instruction makes a word for a register there is.
LEMMA ArithmeticIs ==
  ASSUME BYTE = 8, gpr \in [Regs -> Word], NEW i, Decoded(i), i.op \in ArithmeticOps
  PROVE  Plain(ArithmeticOutcome(i)) /\ i.D \in Regs
<1> DEFINE a == gpr[i.A]
           b == gpr[i.B]
           ca == XER_CA(spr)
           o == ArithmeticOutcome(i)
<1>1. i.D \in Regs /\ i.A \in Regs /\ i.B \in Regs /\ i.SIMM \in Half
  BY Zenon DEF Decoded, RegisterOps
<1>0. SUFFICES Plain(o)
  BY <1>1, Zenon
<1>2. a \in Word /\ b \in Word
  BY <1>1, Zenon
<1>3. i.SIMM \in Word /\ EXTS(i.SIMM) \in Word
  BY <1>1, HalfIsWord, ExtendedIsWord, Zenon
<1>4. /\ a \in Int /\ NotW(a) \in Int /\ b \in Int /\ ca \in Int /\ Signed(a) \in Int
      /\ Signed(b) \in Int /\ i.SIMM \in Int /\ EXTS(i.SIMM) \in Int
  BY <1>2, <1>3, WordInt, CAIs, Zenon
<1> DEFINE s == i.SIMM
           e == EXTS(i.SIMM)
           z == GRorZero(i.A)
           u == ShiftLeft(i.SIMM, 2 * BYTE)
           m == 2 ^ WBITS
           n == NotW(a)
           p == Signed(a) * Signed(b)
<1>5. m \in Int /\ m > 0
  BY Widths, TopIs, SMT
<1>6. z \in Int
  BY <1>4, SMT DEF GRorZero
<1>7. u \in Int
  <2>1. i.SIMM * Lower \in Int
    BY <1>4, SMT DEF Lower
  <2>2. u \in Word
    BY <2>1, Parts, LowIsWord, Zenon DEF ShiftLeft
  <2> QED
    BY <2>2, WordIs, Zenon
<1>8. p \in Int
  <2> DEFINE x == Signed(a)
             y == Signed(b)
  <2>1. x \in Int /\ y \in Int
    BY <1>4, Zenon
  <2> HIDE DEF x, y
  <2>2. x * y \in Int
    BY <2>1, SMT
  <2> QED
    BY <2>2, Zenon DEF x, y
<1> HIDE DEF a, b, ca, s, e, z, u, m, n, p, o
<1>9. /\ a \in Int /\ b \in Int /\ ca \in Int /\ s \in Int /\ e \in Int /\ n \in Int
  BY <1>4, Zenon DEF a, b, ca, s, e, n
<1>10. /\ b - a \in Int /\ a + b \in Int /\ b - a - 1 + ca \in Int /\ a + b + ca \in Int
       /\ n + ca \in Int /\ a + ca \in Int /\ n + ca - 1 \in Int /\ a + ca + m - 1 \in Int
       /\ -a \in Int /\ a * b \in Int /\ p \div m \in Int /\ a * s \in Int /\ s - a \in Int
       /\ a + e \in Int /\ z + e \in Int /\ z + u \in Int
  BY <1>5, <1>6, <1>7, <1>8, <1>9, SMT
<1>11. CASE i.op \in {"subf", "subfc"}
  <2>1. o = Sum(i, b - a, Sign(NotW(Low(a + 1))) + Sign(b), i.op = "subfc")
    BY <1>11, Zenon DEF o, ArithmeticOutcome, a, b, ca, subf
  <2> QED
    BY <1>10, <2>1, SumIs, Zenon
<1>12. CASE i.op \in {"add", "addc", "adde"}
  <2>1. \/ o = Sum(i, a + b, Sign(a) + Sign(b), FALSE)
        \/ o = Sum(i, a + b + ca, Sign(a) + Sign(b), TRUE)
    BY <1>12, Zenon DEF o, ArithmeticOutcome, a, b, ca, add, addc, adde
  <2> QED
    BY <1>10, <2>1, SumIs, Zenon
<1>13. CASE i.op \in {"subfe", "subfze", "addze"}
  <2>1. \/ o = Sum(i, b - a - 1 + ca, Sign(NotW(a)) + Sign(b) + ca, TRUE)
        \/ o = Sum(i, n + ca, Sign(NotW(a)) + ca, TRUE)
        \/ o = Sum(i, a + ca, Sign(a) + Sign(b), TRUE)
    BY <1>13, Zenon DEF o, ArithmeticOutcome, a, b, ca, n, subfe, subfze, addze
  <2> QED
    BY <1>10, <2>1, SumIs, Zenon
<1>14. CASE i.op \in {"subfme", "addme"}
  <2>1. \/ o = Sum(i, n + ca - 1, Sign(a) + ca - 2 ^ (WBITS - 1), TRUE)
        \/ o = Sum(i, a + ca + m - 1, Sign(a) + Sign(b), TRUE)
    BY <1>14, Zenon DEF o, ArithmeticOutcome, a, b, ca, n, m, subfme, addme
  <2> QED
    BY <1>10, <2>1, SumIs, Zenon
<1>15. CASE i.op \in {"neg", "mulhwu", "mulhw", "mullw"}
  <2>1. CASE i.op = "mulhwu"
    <3>1. o = Outcome(i, (a * b) \div m)
      BY <2>1, Zenon DEF o, ArithmeticOutcome, a, b, m, mulhwu
    <3>2. (a * b) \div m \in Word
      BY <1>2, UpperWord, Zenon DEF a, b, m
    <3> QED
      BY <3>1, <3>2, OutcomePlain, Zenon
  <2>2. CASE i.op = "mulhw"
    <3>1. o = Outcome(i, Low(p \div m))
      BY <2>2, Zenon DEF o, ArithmeticOutcome, a, b, p, m, mulhw
    <3> QED
      BY <1>10, <3>1, LowIsWord, OutcomePlain, Zenon
  <2>3. CASE i.op = "neg"
    <3>1. o = neg(i, a)
      BY <2>3, Zenon DEF o, ArithmeticOutcome, a
    <3>2. o.ac = Low(-a) /\ o.vrc = FALSE
      BY <3>1, Zenon DEF neg, Outcome
    <3> QED
      BY <1>10, <3>2, LowIsWord, Zenon DEF Plain
  <2>4. CASE i.op = "mullw"
    <3>1. o = mullw(i, a, b)
      BY <2>4, Zenon DEF o, ArithmeticOutcome, a, b
    <3>2. CASE a * b \in Word
      BY <3>1, <3>2, OutcomePlain, Zenon DEF mullw
    <3>3. CASE a * b \notin Word
      <4>1. o = Overflowing(Outcome(i, Low(a * b)))
        BY <3>1, <3>3, Zenon DEF mullw
      <4>2. o.ac = Low(a * b) /\ o.vrc = FALSE
        BY <4>1, Zenon DEF Overflowing, Outcome
      <4> QED
        BY <1>10, <4>2, LowIsWord, Zenon DEF Plain
    <3> QED
      BY <3>2, <3>3, Zenon
  <2> QED
    BY <1>15, <2>1, <2>2, <2>3, <2>4, Zenon
<1>16. CASE i.op \in {"mulli", "subfic", "addic", "addic.", "addi", "addis"}
  <2>1. CASE i.op \in {"mulli", "addi", "addis"}
    <3>1. o = Outcome(i, Low(a * s)) \/ o = Outcome(i, Low(z + e)) \/ o = Outcome(i, Low(z + u))
      BY <2>1, Zenon DEF o, ArithmeticOutcome, a, s, z, e, u, mulli, addi, addis
    <3> QED
      BY <1>10, <3>1, LowIsWord, OutcomePlain, Zenon
  <2>2. CASE i.op = "subfic"
    <3>1. o = subfic(i, a)
      BY <2>2, Zenon DEF o, ArithmeticOutcome, a
    <3>2. o.ac = Low(s - a) /\ o.vrc = FALSE
      BY <3>1, Zenon DEF subfic, Outcome, s
    <3> QED
      BY <1>10, <3>2, LowIsWord, Zenon DEF Plain
  <2>3. CASE i.op \in {"addic", "addic."}
    <3>1. o = addic(i, a)
      BY <2>3, Zenon DEF o, ArithmeticOutcome, a
    <3>2. o.ac = Low(a + e) /\ o.vrc = FALSE
      BY <3>1, Zenon DEF addic, Outcome, e
    <3> QED
      BY <1>10, <3>2, LowIsWord, Zenon DEF Plain
  <2> QED
    BY <1>16, <2>1, <2>2, <2>3, Zenon
<1>17. /\ i.op \in {"subf", "subfc"} \/ i.op \in {"add", "addc", "adde"}
          \/ i.op \in {"subfe", "subfze", "addze"} \/ i.op \in {"subfme", "addme"}
          \/ i.op \in {"neg", "mulhwu", "mulhw", "mullw"}
          \/ i.op \in {"mulli", "subfic", "addic", "addic.", "addi", "addis"}
  BY Zenon DEF ArithmeticOps
<1> QED
  BY <1>1, <1>11, <1>12, <1>13, <1>14, <1>15, <1>16, <1>17, Zenon

\* A word that is not zero has a bit.
LEMMA SomeBit ==
  ASSUME BYTE = 8, NEW x \in Word, x # 0
  PROVE  \E k \in 0 .. 31 : k \in BitsOf(x)
<1>1. x \in Int /\ 0 < x /\ x <= Top
  BY WordIs, SMT
<1>2. x < 2 * Worth[0]
  BY <1>1, Worths, SMT DEF Top
<1>3. /\ Worth[0] <= x /\ x < 2 * Worth[0] => (x \div Worth[0]) % 2 = 1
      /\ Worth[1] <= x /\ x < 2 * Worth[1] => (x \div Worth[1]) % 2 = 1
      /\ Worth[2] <= x /\ x < 2 * Worth[2] => (x \div Worth[2]) % 2 = 1
      /\ Worth[3] <= x /\ x < 2 * Worth[3] => (x \div Worth[3]) % 2 = 1
      /\ Worth[4] <= x /\ x < 2 * Worth[4] => (x \div Worth[4]) % 2 = 1
      /\ Worth[5] <= x /\ x < 2 * Worth[5] => (x \div Worth[5]) % 2 = 1
      /\ Worth[6] <= x /\ x < 2 * Worth[6] => (x \div Worth[6]) % 2 = 1
      /\ Worth[7] <= x /\ x < 2 * Worth[7] => (x \div Worth[7]) % 2 = 1
  BY <1>1, Worths, SMT
<1>4. /\ Worth[8] <= x /\ x < 2 * Worth[8] => (x \div Worth[8]) % 2 = 1
      /\ Worth[9] <= x /\ x < 2 * Worth[9] => (x \div Worth[9]) % 2 = 1
      /\ Worth[10] <= x /\ x < 2 * Worth[10] => (x \div Worth[10]) % 2 = 1
      /\ Worth[11] <= x /\ x < 2 * Worth[11] => (x \div Worth[11]) % 2 = 1
      /\ Worth[12] <= x /\ x < 2 * Worth[12] => (x \div Worth[12]) % 2 = 1
      /\ Worth[13] <= x /\ x < 2 * Worth[13] => (x \div Worth[13]) % 2 = 1
      /\ Worth[14] <= x /\ x < 2 * Worth[14] => (x \div Worth[14]) % 2 = 1
      /\ Worth[15] <= x /\ x < 2 * Worth[15] => (x \div Worth[15]) % 2 = 1
  BY <1>1, Worths, SMT
<1>5. /\ Worth[16] <= x /\ x < 2 * Worth[16] => (x \div Worth[16]) % 2 = 1
      /\ Worth[17] <= x /\ x < 2 * Worth[17] => (x \div Worth[17]) % 2 = 1
      /\ Worth[18] <= x /\ x < 2 * Worth[18] => (x \div Worth[18]) % 2 = 1
      /\ Worth[19] <= x /\ x < 2 * Worth[19] => (x \div Worth[19]) % 2 = 1
      /\ Worth[20] <= x /\ x < 2 * Worth[20] => (x \div Worth[20]) % 2 = 1
      /\ Worth[21] <= x /\ x < 2 * Worth[21] => (x \div Worth[21]) % 2 = 1
      /\ Worth[22] <= x /\ x < 2 * Worth[22] => (x \div Worth[22]) % 2 = 1
      /\ Worth[23] <= x /\ x < 2 * Worth[23] => (x \div Worth[23]) % 2 = 1
  BY <1>1, Worths, SMT
<1>6. /\ Worth[24] <= x /\ x < 2 * Worth[24] => (x \div Worth[24]) % 2 = 1
      /\ Worth[25] <= x /\ x < 2 * Worth[25] => (x \div Worth[25]) % 2 = 1
      /\ Worth[26] <= x /\ x < 2 * Worth[26] => (x \div Worth[26]) % 2 = 1
      /\ Worth[27] <= x /\ x < 2 * Worth[27] => (x \div Worth[27]) % 2 = 1
      /\ Worth[28] <= x /\ x < 2 * Worth[28] => (x \div Worth[28]) % 2 = 1
      /\ Worth[29] <= x /\ x < 2 * Worth[29] => (x \div Worth[29]) % 2 = 1
      /\ Worth[30] <= x /\ x < 2 * Worth[30] => (x \div Worth[30]) % 2 = 1
      /\ Worth[31] <= x /\ x < 2 * Worth[31] => (x \div Worth[31]) % 2 = 1
  BY <1>1, Worths, SMT
<1>7. /\ Worth[0] = 2 * Worth[1] /\ Worth[1] = 2 * Worth[2] /\ Worth[2] = 2 * Worth[3] /\ Worth[3] = 2 * Worth[4]
      /\ Worth[4] = 2 * Worth[5] /\ Worth[5] = 2 * Worth[6] /\ Worth[6] = 2 * Worth[7] /\ Worth[7] = 2 * Worth[8]
      /\ Worth[8] = 2 * Worth[9] /\ Worth[9] = 2 * Worth[10] /\ Worth[10] = 2 * Worth[11] /\ Worth[11] = 2 * Worth[12]
      /\ Worth[12] = 2 * Worth[13] /\ Worth[13] = 2 * Worth[14] /\ Worth[14] = 2 * Worth[15] /\ Worth[15] = 2 * Worth[16]
      /\ Worth[16] = 2 * Worth[17] /\ Worth[17] = 2 * Worth[18] /\ Worth[18] = 2 * Worth[19] /\ Worth[19] = 2 * Worth[20]
      /\ Worth[20] = 2 * Worth[21] /\ Worth[21] = 2 * Worth[22] /\ Worth[22] = 2 * Worth[23] /\ Worth[23] = 2 * Worth[24]
      /\ Worth[24] = 2 * Worth[25] /\ Worth[25] = 2 * Worth[26] /\ Worth[26] = 2 * Worth[27] /\ Worth[27] = 2 * Worth[28]
      /\ Worth[28] = 2 * Worth[29] /\ Worth[29] = 2 * Worth[30] /\ Worth[30] = 2 * Worth[31]
  BY Worths, SMT
<1>8. \E k \in 0 .. 31 : Worth[k] <= x /\ x < 2 * Worth[k]
  <2> DEFINE Has(k) == Worth[k] <= x /\ x < 2 * Worth[k]
  <2>1. Worth[31] <= x
    BY <1>1, Worths, SMT
  <2>2. \/ Has(0) \/ Has(1) \/ Has(2) \/ Has(3) \/ Has(4) \/ Has(5) \/ Has(6) \/ Has(7)
        \/ Has(8) \/ Has(9) \/ Has(10) \/ Has(11) \/ Has(12) \/ Has(13) \/ Has(14) \/ Has(15)
        \/ Has(16) \/ Has(17) \/ Has(18) \/ Has(19) \/ Has(20) \/ Has(21) \/ Has(22) \/ Has(23)
        \/ Has(24) \/ Has(25) \/ Has(26) \/ Has(27) \/ Has(28) \/ Has(29) \/ Has(30) \/ Has(31)
    BY <1>1, <1>2, <1>7, <2>1, Worths, SMT
  <2> HIDE DEF Has
  <2>3. \E k \in 0 .. 31 : Has(k)
    BY <2>2, SMT
  <2> QED
    BY <2>3, Zenon DEF Has
<1>9. PICK k \in 0 .. 31 : Worth[k] <= x /\ x < 2 * Worth[k]
  BY <1>8, Zenon
<1>10. (x \div Worth[k]) % 2 = 1
  <2> DEFINE Odd(j) == Worth[j] <= x /\ x < 2 * Worth[j] => (x \div Worth[j]) % 2 = 1
  <2>1. /\ Odd(0) /\ Odd(1) /\ Odd(2) /\ Odd(3) /\ Odd(4) /\ Odd(5) /\ Odd(6) /\ Odd(7)
        /\ Odd(8) /\ Odd(9) /\ Odd(10) /\ Odd(11) /\ Odd(12) /\ Odd(13) /\ Odd(14) /\ Odd(15)
        /\ Odd(16) /\ Odd(17) /\ Odd(18) /\ Odd(19) /\ Odd(20) /\ Odd(21) /\ Odd(22) /\ Odd(23)
        /\ Odd(24) /\ Odd(25) /\ Odd(26) /\ Odd(27) /\ Odd(28) /\ Odd(29) /\ Odd(30) /\ Odd(31)
    BY <1>3, <1>4, <1>5, <1>6, Zenon
  <2> HIDE DEF Odd
  <2>2. Odd(k)
    BY <2>1, SMT
  <2> QED
    BY <1>9, <2>2, Zenon DEF Odd
<1>11. WBITS - 1 - k = 31 - k /\ 0 .. WBITS - 1 = 0 .. 31
  BY SMT DEF WBITS
<1>12. k \in BitsOf(x)
  BY <1>10, <1>11, WorthIs, Zenon DEF BitsOf
<1> QED
  BY <1>12, Zenon

\* The leading zeros of a word are at most 32.
LEMMA LeadingZeros ==
  ASSUME BYTE = 8, NEW x \in Word
  PROVE  cntlzw(x) \in Word
<1>1. CASE x = 0
  <2>1. cntlzw(x) = WBITS
    BY <1>1, Zenon DEF cntlzw
  <2>2. WBITS \in Int /\ 0 <= WBITS /\ WBITS <= Top
    <3>1. WBITS = 32
      BY Widths, Zenon
    <3> QED
      BY <3>1, SMT DEF Top
  <2> QED
    BY <2>1, <2>2, WordIs, Zenon
<1>2. CASE x # 0
  <2> DEFINE S == BitsOf(x)
  <2>1. S \in SUBSET (0 .. 31) /\ S # {}
    BY <1>2, BitsIn, SomeBit, Zenon
  <2> HIDE DEF S
  <2>2. S \in SUBSET Nat
    BY <2>1, SMT
  <2>3. First(S) \in S /\ \A j \in S : First(S) <= j
    BY <2>1, <2>2, FirstIsLeast, Zenon
  <2>4. Min(S) \in S
    BY <2>3, Zenon DEF Min
  <2>5. Min(S) \in Int /\ 0 <= Min(S) /\ Min(S) <= Top
    <3>1. \A j \in 0 .. 31 : j \in Int /\ 0 <= j /\ j <= Top
      BY SMT DEF Top
    <3> QED
      BY <2>1, <2>4, <3>1, Zenon
  <2>6. Min(S) \in Word
    BY <2>5, WordIs, Zenon
  <2> QED
    BY <1>2, <2>6, Zenon DEF cntlzw, S
<1> QED
  BY <1>1, <1>2, Zenon

\* Shifts.
LEMMA ShiftsAreWords ==
  ASSUME BYTE = 8, NEW x \in Word, NEW n \in 0 .. 32
  PROVE  /\ ShiftLeft(x, n) \in Word /\ ShiftRight(x, n) \in Word
         /\ Low(Signed(x) \div 2 ^ n) \in Word
<1> DEFINE p == 2 ^ n
           y == Signed(x)
<1>1. x \in Int /\ 0 <= x /\ x <= Top /\ y \in Int
  BY WordInt, Zenon
<1>2. p \in Nat /\ p > 0
  BY PowerIs, Zenon
<1> HIDE DEF p, y
<1>3. x * p \in Int /\ y \div p \in Int
  BY <1>1, <1>2, SMT
<1>4. x \div p \in 0 .. x
  BY <1>1, <1>2, Quotient, SMT
<1>5. x \div p \in Int /\ 0 <= x \div p /\ x \div p <= Top
  BY <1>1, <1>4, TopIs, SMT
<1>6. Low(x * p) \in Word /\ Low(y \div p) \in Word /\ x \div p \in Word
  BY <1>3, <1>5, LowIsWord, WordIs, Zenon
<1> QED
  BY <1>6, Zenon DEF ShiftLeft, ShiftRight, p, y

\* The amounts of a shift.
LEMMA CountIs ==
  ASSUME BYTE = 8, NEW x \in Word
  PROVE  /\ x % WBITS \in 0 .. 31
         /\ x % (2 * WBITS) \in 0 .. 63
<1>1. x \in Int
  BY WordIs, Zenon
<1> QED
  BY <1>1, Widths, SMT

\* Every logical instruction makes a word.
LEMMA LogicIs ==
  ASSUME BYTE = 8, NEW i, i.op \in ImmediateLogic \cup RegisterLogic, NEW x \in Word, NEW b \in Word
  PROVE  LogicResult(i, x, b) \in Word
<1> DEFINE r == LogicResult(i, x, b)
<1>0. SUFFICES r \in Word
  OBVIOUS
<1> HIDE DEF r
<1>1. NotW(b) \in Word
  BY NotIsWord, Zenon
<1>2. CASE i.op \in ImmediateLogic
  <2>1. r = Logical(i, x, b)
    BY <1>2, Zenon DEF r, LogicResult, ImmediateLogic
  <2>2. \/ i.op = "ori" \/ i.op = "oris" \/ i.op = "xori" \/ i.op = "xoris"
        \/ i.op = "andi." \/ i.op = "andis."
    BY <1>2, Zenon DEF ImmediateLogic
  <2>3. \E y : r = OrW(x, y) \/ r = XorW(x, y) \/ r = AndW(x, y)
    BY <2>1, <2>2, Zenon DEF Logical
  <2> QED
    BY <2>3, OrIsWord, Zenon
<1>3. CASE i.op \in {"and", "andc", "or", "orc", "xor"}
  <2>1. \E y : r = OrW(x, y) \/ r = XorW(x, y) \/ r = AndW(x, y)
    BY <1>3, Zenon DEF r, LogicResult, ImmediateLogic, and, andc, or, orc, xor
  <2> QED
    BY <2>1, OrIsWord, Zenon
<1>4. CASE i.op \in {"nor", "eqv", "nand"}
  <2>1. r = NotW(OrW(x, b)) \/ r = NotW(XorW(x, b)) \/ r = NotW(AndW(x, b))
    BY <1>4, Zenon DEF r, LogicResult, ImmediateLogic, nor, eqv, nand
  <2>2. OrW(x, b) \in Word /\ XorW(x, b) \in Word /\ AndW(x, b) \in Word
    BY OrIsWord, Zenon
  <2> QED
    BY <2>1, <2>2, NotIsWord, Zenon
<1>5. CASE i.op = "slw"
  <2> DEFINE n == b % (2 * WBITS)
  <2>1. r = IF n >= WBITS THEN 0 ELSE ShiftLeft(x, n)
    BY <1>5, Zenon DEF r, LogicResult, ImmediateLogic, slw
  <2>2. n \in 0 .. 63
    BY CountIs, Zenon
  <2> HIDE DEF n
  <2>3. CASE n >= WBITS
    <3>1. 0 \in Int /\ 0 <= 0 /\ 0 <= Top
      BY TopIs, SMT
    <3> QED
      BY <2>1, <2>3, <3>1, WordIs, Zenon
  <2>4. CASE ~ (n >= WBITS)
    <3>1. n \in 0 .. 32
      BY <2>2, <2>4, Widths, SMT
    <3> QED
      BY <2>1, <2>4, <3>1, ShiftsAreWords, Zenon
  <2> QED
    BY <2>3, <2>4, Zenon
<1>6. CASE i.op = "srw"
  <2> DEFINE n == b % WBITS
  <2>1. r = ShiftRight(x, n)
    BY <1>6, Zenon DEF r, LogicResult, ImmediateLogic, srw
  <2>2. n \in 0 .. 31
    BY CountIs, Zenon
  <2> HIDE DEF n
  <2>3. n \in 0 .. 32
    BY <2>2, SMT
  <2> QED
    BY <2>1, <2>3, ShiftsAreWords, Zenon
<1>7. CASE i.op = "cntlzw"
  <2>1. r = cntlzw(x)
    BY <1>7, Zenon DEF r, LogicResult, ImmediateLogic
  <2> QED
    BY <2>1, LeadingZeros, Zenon
<1> QED
  BY <1>2, <1>3, <1>4, <1>5, <1>6, <1>7, Zenon DEF RegisterLogic

\* What an instruction must leave of the registers.
Ends(g, s, o) ==
  /\ g \in [Regs -> Word]
  /\ SpecialRegisters(s)
  /\ o.vrc => o.ac \in 0 .. 15

\* An instruction that ends with words in its registers and its outcome keeps the invariant.
LEMMA EndsTyped ==
  ASSUME BYTE = 8, CIA \in Int, NEW s, NEW o, Ends(gpr', s, o), Complete(s, o)
  PROVE  RegsInv'
BY CompletesTyped, Zenon DEF Ends, RegsInv

\* The integer instructions.
LEMMA ArithmeticTyped ==
  ASSUME BYTE = 8, RegsInv, NEW i, Decoded(i), Arithmetic(i)
  PROVE  RegsInv'
<1> DEFINE o == ArithmeticOutcome(i)
<1>1. gpr' = [gpr EXCEPT ![i.D] = o.ac] /\ Complete(spr, o) /\ i.op \in ArithmeticOps
  BY Zenon DEF Arithmetic
<1>2. Plain(o) /\ i.D \in Regs
  BY <1>1, ArithmeticIs, Zenon DEF RegsInv
<1> HIDE DEF o
<1>3. Ends(gpr', spr, o)
  BY <1>1, <1>2, RegisterPut, Zenon DEF Ends, RegsInv, Plain
<1> QED
  BY <1>1, <1>3, EndsTyped, Zenon DEF RegsInv

\* Division.
LEMMA DivideTyped ==
  ASSUME BYTE = 8, RegsInv, NEW i, Decoded(i), NEW junk \in Junk, Divide(i, junk)
  PROVE  RegsInv'
<1> DEFINE a == gpr[i.A]
           b == gpr[i.B]
<1>1. i.D \in Regs /\ i.A \in Regs /\ i.B \in Regs
  BY Zenon DEF Divide, Decoded, RegisterOps
<1>2. a \in Word /\ b \in Word
  BY <1>1, Zenon DEF RegsInv
<1>3. a \in Int /\ 0 <= a /\ a <= Top /\ b \in Int /\ 0 <= b
  BY <1>2, WordIs, Zenon
<1> HIDE DEF a, b
<1>4. CASE CannotDivide(i, a, b)
  <2> DEFINE o == Overflowing(Outcome(i, junk))
  <2>1. gpr' = gpr /\ Complete(spr, o)
    BY <1>4, Zenon DEF Divide, a, b
  <2>2. o.vrc = FALSE
    BY Zenon DEF Overflowing, Outcome
  <2> HIDE DEF o
  <2>3. Ends(gpr', spr, o)
    BY <2>1, <2>2, Zenon DEF Ends, RegsInv
  <2> QED
    BY <2>1, <2>3, EndsTyped, Zenon DEF RegsInv
<1>5. CASE ~ CannotDivide(i, a, b)
  <2> DEFINE q == a \div b
             o == Outcome(i, q)
  <2>1. gpr' = [gpr EXCEPT ![i.D] = q] /\ Complete(spr, o)
    BY <1>5, Zenon DEF Divide, a, b
  <2>2. b # 0
    BY <1>5, Zenon DEF CannotDivide
  <2>3. a \in Nat /\ b \in Nat /\ b > 0
    BY <1>3, <2>2, SMT
  <2>4. a \div b \in 0 .. a
    BY <2>3, Quotient, Zenon
  <2>5. q \in Int /\ 0 <= q /\ q <= Top
    BY <1>3, <2>4, TopIs, SMT
  <2>6. o.vrc = FALSE
    BY OutcomeIs, Zenon
  <2> HIDE DEF o, q
  <2>7. q \in Word
    BY <2>5, WordIs, Zenon
  <2>8. Ends(gpr', spr, o)
    BY <1>1, <2>1, <2>6, <2>7, RegisterPut, Zenon DEF Ends, RegsInv
  <2> QED
    BY <2>1, <2>8, EndsTyped, Zenon DEF RegsInv
<1> QED
  BY <1>4, <1>5, Zenon

\* A result in a register, and an outcome that leaves CR6 alone.
LEMMA ResultTyped ==
  ASSUME BYTE = 8, RegsInv, NEW d \in Regs, NEW r \in Word, gpr' = [gpr EXCEPT ![d] = r],
         NEW o, o.vrc = FALSE, Complete(spr, o)
  PROVE  RegsInv'
<1>1. Ends(gpr', spr, o)
  BY RegisterPut, Zenon DEF Ends, RegsInv
<1> QED
  BY <1>1, EndsTyped, Zenon DEF RegsInv

\* Logic.
LEMMA LogicTyped ==
  ASSUME BYTE = 8, RegsInv, NEW i, Decoded(i), Logic(i)
  PROVE  RegsInv'
<1> DEFINE r == LogicResult(i, gpr[i.D], gpr[i.B])
           o == [Outcome(i, r) EXCEPT !.rc = i.RC \/ i.op \in {"andi.", "andis."}]
<1>1. i.op \in ImmediateLogic \cup RegisterLogic /\ gpr' = [gpr EXCEPT ![i.A] = r] /\ Complete(spr, o)
  BY Zenon DEF Logic
<1>2. i.D \in Regs /\ i.A \in Regs /\ i.B \in Regs
  BY <1>1, Zenon DEF Decoded, RegisterOps
<1>3. gpr[i.D] \in Word /\ gpr[i.B] \in Word
  BY <1>2, Zenon DEF RegsInv
<1>4. r \in Word
  BY <1>1, <1>3, LogicIs, Zenon
<1>5. o.vrc = FALSE
  BY Zenon DEF Outcome
<1> HIDE DEF r, o
<1> QED
  BY <1>1, <1>2, <1>4, <1>5, ResultTyped, Zenon

\* Extension of the sign.
LEMMA ExtendTyped ==
  ASSUME BYTE = 8, RegsInv, NEW i, Decoded(i), Extend(i)
  PROVE  RegsInv'
<1> DEFINE x == gpr[i.D]
           r == IF i.op = "extsh" THEN EXTS(x % 2 ^ (2 * BYTE)) ELSE ExtByte(x % 2 ^ BYTE)
           o == [Outcome(i, x) EXCEPT !.oe = FALSE]
<1>1. i.op \in {"extsh", "extsb"} /\ gpr' = [gpr EXCEPT ![i.A] = r] /\ Complete(spr, o)
  BY Zenon DEF Extend
<1>2. i.D \in Regs /\ i.A \in Regs
  BY <1>1, Zenon DEF Decoded, RegisterOps
<1>3. x \in Int
  BY <1>2, WordIs, Zenon DEF RegsInv
<1>4. o.vrc = FALSE
  BY Zenon DEF Outcome
<1>5. r = IF i.op = "extsh" THEN EXTS(x % Lower) ELSE ExtByte(x % Lowest)
  BY Parts, Zenon
<1> HIDE DEF r, o, x
<1>6. x % Lower \in Int /\ 0 <= x % Lower /\ x % Lower < Lower
  BY <1>3, SMT DEF Lower
<1>7. x % Lowest \in Int /\ 0 <= x % Lowest /\ x % Lowest <= 255
  BY <1>3, SMT DEF Lowest
<1>8. x % Lower \in Half /\ x % Lowest \in Byte
  BY <1>6, <1>7, HalfIs, ByteIs, Zenon
<1>9. r \in Word
  BY <1>5, <1>8, ExtendedIsWord, ExtByteIsWord, Zenon
<1> QED
  BY <1>1, <1>2, <1>4, <1>9, ResultTyped, Zenon

\* Algebraic shifts.
LEMMA ShiftTyped ==
  ASSUME BYTE = 8, RegsInv, NEW i, Decoded(i), ShiftRightAlgebraic(i)
  PROVE  RegsInv'
<1> DEFINE count == IF i.op = "sraw" THEN gpr[i.B] % (2 * WBITS) ELSE i.B
           n == IF count < WBITS THEN count ELSE WBITS
           x == gpr[i.D]
           r == Low(Signed(x) \div 2 ^ n)
           o == [Outcome(i, r) EXCEPT
                  !.oe = TRUE, !.setCA = TRUE,
                  !.ca = IF Signed(x) < 0 /\ Signed(x) % 2 ^ n # 0 THEN 1 ELSE 0]
<1>1. i.op \in {"sraw", "srawi"} /\ gpr' = [gpr EXCEPT ![i.A] = r] /\ Complete(spr, o)
  BY Zenon DEF ShiftRightAlgebraic
<1>2. i.D \in Regs /\ i.A \in Regs /\ (i.op = "sraw" => i.B \in Regs)
  BY <1>1, Zenon DEF Decoded, RegisterOps, ImmediateShifts
<1>3. x \in Word
  BY <1>2, Zenon DEF RegsInv
<1>4. count \in 0 .. 63
  <2>1. CASE i.op = "sraw"
    <3>1. gpr[i.B] \in Word
      BY <1>2, <2>1, Zenon DEF RegsInv
    <3> QED
      BY <2>1, <3>1, CountIs, Zenon
  <2>2. CASE i.op = "srawi"
    <3>1. count = i.B /\ i.B \in 0 .. WBITS - 1
      BY <2>2, Zenon DEF Decoded, ImmediateShifts
    <3>2. i.B \in 0 .. 31
      BY <3>1, Widths, Zenon
    <3>3. i.B \in 0 .. 63
      BY <3>2, SMT
    <3> QED
      BY <3>1, <3>3, Zenon
  <2> QED
    BY <1>1, <2>1, <2>2, Zenon
<1>5. o.vrc = FALSE
  BY Zenon DEF Outcome
<1> HIDE DEF count, o
<1>6. n \in 0 .. 32
  BY <1>4, Widths, SMT
<1> HIDE DEF n, x
<1>7. r \in Word
  BY <1>3, <1>6, ShiftsAreWords, Zenon
<1> HIDE DEF r
<1> QED
  BY <1>1, <1>2, <1>5, <1>7, ResultTyped, Zenon

\* Rotations.
LEMMA RotateTyped ==
  ASSUME BYTE = 8, RegsInv, NEW i, Decoded(i), NEW junk, Rotate(i, junk)
  PROVE  RegsInv'
<1> DEFINE o == RotateOutcome(i, junk)
           m == Mask(i.MB, i.ME)
<1>1. i.op \in {"rlwimi", "rlwinm", "rlwnm"} /\ gpr' = [gpr EXCEPT ![i.A] = o.ac] /\ Complete(spr, o)
  BY Zenon DEF Rotate
<1>2. i.A \in Regs
  BY <1>1, Zenon DEF Decoded, RegisterOps, ImmediateShifts
<1>3. \E x, y : o = Outcome(i, AndW(x, m)) \/ o = Outcome(i, OrW(AndW(x, m), y))
  BY Zenon DEF RotateOutcome
<1> HIDE DEF o, m
<1>4. PICK x, y : o = Outcome(i, AndW(x, m)) \/ o = Outcome(i, OrW(AndW(x, m), y))
  BY <1>3, Zenon
<1>5. AndW(x, m) \in Word /\ OrW(AndW(x, m), y) \in Word
  BY OrIsWord, Zenon
<1>6. Plain(o)
  BY <1>4, <1>5, OutcomePlain, Zenon
<1> QED
  BY <1>1, <1>2, <1>6, ResultTyped, Zenon DEF Plain

\* The special registers alone change.
LEMMA SpecialTyped ==
  ASSUME BYTE = 8, RegsInv, gpr' = gpr, NEW s, SpecialRegisters(s),
         NEW o, o.vrc = FALSE, Complete(s, o)
  PROVE  RegsInv'
<1>1. Ends(gpr', s, o)
  BY Zenon DEF Ends, RegsInv
<1> QED
  BY <1>1, EndsTyped, Zenon DEF RegsInv

\* Comparisons.
LEMMA CompareTyped ==
  ASSUME BYTE = 8, RegsInv, NEW i, Decoded(i), Compare(i)
  PROVE  RegsInv'
<1>1. i.op \in FieldCompares /\ gpr' = gpr
  BY Zenon DEF Compare, FieldCompares
<1>2. i.D \in Fields
  BY <1>1, Zenon DEF Decoded
<1>3. \E x, y : LET c == Compared(x, y, spr) IN Complete(CR_put(spr, i.D, c), Outcome(i, c))
  <2>1. \/ i.op = "cmpli" \/ i.op = "cmpi" \/ i.op = "cmpl" \/ i.op = "cmp"
    BY Zenon DEF Compare
  <2> QED
    BY <2>1, Zenon DEF Compare
<1>4. PICK x, y : LET c == Compared(x, y, spr) IN Complete(CR_put(spr, i.D, c), Outcome(i, c))
  BY <1>3, Zenon
<1> DEFINE c == Compared(x, y, spr)
<1>5. c \in 0 .. 15 /\ Complete(CR_put(spr, i.D, c), Outcome(i, c))
  BY <1>4, FieldValues, Zenon
<1> HIDE DEF c
<1>6. SpecialRegisters(CR_put(spr, i.D, c)) /\ Outcome(i, c).vrc = FALSE
  BY <1>2, <1>5, FieldTyped, OutcomeIs, Zenon DEF RegsInv
<1> QED
  BY <1>1, <1>5, <1>6, SpecialTyped, Zenon

\* An exception.
LEMMA FailTyped ==
  ASSUME RegsInv, gpr' = gpr, NEW e, Fail(e)
  PROVE  RegsInv'
BY Zenon DEF RegsInv, Fail

\* Moves between special registers.
LEMMA MovesTyped ==
  ASSUME BYTE = 8, RegsInv, NEW i, Decoded(i), MoveToCR(i) \/ MoveXERToCR(i) \/ MoveFrom(i) \/ MoveTo(i)
  PROVE  RegsInv'
<1>0. SpecialRegisters(spr) /\ "CR" \in SPRs /\ "XER" \in SPRs
  BY Zenon DEF RegsInv, SPRs
<1>1. CASE MoveToCR(i)
  <2> DEFINE m == UNION {FieldBits(f) : f \in i.FXM}
             w == (BitsOf(spr["CR"]) \ m) \cup (BitsOf(gpr[i.D]) \cap m)
             o == [Outcome(i, 0) EXCEPT !.oe = FALSE]
  <2>1. Complete([spr EXCEPT !["CR"] = FromBits(w)], o) /\ gpr' = gpr
    BY <1>1, Zenon DEF MoveToCR
  <2>2. o.vrc = FALSE
    BY Zenon DEF Outcome
  <2>3. w \in SUBSET (0 .. 31)
    BY BitsIn, Zenon
  <2> HIDE DEF w, o
  <2>4. FromBits(w) \in Word
    BY <2>3, BitsFacts, Zenon
  <2>5. SpecialRegisters([spr EXCEPT !["CR"] = FromBits(w)])
    BY <1>0, <2>4, PutTyped, Zenon
  <2> QED
    BY <2>1, <2>2, <2>5, SpecialTyped, Zenon
<1>2. CASE MoveXERToCR(i)
  <2> DEFINE x == spr["XER"]
             v == x \div 2 ^ (WBITS - 4)
             o == [Outcome(i, 0) EXCEPT !.oe = FALSE]
             s == CR_put(spr, i.D, v)
  <2>1. Complete([s EXCEPT !["XER"] = 0], o) /\ gpr' = gpr /\ i.op = "mcrxr"
    BY <1>2, Zenon DEF MoveXERToCR
  <2>2. o.vrc = FALSE
    BY Zenon DEF Outcome
  <2>3. i.D \in Fields
    BY <2>1, Zenon DEF Decoded, FieldCompares
  <2>4. x \in Word
    BY Zenon DEF RegsInv, SpecialRegisters, SPRs
  <2>5. x \in Int /\ 0 <= x /\ x <= Top
    BY <2>4, WordIs, Zenon
  <2>6. x \div 268435456 \in 0 .. 15
    <3> HIDE DEF x
    <3> QED
      BY <2>5, SMT DEF Top
  <2>7. WBITS - 4 = 28 /\ 2 ^ 28 = 268435456
    BY SMT DEF WBITS
  <2>8. v \in 0 .. 15
    BY <2>6, <2>7, SMT
  <2> HIDE DEF v, o
  <2>9. SpecialRegisters(s)
    BY <1>0, <2>3, <2>8, FieldTyped, Zenon
  <2>10. 0 \in Word
    BY TopIs, Widths, SMT
  <2> HIDE DEF s
  <2>11. SpecialRegisters([s EXCEPT !["XER"] = 0])
    BY <1>0, <2>9, <2>10, PutTyped, Zenon
  <2> QED
    BY <2>1, <2>2, <2>11, SpecialTyped, Zenon
<1>3. CASE MoveFrom(i)
  <2>1. gpr' = [gpr EXCEPT ![i.D] = spr[i.SPR]] /\ Complete(spr, Outcome(i, 0))
    BY <1>3, Zenon DEF MoveFrom
  <2>2. i.D \in Regs /\ i.SPR \in SPRs \ {"VSCR"}
    BY <1>3, Zenon DEF MoveFrom, Decoded, RegisterOps
  <2>3. spr[i.SPR] \in Word
    BY <1>0, <2>2, Zenon DEF SpecialRegisters
  <2> DEFINE o == Outcome(i, 0)
  <2>4. o.vrc = FALSE
    BY OutcomeIs, Zenon
  <2>5. gpr' = [gpr EXCEPT ![i.D] = spr[i.SPR]] /\ Complete(spr, o)
    BY <2>1, Zenon
  <2> HIDE DEF o
  <2> QED
    BY <2>2, <2>3, <2>4, <2>5, ResultTyped, Zenon
<1>4. CASE MoveTo(i)
  <2>1. Complete([spr EXCEPT ![i.SPR] = gpr[i.D]], Outcome(i, 0)) /\ gpr' = gpr
    BY <1>4, Zenon DEF MoveTo
  <2>2. i.D \in Regs /\ i.SPR \in SPRs
    BY <1>4, Zenon DEF MoveTo, Decoded, RegisterOps
  <2>3. gpr[i.D] \in Word
    BY <2>2, Zenon DEF RegsInv
  <2>4. SpecialRegisters([spr EXCEPT ![i.SPR] = gpr[i.D]])
    BY <1>0, <2>2, <2>3, PutTyped, Zenon
  <2> DEFINE o == Outcome(i, 0)
  <2>5. o.vrc = FALSE
    BY OutcomeIs, Zenon
  <2>6. Complete([spr EXCEPT ![i.SPR] = gpr[i.D]], o)
    BY <2>1, Zenon
  <2> HIDE DEF o
  <2> QED
    BY <2>1, <2>4, <2>5, <2>6, SpecialTyped, Zenon
<1> QED
  BY <1>1, <1>2, <1>3, <1>4, Zenon

\* All integer instructions.
LEMMA IntegerTyped ==
  ASSUME BYTE = 8, WordsInv, NEW i, Decoded(i), NEW junk \in Junk, Integer(i, junk)
  PROVE  WordsInv'
<1>0. RegsInv /\ (MemTyped => MemTyped')
  BY Zenon DEF WordsInv, Integer, MemTyped
<1>1. CASE Trap(i)
  <2>1. \/ Fail(PROGRAM) /\ gpr' = gpr
        \/ Complete(spr, Outcome(i, EXTS(i.SIMM))) /\ gpr' = gpr
    BY <1>1, Zenon DEF Trap
  <2>2. SpecialRegisters(spr) /\ Outcome(i, EXTS(i.SIMM)).vrc = FALSE
    BY <1>0, OutcomeIs, Zenon DEF RegsInv
  <2> QED
    BY <1>0, <2>1, <2>2, FailTyped, SpecialTyped, Zenon DEF WordsInv
<1>2. CASE CacheOp(i)
  <2> DEFINE o == [Outcome(i, 0) EXCEPT !.oe = FALSE]
  <2>1. Complete(spr, o) /\ gpr' = gpr
    BY <1>2, Zenon DEF CacheOp
  <2>2. SpecialRegisters(spr) /\ o.vrc = FALSE
    BY <1>0, Zenon DEF RegsInv, Outcome
  <2> HIDE DEF o
  <2> QED
    BY <1>0, <2>1, <2>2, SpecialTyped, Zenon DEF WordsInv
<1>3. \/ Arithmetic(i) \/ Divide(i, junk) \/ Logic(i) \/ Extend(i) \/ ShiftRightAlgebraic(i)
      \/ Rotate(i, junk) \/ Compare(i) \/ Trap(i) \/ CacheOp(i)
      \/ (MoveToCR(i) \/ MoveXERToCR(i) \/ MoveFrom(i) \/ MoveTo(i))
  BY Zenon DEF Integer
<1> QED
  BY <1>0, <1>1, <1>2, <1>3, ArithmeticTyped, DivideTyped, LogicTyped, ExtendTyped, ShiftTyped,
     RotateTyped, CompareTyped, MovesTyped, Zenon DEF WordsInv

\* A branch: the special registers change, and CIA may go anywhere.
LEMMA JumpTyped ==
  ASSUME BYTE = 8, RegsInv, gpr' = gpr, NEW s, SpecialRegisters(s),
         NEW o, o.vrc = FALSE, NEW nia \in Int, CompleteTo(s, o, nia)
  PROVE  RegsInv'
<1>1. SpecialRegisters(Updated(s, o))
  BY UpdatedTyped, Zenon
<1> QED
  BY <1>1, Zenon DEF RegsInv, CompleteTo

\* Linking and counting keep words in LR and CTR.
LEMMA LinkedTyped ==
  ASSUME BYTE = 8, CIA \in Int, NEW s, SpecialRegisters(s), NEW BO
  PROVE  SpecialRegisters(Linked(s)) /\ SpecialRegisters(Counted(s, BO))
<1>1. "LR" \in SPRs /\ "CTR" \in SPRs \ {"VSCR"}
  BY Zenon DEF SPRs
<1>2. SpecialRegisters(Linked(s))
  BY <1>1, NIAIs, PutTyped, Zenon DEF Linked
<1> DEFINE c == s["CTR"]
           l == Low(c - 1)
<1>3. c \in Int
  BY <1>1, WordIs, Zenon DEF SpecialRegisters
<1>4. c - 1 \in Int
  <2> HIDE DEF c
  <2> QED
    BY <1>3, SMT
<1>5. l \in Word
  BY <1>4, LowIsWord, Zenon
<1> HIDE DEF c
<1>6. Counted(s, BO) = s \/ Counted(s, BO) = [s EXCEPT !["CTR"] = l]
  BY Zenon DEF Counted, c
<1> HIDE DEF l
<1>7. SpecialRegisters([s EXCEPT !["CTR"] = l])
  BY <1>1, <1>5, PutTyped, Zenon
<1> QED
  BY <1>2, <1>6, <1>7, Zenon

\* Where a branch goes.
LEMMA TargetIs ==
  ASSUME BYTE = 8, CIA \in Int, NEW i, i.LI \in Nat
  PROVE  /\ Low((IF i.AA THEN 0 ELSE CIA) + EXTS(i.LI)) \in Int
         /\ Low((IF i.AA THEN 0 ELSE CIA) + ExtLI(i.LI)) \in Int
<1> DEFINE from == IF i.AA THEN 0 ELSE CIA
           e == EXTS(i.LI)
           l == ExtLI(i.LI)
<1>1. from \in Int
  BY SMT
<1>2. e \in Int
  <2>1. e \in Word \/ e = i.LI
    BY OrIsWord, Zenon DEF EXTS
  <2> HIDE DEF e
  <2>2. CASE e \in Word
    BY <2>2, WordIs, Zenon
  <2>3. CASE e = i.LI
    BY <2>3, SMT
  <2> QED
    BY <2>1, <2>2, <2>3, Zenon
<1>3. l \in Int
  <2>1. LIBITS = 30 /\ 2 ^ 30 \in Int
    BY SMT DEF LIBITS, WBITS
  <2>2. 2 ^ LIBITS \in Int
    BY <2>1, Zenon
  <2> DEFINE p == 2 ^ LIBITS
             q == 2 ^ WBITS
             li == i.LI
  <2>3. q \in Int
    BY Widths, TopIs, SMT
  <2>4. l = li + q - p \/ l = li
    BY Zenon DEF ExtLI
  <2>5. li \in Int
    BY SMT
  <2>6. p \in Int
    BY <2>2, Zenon
  <2> HIDE DEF l, p, q, li
  <2> QED
    BY <2>3, <2>4, <2>5, <2>6, SMT
<1> HIDE DEF from, e, l
<1>4. from + e \in Int /\ from + l \in Int
  BY <1>1, <1>2, <1>3, SMT
<1>5. Low(from + e) \in Int /\ Low(from + l) \in Int
  BY <1>4, LowIsWord, WordIs, Zenon
<1> QED
  BY <1>5, Zenon DEF from, e, l

\* Each way to jump.
LEMMA JumpsTyped ==
  ASSUME BYTE = 8, RegsInv, gpr' = gpr, NEW i, Decoded(i), NEW junk,
         BranchConditional(i) \/ Branch(i) \/ BranchToRegister(i, junk) \/ ReturnFromInterrupt(i)
  PROVE  RegsInv'
<1>1. /\ CIA \in Int /\ SpecialRegisters(spr) /\ NIA \in Int /\ i.LI \in Nat
      /\ Outcome(i, 0).vrc = FALSE
  BY NIAIs, OutcomeIs, Zenon DEF RegsInv, Decoded
<1> DEFINE plain == Outcome(i, 0)
<1>2. plain.vrc = FALSE
  BY OutcomeIs, Zenon
<1>3. CASE BranchConditional(i)
  <2> DEFINE s0 == IF i.LK THEN Linked(spr) ELSE spr
             s == Counted(s0, i.BO)
             target == Low((IF i.AA THEN 0 ELSE CIA) + EXTS(i.LI))
             nia == IF CtrOk(s, i.BO) /\ CondOk(s, i.BO, i.BI) THEN target ELSE NIA
  <2>1. CompleteTo(s, plain, nia)
    BY <1>3, Zenon DEF BranchConditional
  <2>2. target \in Int
    BY <1>1, TargetIs, Zenon
  <2>3. SpecialRegisters(s0)
    BY <1>1, LinkedTyped, Zenon
  <2> HIDE DEF s0, plain, target
  <2>4. SpecialRegisters(s)
    BY <1>1, <2>3, LinkedTyped, Zenon
  <2> HIDE DEF s
  <2>5. nia \in Int
    BY <1>1, <2>2, Zenon
  <2> HIDE DEF nia
  <2> QED
    BY <1>2, <2>1, <2>4, <2>5, JumpTyped, Zenon
<1>4. CASE Branch(i)
  <2> DEFINE s == IF i.LK THEN Linked(spr) ELSE spr
             nia == Low((IF i.AA THEN 0 ELSE CIA) + ExtLI(i.LI))
  <2>1. CompleteTo(s, plain, nia)
    BY <1>4, Zenon DEF Branch
  <2>2. nia \in Int
    BY <1>1, TargetIs, Zenon
  <2>3. SpecialRegisters(s)
    BY <1>1, LinkedTyped, Zenon
  <2> HIDE DEF s, plain, nia
  <2> QED
    BY <1>2, <2>1, <2>2, <2>3, JumpTyped, Zenon
<1>5. CASE BranchToRegister(i, junk)
  <2> DEFINE s == IF Always(i.BO) THEN spr ELSE Counted(spr, i.BO)
             taken == Always(i.BO) \/ CondOk(s, i.BO, i.BI)
             target == s[IF i.op = "bcctr" THEN "CTR" ELSE "LR"]
             t == IF taken /\ i.LK THEN Linked(s) ELSE s
             nia == IF taken THEN target ELSE NIA
             o == [Outcome(i, IF Always(i.BO) THEN junk ELSE s["CR"]) EXCEPT
                     !.rc = i.LK, !.oe = (i.op = "bcctr")]
  <2>1. CompleteTo(t, o, nia)
    BY <1>5, Zenon DEF BranchToRegister
  <2>2. o.vrc = FALSE
    BY Zenon DEF Outcome
  <2>3. SpecialRegisters(s)
    BY <1>1, LinkedTyped, Zenon
  <2> HIDE DEF s, o
  <2>4. target \in Int
    <3>1. target \in Word
      BY <2>3, Zenon DEF SpecialRegisters, SPRs
    <3> QED
      BY <3>1, WordIs, Zenon
  <2> HIDE DEF target, taken
  <2>5. SpecialRegisters(t)
    BY <1>1, <2>3, LinkedTyped, Zenon
  <2>6. nia \in Int
    BY <1>1, <2>4, Zenon
  <2> HIDE DEF t, nia
  <2> QED
    BY <2>1, <2>2, <2>5, <2>6, JumpTyped, Zenon
<1>6. CASE ReturnFromInterrupt(i)
  <2> DEFINE m == AndW(spr["SRR1"], FromBits(RfiBits))
             s == [spr EXCEPT !["MSR"] = m]
             nia == 4 * (spr["SRR0"] \div 4)
  <2>1. CompleteTo(s, plain, nia)
    BY <1>6, Zenon DEF ReturnFromInterrupt
  <2>2. m \in Word
    BY OrIsWord, Zenon
  <2> HIDE DEF m
  <2>3. SpecialRegisters(s)
    BY <1>1, <2>2, PutTyped, Zenon DEF SPRs
  <2> HIDE DEF s, plain
  <2>4. nia \in Int
    <3> DEFINE x == spr["SRR0"]
    <3>1. x \in Word
      BY <1>1, Zenon DEF SpecialRegisters, SPRs
    <3>2. x \in Int
      BY <3>1, WordIs, Zenon
    <3> HIDE DEF x
    <3>3. 4 * (x \div 4) \in Int
      BY <3>2, SMT
    <3> QED
      BY <3>3, Zenon DEF x
  <2> HIDE DEF nia
  <2> QED
    BY <1>2, <2>1, <2>3, <2>4, JumpTyped, Zenon
<1> QED
  BY <1>3, <1>4, <1>5, <1>6, Zenon

\* All branches.
LEMMA BranchesTyped ==
  ASSUME BYTE = 8, WordsInv, NEW i, Decoded(i), NEW junk, Branches(i, junk)
  PROVE  WordsInv'
<1>0. RegsInv /\ gpr' = gpr /\ mem' = mem /\ MemTyped /\ SpecialRegisters(spr)
  BY Zenon DEF WordsInv, RegsInv, Branches
<1> DEFINE plain == Outcome(i, 0)
<1>1. plain.vrc = FALSE
  BY OutcomeIs, Zenon
<1> HIDE DEF plain
<1>2. CASE MoveCRField(i)
  <2> DEFINE c == spr["CR"]
             v == CR_get(spr, i.A)
             s == CR_put(spr, i.D, v)
             e == 4 * (CRFields - 1 - i.A)
             p == 2 ^ e
  <2>1. Complete(s, plain) /\ i.op = "mcrf"
    BY <1>2, Zenon DEF MoveCRField, plain
  <2>2. i.D \in Fields /\ i.A \in Fields
    BY <2>1, Zenon DEF Decoded
  <2>3. v \in 0 .. 15
    <3>1. c \in Word
      BY <1>0, Zenon DEF SpecialRegisters, SPRs
    <3>2. c \in Int
      BY <3>1, WordIs, Zenon
    <3>3. e \in 0 .. 32
      <4>1. CRFields = 8 /\ i.A \in 0 .. 7
        BY <2>2, Widths, Zenon
      <4> QED
        BY <4>1, SMT
    <3>4. v = (c \div p) % 16
      BY Zenon DEF CR_get
    <3> HIDE DEF c, e, v
    <3>5. p \in Nat /\ p > 0
      BY <3>3, PowerIs, Zenon
    <3> HIDE DEF p
    <3>6. c \div p \in Int
      BY <3>2, <3>5, SMT
    <3> QED
      BY <3>4, <3>6, SMT
  <2> HIDE DEF v
  <2>4. SpecialRegisters(s)
    BY <1>0, <2>2, <2>3, FieldTyped, Zenon
  <2> HIDE DEF s
  <2> QED
    BY <1>0, <1>1, <2>1, <2>4, SpecialTyped, Zenon DEF WordsInv, MemTyped
<1>3. CASE CRLogic(i)
  <2> DEFINE s == CR_ops(spr, i.op, i.A, i.B, i.D)
             b == BitsOf(spr["CR"])
  <2>1. Complete(s, plain) /\ i.op \in CROps
    BY <1>3, Zenon DEF CRLogic, plain
  <2>2. i.D \in 0 .. 31
    BY <2>1, Widths, Zenon DEF Decoded
  <2>3. b \cup {i.D} \in SUBSET (0 .. 31) /\ b \ {i.D} \in SUBSET (0 .. 31)
    BY <2>2, BitsIn, Zenon
  <2>4. FromBits(b \cup {i.D}) \in Word /\ FromBits(b \ {i.D}) \in Word
    BY <2>3, BitsFacts, Zenon
  <2>5. \E w \in Word : s = [spr EXCEPT !["CR"] = w]
    BY <2>4, Zenon DEF CR_ops
  <2> HIDE DEF s
  <2>6. PICK w \in Word : s = [spr EXCEPT !["CR"] = w]
    BY <2>5, Zenon
  <2>7. "CR" \in SPRs
    BY Zenon DEF SPRs
  <2>8. SpecialRegisters([spr EXCEPT !["CR"] = w])
    BY <1>0, <2>7, PutTyped, Zenon
  <2>9. SpecialRegisters(s)
    BY <2>6, <2>8, Zenon
  <2> QED
    BY <1>0, <1>1, <2>1, <2>9, SpecialTyped, Zenon DEF WordsInv, MemTyped
<1>4. CASE SystemCall(i) \/ Synchronize(i)
  <2>1. Fail(SYSCALL) \/ Complete(spr, plain)
    BY <1>4, Zenon DEF SystemCall, Synchronize, plain
  <2> QED
    BY <1>0, <1>1, <2>1, FailTyped, SpecialTyped, Zenon DEF WordsInv, MemTyped
<1>5. CASE BranchConditional(i) \/ Branch(i) \/ BranchToRegister(i, junk) \/ ReturnFromInterrupt(i)
  BY <1>0, <1>5, JumpsTyped, Zenon DEF WordsInv, MemTyped
<1> QED
  BY <1>2, <1>3, <1>4, <1>5, Zenon DEF Branches

\* The vector unit: CR6 holds what a comparison answers, or is left alone.
LEMMA VectorsTyped ==
  ASSUME BYTE = 8, WordsInv, NEW i, NEW junk, Vectors(i, junk)
  PROVE  WordsInv'
<1>0. /\ RegsInv /\ gpr' = gpr /\ mem' = mem /\ MemTyped /\ SpecialRegisters(spr)
      /\ CIA \in Int
  BY Zenon DEF WordsInv, RegsInv, Vectors
<1>1. SUFFICES RegsInv'
  BY <1>0, Zenon DEF WordsInv, MemTyped
<1>2. CASE Fail(NO_AV)
  BY <1>0, <1>2, FailTyped, Zenon
<1>3. CASE VectorLanes(i, junk)
  <2> DEFINE v == Lanes(i, junk)
             a == AllOrNone(v)
             o == IF i.op \in Comparisons
                    THEN [Outcome(i, a) EXCEPT !.vrc = i.RC, !.rc = FALSE]
                    ELSE Outcome(i, 0)
  <2>1. Complete(spr, o)
    BY <1>3, Zenon DEF VectorLanes
  <2> HIDE DEF v
  <2>2. a \in 0 .. 15
    BY SMT DEF AllOrNone
  <2> HIDE DEF a
  <2>3. o.vrc => o.ac \in 0 .. 15
    BY <2>2, Zenon DEF Outcome
  <2> HIDE DEF o
  <2>4. Ends(gpr', spr, o)
    BY <1>0, <2>3, Zenon DEF Ends, RegsInv
  <2> QED
    BY <1>0, <2>1, <2>4, EndsTyped, Zenon
<1>4. CASE VectorSaturating(i, junk)
  <2> DEFINE o == [Outcome(i, 0) EXCEPT
                     !.sat = Saturated(i, vr[i.A], vr[i.B], vr[i.C], junk).sat]
  <2>1. Complete(spr, o)
    BY <1>4, Zenon DEF VectorSaturating
  <2>2. o.vrc = FALSE
    BY Zenon DEF Outcome
  <2> HIDE DEF o
  <2> QED
    BY <1>0, <2>1, <2>2, SpecialTyped, Zenon
<1>5. CASE MoveVSCR(i)
  <2> DEFINE plain == Outcome(i, 0)
             t == [spr EXCEPT !["VSCR"] = Wd(vr[i.B], NB \div 4 - 1)]
  <2>1. Complete(spr, plain) \/ Complete(t, plain)
    BY <1>5, Zenon DEF MoveVSCR
  <2>2. plain.vrc = FALSE
    BY OutcomeIs, Zenon
  <2>3. SpecialRegisters(t)
    BY <1>0, PutTyped, Zenon DEF SPRs
  <2> HIDE DEF plain, t
  <2> QED
    BY <1>0, <2>1, <2>2, <2>3, SpecialTyped, Zenon
<1> QED
  BY <1>2, <1>3, <1>4, <1>5, Zenon DEF Vectors

\* A byte and a half are words.
LEMMA SmallIsWord ==
  ASSUME BYTE = 8
  PROVE  Byte \subseteq Word /\ Half \subseteq Word /\ Junk \subseteq Word
<1>1. ASSUME NEW x \in Byte PROVE x \in Word
  <2>1. x \in Int /\ 0 <= x /\ x <= 255
    BY <1>1, ByteIs, Zenon
  <2>2. x <= Top
    BY <2>1, SMT DEF Top
  <2> QED
    BY <2>1, <2>2, WordIs, Zenon
<1>2. Junk \subseteq Word
  BY ProcessorAssumption, Zenon
<1> QED
  BY <1>1, <1>2, HalfIsWord, Zenon

\* An address is a word.
LEMMA AddressIs ==
  ASSUME BYTE = 8, RegsInv, NEW i, Decoded(i), i.op \in RegisterOps
  PROVE  EA(i) \in Word /\ EA(i) \in Nat
<1>1. i.A \in Regs /\ i.B \in Regs /\ i.SIMM \in Half
  BY Zenon DEF Decoded
<1>2. gpr[i.A] \in Word /\ gpr[i.B] \in Word /\ EXTS(i.SIMM) \in Word
  BY <1>1, ExtendedIsWord, Zenon DEF RegsInv
<1> DEFINE a == gpr[i.A]
           b == gpr[i.B]
           base == Base(i)
           e == EXTS(i.SIMM)
<1>3. a \in Int /\ b \in Int /\ e \in Int
  BY <1>2, WordIs, Zenon
<1>4. base \in Int
  <2>1. base = 0 \/ base = a
    BY Zenon DEF Base
  <2> HIDE DEF base, a
  <2> QED
    BY <1>3, <2>1, SMT
<1>5. EA(i) = Low(base + b) \/ EA(i) = Low(a + e) \/ EA(i) = Low(base + e)
  BY Zenon DEF EA
<1> HIDE DEF a, b, base, e
<1>6. base + b \in Int /\ a + e \in Int /\ base + e \in Int
  BY <1>3, <1>4, SMT
<1>7. EA(i) \in Word
  BY <1>5, <1>6, LowIsWord, Zenon
<1>8. EA(i) \in Int /\ 0 <= EA(i)
  BY <1>7, WordIs, Zenon
<1> QED
  BY <1>7, <1>8, SMT

\* An address that is written back is one.
LEMMA WriteBackTyped ==
  ASSUME BYTE = 8, NEW i, EA(i) \in Word, i.A \in Regs, NEW g, g \in [Regs -> Word]
  PROVE  WriteBack(i, g) \in [Regs -> Word]
BY RegisterPut, Zenon DEF WriteBack

\* What a load brings is a word.
LEMMA LoadedIs ==
  ASSUME BYTE = 8, MemTyped, NEW i, i.op \in Loads, NEW a \in Nat, Mapped(a), NEW junk \in Junk
  PROVE  Loaded(i, a, junk) \in Word
<1> DEFINE r == Loaded(i, a, junk)
<1>0. SUFFICES r \in Word
  OBVIOUS
<1>1. /\ MemWord(a) \in Word /\ MemHalf(a) \in Half /\ MemByte(a) \in Byte
      /\ junk \in Word /\ MemHalf(a) \in Word /\ MemByte(a) \in Word
  BY MemIs, SmallIsWord, Zenon
<1>2. /\ ExtendHalf(junk) \in Word /\ EXTS(MemHalf(a)) \in Word
      /\ pSwap4Bytes(MemWord(a)) \in Word /\ SwapHalf(MemHalf(a)) \in Word
  BY <1>1, OrIsWord, ExtendedIsWord, SwappedIsWord, SwapHalfIsHalf, SmallIsWord, Zenon DEF ExtendHalf
<1>3. /\ i.op = "lwz" => r = MemWord(a)
      /\ i.op = "lhz" => r = MemHalf(a)
      /\ i.op = "lbz" => r = junk \/ r = MemByte(a)
      /\ i.op = "lha" => r = ExtendHalf(junk) \/ r = EXTS(MemHalf(a))
      /\ i.op = "lwbrx" => r = pSwap4Bytes(MemWord(a))
      /\ i.op = "lhbrx" => r = SwapHalf(MemHalf(a))
  BY Zenon DEF Loaded
<1> HIDE DEF r
<1> QED
  BY <1>1, <1>2, <1>3, Zenon DEF Loads

\* Loads.
LEMMA LoadTyped ==
  ASSUME BYTE = 8, WordsInv, NEW i, Decoded(i), NEW junk \in Junk, Load(i, junk)
  PROVE  RegsInv'
<1>0. RegsInv /\ MemTyped /\ gpr \in [Regs -> Word] /\ CIA \in Int /\ SpecialRegisters(spr)
  BY Zenon DEF WordsInv, RegsInv
<1>1. i.op \in Loads /\ i.op \in RegisterOps
  BY Zenon DEF Load, RegisterOps
<1>2. i.A \in Regs /\ i.D \in Regs
  BY <1>1, Zenon DEF Decoded
<1>3. EA(i) \in Word /\ EA(i) \in Nat
  BY <1>0, <1>1, AddressIs, Zenon
<1>4. CASE ~ Mapped(EA(i))
  BY <1>0, <1>4, FailTyped, Zenon DEF Load
<1>5. CASE Mapped(EA(i))
  <2> DEFINE r == Loaded(i, EA(i), junk)
             g == [gpr EXCEPT ![i.D] = r]
             o == [Outcome(i, 0) EXCEPT !.oe = FALSE]
  <2>1. gpr' = WriteBack(i, g) /\ Complete(spr, o)
    BY <1>5, Zenon DEF Load
  <2>2. r \in Word
    BY <1>0, <1>1, <1>3, <1>5, LoadedIs, Zenon
  <2>3. o.vrc = FALSE
    BY Zenon DEF Outcome
  <2> HIDE DEF r, o
  <2>4. g \in [Regs -> Word]
    BY <1>0, <1>2, <2>2, RegisterPut, Zenon
  <2> HIDE DEF g
  <2>5. Ends(gpr', spr, o)
    BY <1>0, <1>2, <1>3, <2>1, <2>3, <2>4, WriteBackTyped, Zenon DEF Ends
  <2> QED
    BY <1>0, <2>1, <2>5, EndsTyped, Zenon
<1> QED
  BY <1>4, <1>5, Zenon

\* What a store writes: n bytes.
LEMMA StoredIs ==
  ASSUME BYTE = 8, NEW i, i.op \in Stores, NEW x \in Word
  PROVE  LET b == Stored(i, x)
         IN  /\ Cardinality(DOMAIN b) \in Nat
             /\ \A k \in 0 .. Cardinality(DOMAIN b) - 1 : b[k] \in Byte
<1>1. Cardinality(0 .. 3) = 4 /\ Cardinality(0 .. 1) = 2 /\ Cardinality(0 .. 0) = 1
  <2>1. 0 \in Int /\ 1 \in Int /\ 3 \in Int
    OBVIOUS
  <2>2. /\ Cardinality(0 .. 3) = (IF 0 > 3 THEN 0 ELSE 3 - 0 + 1)
        /\ Cardinality(0 .. 1) = (IF 0 > 1 THEN 0 ELSE 1 - 0 + 1)
        /\ Cardinality(0 .. 0) = (IF 0 > 0 THEN 0 ELSE 0 - 0 + 1)
    BY <2>1, FS_Interval, Zenon
  <2> QED
    BY <2>2, SMT
<1> DEFINE Good(b) == /\ Cardinality(DOMAIN b) \in Nat
                      /\ \A k \in 0 .. Cardinality(DOMAIN b) - 1 : b[k] \in Byte
<1>2. ASSUME NEW y \in Word PROVE Good(WordBytes(y)) /\ Good(HalfBytes(y)) /\ Good(LastByte(y))
  <2>1. /\ 2 + 0 \in 0 .. 3 /\ 2 + 1 \in 0 .. 3 /\ 3 \in 0 .. 3
        /\ 4 - 1 = 3 /\ 2 - 1 = 1 /\ 1 - 1 = 0 /\ 4 \in Nat /\ 2 \in Nat /\ 1 \in Nat
        /\ \A k \in 0 .. 1 : 2 + k \in 0 .. 3
    BY SMT
  <2>2. Good(WordBytes(y))
    BY <1>1, <2>1, ByteOfIsByte, Zenon DEF WordBytes
  <2>3. Good(HalfBytes(y))
    BY <1>1, <2>1, ByteOfIsByte, Zenon DEF HalfBytes
  <2>4. Good(LastByte(y))
    BY <1>1, <2>1, ByteOfIsByte, Zenon DEF LastByte
  <2> QED
    BY <2>2, <2>3, <2>4, Zenon
<1>3. SwapHalf(x % 2 ^ (2 * BYTE)) \in Word
  <2>1. x \in Int
    BY WordIs, Zenon
  <2>2. x % Lower \in Int /\ 0 <= x % Lower /\ x % Lower < Lower
    BY <2>1, SMT DEF Lower
  <2>3. x % Lower \in Half
    BY <2>2, HalfIs, Zenon
  <2> QED
    BY <2>3, Parts, SwapHalfIsHalf, SmallIsWord, Zenon
<1>4. pSwap4Bytes(x) \in Word
  BY SwappedIsWord, Zenon
<1>5. \E y \in Word : \/ Stored(i, x) = WordBytes(y) \/ Stored(i, x) = HalfBytes(y)
                      \/ Stored(i, x) = LastByte(y)
  BY <1>3, <1>4, Zenon DEF Stored, Stores
<1>6. Good(Stored(i, x))
  <2> HIDE DEF Good
  <2> QED
    BY <1>2, <1>5, Zenon
<1> QED
  BY <1>6, Zenon

\* Stores.
LEMMA StoreTyped ==
  ASSUME BYTE = 8, WordsInv, NEW i, Decoded(i), Store(i)
  PROVE  WordsInv'
<1>0. RegsInv /\ MemTyped /\ gpr \in [Regs -> Word] /\ CIA \in Int /\ SpecialRegisters(spr)
  BY Zenon DEF WordsInv, RegsInv
<1>1. i.op \in Stores /\ i.op \in RegisterOps
  BY Zenon DEF Store, RegisterOps
<1>2. i.A \in Regs /\ i.D \in Regs /\ gpr[i.D] \in Word
  BY <1>0, <1>1, Zenon DEF Decoded
<1>3. EA(i) \in Word /\ EA(i) \in Nat
  BY <1>0, <1>1, AddressIs, Zenon
<1>4. CASE ~ Mapped(EA(i))
  <2>1. Fail(DSI) /\ gpr' = gpr /\ mem' = mem
    BY <1>4, Zenon DEF Store
  <2> QED
    BY <1>0, <2>1, FailTyped, Zenon DEF WordsInv, MemTyped
<1>5. CASE Mapped(EA(i))
  <2> DEFINE b == Stored(i, gpr[i.D])
             n == Cardinality(DOMAIN b)
             o == [Outcome(i, 0) EXCEPT !.oe = FALSE]
  <2>1. mem' = MemPut(EA(i), n, b) /\ gpr' = WriteBack(i, gpr) /\ Complete(spr, o)
    BY <1>5, Zenon DEF Store
  <2>2. n \in Nat /\ \A k \in 0 .. n - 1 : b[k] \in Byte
    BY <1>1, <1>2, StoredIs, Zenon
  <2>3. o.vrc = FALSE
    BY Zenon DEF Outcome
  <2> HIDE DEF n, b, o
  <2>4. MemTyped'
    BY <1>0, <1>3, <2>1, <2>2, PutIsTyped, Zenon DEF MemTyped
  <2>5. Ends(gpr', spr, o)
    BY <1>0, <1>2, <1>3, <2>1, <2>3, WriteBackTyped, Zenon DEF Ends
  <2> QED
    BY <1>0, <2>1, <2>4, <2>5, EndsTyped, Zenon DEF WordsInv
<1> QED
  BY <1>4, <1>5, Zenon

\* Loads and stores with a reservation.
LEMMA ReservedTyped ==
  ASSUME BYTE = 8, WordsInv, NEW i, Decoded(i), LoadReserved(i) \/ StoreConditional(i)
  PROVE  WordsInv'
<1>0. RegsInv /\ MemTyped /\ gpr \in [Regs -> Word] /\ CIA \in Int /\ SpecialRegisters(spr)
  BY Zenon DEF WordsInv, RegsInv
<1>1. i.op \in RegisterOps
  BY Zenon DEF LoadReserved, StoreConditional, RegisterOps
<1>2. i.D \in Regs /\ gpr[i.D] \in Word
  BY <1>0, <1>1, Zenon DEF Decoded
<1>3. EA(i) \in Word /\ EA(i) \in Nat
  BY <1>0, <1>1, AddressIs, Zenon
<1>4. CASE Fail(DSI) /\ gpr' = gpr /\ mem' = mem
  BY <1>0, <1>4, FailTyped, Zenon DEF WordsInv, MemTyped
<1>5. CASE LoadReserved(i)
  <2>1. CASE Mapped(EA(i))
    <3> DEFINE r == MemWord(EA(i))
               o == Outcome(i, 0)
    <3>1. gpr' = [gpr EXCEPT ![i.D] = r] /\ Complete(spr, o) /\ mem' = mem
      BY <1>5, <2>1, Zenon DEF LoadReserved
    <3>2. r \in Word
      BY <1>0, <1>3, <2>1, MemIs, Zenon
    <3>3. o.vrc = FALSE
      BY OutcomeIs, Zenon
    <3> HIDE DEF r, o
    <3>4. RegsInv'
      BY <1>0, <1>2, <3>1, <3>2, <3>3, ResultTyped, Zenon
    <3> QED
      BY <1>0, <3>1, <3>4, Zenon DEF WordsInv, MemTyped
  <2> QED
    BY <1>4, <1>5, <2>1, Zenon DEF LoadReserved
<1>6. CASE StoreConditional(i)
  <2> DEFINE hit == reserve_valid /\ rsvd_addr = EA(i)
  <2>1. CASE ~ (hit /\ ~ Mapped(EA(i)))
    <3> DEFINE b == WordBytes(gpr[i.D])
               v == (IF hit THEN EQ ELSE 0) + SOBit(spr)
               s == CR_put(spr, 0, v)
               o == [Outcome(i, 0) EXCEPT !.rc = FALSE, !.oe = FALSE]
    <3>1. /\ mem' = IF hit THEN MemPut(EA(i), 4, b) ELSE mem
          /\ Complete(s, o) /\ gpr' = gpr
      BY <1>6, <2>1, Zenon DEF StoreConditional
    <3>2. \A k \in 0 .. 4 - 1 : b[k] \in Byte
      <4>1. 4 - 1 = 3
        OBVIOUS
      <4> QED
        BY <1>2, <4>1, ByteOfIsByte, Zenon DEF WordBytes
    <3>3. v \in 0 .. 15
      <4>1. SOBit(spr) \in 0 .. 1
        BY FieldValues, Zenon
      <4> HIDE DEF hit
      <4> QED
        BY <4>1, SMT DEF EQ
    <3>4. o.vrc = FALSE
      BY Zenon DEF Outcome
    <3>5. 0 \in Fields
      BY Widths, SMT
    <3> HIDE DEF b, v, o, hit
    <3>6. SpecialRegisters(s)
      BY <1>0, <3>3, <3>5, FieldTyped, Zenon
    <3>7. MemTyped'
      BY <1>0, <1>3, <3>1, <3>2, PutIsTyped, 4 \in Nat, Zenon DEF MemTyped
    <3> HIDE DEF s
    <3>8. RegsInv'
      BY <1>0, <3>1, <3>4, <3>6, SpecialTyped, Zenon
    <3> QED
      BY <3>7, <3>8, Zenon DEF WordsInv
  <2> QED
    BY <1>4, <1>6, <2>1, Zenon DEF StoreConditional
<1> QED
  BY <1>5, <1>6, Zenon

\* A transfer stays in mapped memory: it cannot wrap, because there is an
\* address that is not mapped before the wrap.
LEMMA TransferredIs ==
  ASSUME BYTE = 8, NEW a \in Word, NEW n \in Nat, NEW size, size = 1 \/ size = 4
  PROVE  /\ Transferred(a, n, size) \in 0 .. n
         /\ \A k \in 0 .. Transferred(a, n, size) - 1 :
              a + size * k \in Nat /\ Mapped(a + size * k)
<1> DEFINE bad == {k \in 0 .. n - 1 : ~ Mapped(Low(a + size * k))}
           d == Transferred(a, n, size)
<1>1. a \in Int /\ 0 <= a /\ a <= Top /\ MEM \in Nat /\ MEM + 3 <= Top /\ Top \in Nat
  <2>1. MEM + 3 \in Word /\ MEM \in Nat
    BY ProcessorAssumption, Zenon
  <2>2. MEM + 3 <= Top
    BY <2>1, WordIs, Zenon
  <2> QED
    BY <2>1, <2>2, TopIs, WordIs, Zenon
<1>2. d \in 0 .. n /\ \A k \in 0 .. d - 1 : Mapped(Low(a + size * k))
  <2>1. CASE bad = {}
    <3>1. d = n
      BY <2>1, Zenon DEF Transferred
    <3>2. \A k \in 0 .. n - 1 : Mapped(Low(a + size * k))
      BY <2>1, Zenon
    <3> HIDE DEF d, bad
    <3>3. d \in 0 .. n
      BY <3>1, SMT
    <3> QED
      BY <3>1, <3>2, <3>3, Zenon
  <2>2. CASE bad # {}
    <3>1. d = Min(bad)
      BY <2>2, Zenon DEF Transferred
    <3>2. \A k : k \in bad <=> k \in 0 .. n - 1 /\ ~ Mapped(Low(a + size * k))
      BY Zenon
    <3> HIDE DEF bad, d
    <3>3. bad \in SUBSET Nat
      BY <3>2, SMT
    <3>4. First(bad) \in bad /\ \A j \in bad : First(bad) <= j
      BY <2>2, <3>3, FirstIsLeast, Zenon
    <3>5. Min(bad) \in bad /\ \A j \in bad : Min(bad) <= j
      BY <3>4, Zenon DEF Min
    <3>6. d \in 0 .. n - 1 /\ \A k \in 0 .. d - 1 : k \in 0 .. n - 1 /\ k \notin bad
      <4>1. d \in 0 .. n - 1 /\ \A j \in bad : d <= j
        BY <3>1, <3>2, <3>5, Zenon
      <4> QED
        BY <3>3, <4>1, SMT
    <3>7. d \in 0 .. n
      BY <3>6, SMT
    <3> QED
      BY <3>2, <3>6, <3>7, Zenon
  <2> QED
    BY <2>1, <2>2, Zenon
<1> HIDE DEF bad, d
<1>3. ASSUME NEW x \in Int, 0 <= x, x <= Top PROVE Low(x) = x
  <2>1. x % (Top + 1) = x
    BY <1>1, <1>3, SMT
  <2> QED
    BY <2>1, LowIs, Zenon
<1> DEFINE at(k) == a + size * k
<1>4. ASSUME NEW k \in 0 .. d - 1, at(k) \in Int, 0 <= at(k), at(k) <= Top
      PROVE  at(k) < MEM
  BY <1>2, <1>3, <1>4, Zenon DEF Mapped
<1>5. ASSUME d > 0 PROVE \A k \in 0 .. d - 1 : at(k) \in Nat /\ at(k) < MEM
  <2> DEFINE m == d - 1
             K == {k \in 0 .. m : at(k) \in Nat /\ at(k) < MEM}
  <2>1. m \in Nat
    BY <1>2, <1>5, SMT
  <2>2. 0 \in K
    <3>1. 0 \in 0 .. d - 1 /\ 0 \in 0 .. m
      BY <1>2, <1>5, SMT
    <3>2. at(0) = a
      BY <1>1, SMT
    <3>3. at(0) < MEM
      BY <1>1, <1>4, <3>1, <3>2, Zenon
    <3>4. at(0) \in Nat
      BY <1>1, <3>2, SMT
    <3> QED
      BY <3>1, <3>3, <3>4, Zenon
  <2>3. ASSUME NEW k \in 0 .. m - 1, k \in K PROVE k + 1 \in K
    <3>1. at(k) \in Nat /\ at(k) < MEM
      BY <2>3, Zenon
    <3>2. k + 1 \in 0 .. d - 1 /\ k + 1 \in 0 .. m
      BY <2>1, <2>3, SMT
    <3>3. at(k + 1) = at(k) + size
      BY <1>1, <2>1, SMT
    <3> HIDE DEF at
    <3>4. at(k + 1) \in Int /\ 0 <= at(k + 1) /\ at(k + 1) <= Top
      BY <1>1, <3>1, <3>3, SMT
    <3>5. at(k + 1) < MEM
      BY <1>4, <3>2, <3>4, Zenon
    <3>6. at(k + 1) \in Nat
      BY <3>4, SMT
    <3> QED
      BY <3>2, <3>5, <3>6, Zenon
  <2>4. \A k \in 0 .. m : k \in K
    <3> HIDE DEF K, m
    <3> QED
      BY <2>1, <2>2, <2>3, Steps, Zenon
  <2> QED
    BY <2>4, Zenon
<1>6. \A k \in 0 .. d - 1 : at(k) \in Nat /\ at(k) < MEM
  <2>1. CASE d > 0
    BY <1>5, <2>1, Zenon
  <2>2. CASE ~ (d > 0)
    <3>1. 0 .. d - 1 = {}
      BY <1>2, <2>2, SMT
    <3> QED
      BY <3>1, Zenon
  <2> QED
    BY <2>1, <2>2, Zenon
<1> QED
  BY <1>2, <1>6, Zenon DEF Mapped, d

\* However a multiple access ends.
LEMMA MultipleTyped ==
  ASSUME BYTE = 8, RegsInv, gpr' \in [Regs -> Word], NEW i, NEW n, NEW done, Multiple(i, n, done)
  PROVE  RegsInv'
<1>1. CASE Fail(DSI)
  BY <1>1, Zenon DEF RegsInv, Fail
<1> DEFINE o == [Outcome(i, 0) EXCEPT !.oe = FALSE]
<1>2. CASE Complete(spr, o)
  <2>1. o.vrc = FALSE
    BY Zenon DEF Outcome
  <2> HIDE DEF o
  <2>2. Ends(gpr', spr, o)
    BY <2>1, Zenon DEF Ends, RegsInv
  <2> QED
    BY <1>2, <2>2, EndsTyped, Zenon DEF RegsInv
<1> QED
  BY <1>1, <1>2, Zenon DEF Multiple

\* How many registers a multiple moves.
LEMMA WordsFromIs ==
  ASSUME NEW i, i.D \in Regs
  PROVE  WordsFrom(i) \in Nat /\ WordsFrom(i) = NREG - i.D
BY ProcessorAssumption, SMT DEF WordsFrom, Regs

\* Loads and stores of several words.
LEMMA MultiplesTyped ==
  ASSUME BYTE = 8, WordsInv, NEW i, Decoded(i), LoadMultiple(i) \/ StoreMultiple(i)
  PROVE  WordsInv'
<1>0. RegsInv /\ MemTyped /\ gpr \in [Regs -> Word] /\ CIA \in Int /\ SpecialRegisters(spr)
  BY Zenon DEF WordsInv, RegsInv
<1>1. i.op \in RegisterOps
  BY Zenon DEF LoadMultiple, StoreMultiple, RegisterOps
<1>2. i.D \in Regs
  BY <1>1, Zenon DEF Decoded
<1>3. EA(i) \in Word /\ EA(i) \in Nat
  BY <1>0, <1>1, AddressIs, Zenon
<1> DEFINE a == EA(i)
           n == WordsFrom(i)
           done == Transferred(a, n, 4)
<1>4. n \in Nat /\ n = NREG - i.D
  BY <1>2, WordsFromIs, Zenon
<1>5. done \in 0 .. n /\ \A k \in 0 .. done - 1 : a + 4 * k \in Nat /\ Mapped(a + 4 * k)
  <2> HIDE DEF a, n
  <2> QED
    BY <1>3, <1>4, TransferredIs, Zenon DEF a
<1>6. CASE LoadMultiple(i)
  <2>1. /\ gpr' = [r \in Regs |-> IF r - i.D \in 0 .. done - 1
                                   THEN MemWord(a + 4 * (r - i.D)) ELSE gpr[r]]
        /\ Multiple(i, n, done) /\ mem' = mem
    BY <1>6, Zenon DEF LoadMultiple
  <2> HIDE DEF a, n, done
  <2>2. ASSUME NEW r \in Regs
        PROVE  (IF r - i.D \in 0 .. done - 1
                  THEN MemWord(a + 4 * (r - i.D)) ELSE gpr[r]) \in Word
    <3>1. CASE r - i.D \in 0 .. done - 1
      <4>1. MemWord(a + 4 * (r - i.D)) \in Word
        BY <1>0, <1>5, <3>1, MemIs, Zenon
      <4> QED
        BY <3>1, <4>1, Zenon
    <3>2. CASE ~ (r - i.D \in 0 .. done - 1)
      BY <1>0, <3>2, Zenon
    <3> QED
      BY <3>1, <3>2, Zenon
  <2>3. gpr' \in [Regs -> Word]
    BY <2>1, <2>2, Zenon
  <2> QED
    BY <1>0, <2>1, <2>3, MultipleTyped, Zenon DEF WordsInv, MemTyped
<1>7. CASE StoreMultiple(i)
  <2> DEFINE m == 4 * done
             b == [k \in 0 .. 4 * done - 1 |-> ByteOf(gpr[i.D + k \div 4], k % 4)]
  <2>1. mem' = MemPut(a, m, b) /\ gpr' = gpr /\ Multiple(i, n, done)
    BY <1>7, Zenon DEF StoreMultiple
  <2> HIDE DEF a, n, done
  <2>2. ASSUME NEW k \in 0 .. 4 * done - 1 PROVE ByteOf(gpr[i.D + k \div 4], k % 4) \in Byte
    <3>1. k % 4 \in 0 .. 3 /\ k \div 4 \in 0 .. done - 1
      BY <1>4, <1>5, SMT
    <3>2. i.D + k \div 4 \in Regs
      BY <1>2, <1>4, <1>5, <3>1, ProcessorAssumption, SMT DEF Regs
    <3>3. gpr[i.D + k \div 4] \in Word
      BY <1>0, <3>2, Zenon
    <3> QED
      BY <3>1, <3>3, ByteOfIsByte, Zenon
  <2>3. \A k \in 0 .. m - 1 : b[k] \in Byte
    BY <2>2, Zenon
  <2>4. m \in Nat
    BY <1>4, <1>5, SMT
  <2> HIDE DEF b, m
  <2>5. MemTyped'
    BY <1>0, <1>3, <2>1, <2>3, <2>4, PutIsTyped, Zenon DEF MemTyped, a
  <2>6. RegsInv'
    BY <1>0, <2>1, MultipleTyped, Zenon
  <2> QED
    BY <2>5, <2>6, Zenon DEF WordsInv
<1> QED
  BY <1>6, <1>7, Zenon

\* The register that byte k of a string belongs to.
LEMMA StringRegIs ==
  ASSUME NEW i, i.D \in Regs, NEW k \in Nat
  PROVE  StringReg(i, k) \in Regs
<1> DEFINE x == i.D + k \div 4
<1>1. x \in Int
  BY ProcessorAssumption, SMT DEF Regs
<1> HIDE DEF x
<1>2. x % NREG \in 0 .. NREG - 1
  BY <1>1, ProcessorAssumption, SMT
<1> QED
  BY <1>2, Zenon DEF StringReg, Regs, x

\* A byte count is less than what the registers hold.
LEMMA ByteCountIs ==
  ASSUME BYTE = 8, SpecialRegisters(spr)
  PROVE  ByteCount(spr) \in Nat /\ ByteCount(spr) <= MaxString
<1> DEFINE x == spr["XER"]
           m == 4 * NREG
<1>1. x \in Int
  <2>1. x \in Word
    BY Zenon DEF SpecialRegisters, SPRs
  <2> QED
    BY <2>1, WordIs, Zenon
<1>2. m \in Int /\ m > 0
  BY ProcessorAssumption, SMT
<1>3. ByteCount(spr) = x % m /\ MaxString = m
  BY Zenon DEF ByteCount, MaxString
<1> HIDE DEF x, m
<1>4. x % m \in 0 .. m - 1
  BY <1>1, <1>2, SMT
<1>5. x % m \in Nat /\ x % m <= m
  BY <1>2, <1>4, SMT
<1> QED
  BY <1>3, <1>5, Zenon

\* How many bytes a string has.
LEMMA StringLengthIs ==
  ASSUME BYTE = 8, SpecialRegisters(spr), NEW i, i.B \in Nat
  PROVE  StringLength(i) \in Nat
<1>1. WBITS \in Nat
  BY SMT DEF WBITS
<1> QED
  BY <1>1, ByteCountIs, Zenon DEF StringLength

\* The base of an address is a word.
LEMMA BaseIs ==
  ASSUME BYTE = 8, RegsInv, NEW i, i.A \in Regs
  PROVE  Base(i) \in Word /\ Base(i) \in Nat
<1>1. 0 \in Word
  BY TopIs, Widths, SMT
<1>2. Base(i) \in Word
  BY <1>1, Zenon DEF Base, RegsInv
<1>3. Base(i) \in Int /\ 0 <= Base(i)
  BY <1>2, WordIs, Zenon
<1> QED
  BY <1>2, <1>3, SMT

\* The last of some places in a string is one of them.
LEMMA LastIs ==
  ASSUME NEW n \in Nat, NEW s \in SUBSET (0 .. n - 1), s # {}
  PROVE  Max(s) \in s
<1> DEFINE t == {k + 1 : k \in s}
<1>0. \A k \in s : k \in Int /\ k + 1 \in 1 .. n
  <2> SUFFICES ASSUME NEW k \in s  PROVE  k \in Int /\ k + 1 \in 1 .. n
    BY Zenon
  <2>1. k \in 0 .. n - 1
    BY Zenon
  <2> QED
    BY <2>1, SMT
<1>1. t \in SUBSET (1 .. n) /\ t # {}
  <2>1. \A x \in t : x \in 1 .. n
    BY <1>0, Zenon
  <2>2. t # {}
    BY Zenon
  <2> QED
    BY <2>1, <2>2, Zenon
<1>2. \A k : k + 1 \in t /\ k \in Int => k \in s
  <2> SUFFICES ASSUME NEW k, k + 1 \in t, k \in Int  PROVE  k \in s
    BY Zenon
  <2>1. PICK j \in s : k + 1 = j + 1
    BY Zenon
  <2>2. j \in Int
    BY <1>0, Zenon
  <2>3. k = j
    BY <2>1, <2>2, SMT
  <2> QED
    BY <2>1, <2>3, Zenon
<1>3. \A y \in s : y + 1 \in t
  BY Zenon
<1>4. Greatest(t) \in t /\ \A y \in t : Greatest(t) >= y
  <2> HIDE DEF t
  <2> QED
    BY <1>1, GreatestIn, Zenon
<1> HIDE DEF t
<1> DEFINE g == Greatest(t)
<1>5. g \in Int /\ g - 1 + 1 \in t /\ g - 1 \in Int /\ \A y \in s : g >= y + 1
  <2>1. g \in t /\ g \in 1 .. n /\ \A y \in s : g >= y + 1
    BY <1>1, <1>3, <1>4, Zenon
  <2> HIDE DEF g
  <2>2. g - 1 + 1 = g
    BY <2>1, SMT
  <2> QED
    BY <2>1, <2>2, SMT
<1> HIDE DEF g
<1>6. g - 1 \in s
  BY <1>2, <1>5, Zenon
<1>7. \A y \in s : g - 1 >= y
  <2> SUFFICES ASSUME NEW y \in s  PROVE  g - 1 >= y
    BY Zenon
  <2>1. y \in Int
    BY <1>0, Zenon
  <2>2. g >= y + 1
    BY <1>5, Zenon
  <2>3. g - 1 \in Int
    BY <1>5, Zenon
  <2> QED
    BY <2>1, <2>2, <1>5, SMT
<1> QED
  BY <1>6, <1>7, Zenon DEF Max

\* Loads and stores of strings.
LEMMA StringsTyped ==
  ASSUME BYTE = 8, WordsInv, NEW i, Decoded(i), LoadString(i) \/ StoreString(i)
  PROVE  WordsInv'
<1>0. RegsInv /\ MemTyped /\ gpr \in [Regs -> Word] /\ CIA \in Int /\ SpecialRegisters(spr)
  BY Zenon DEF WordsInv, RegsInv
<1>1. i.op \in {"lsw", "stsw"}
  BY Zenon DEF LoadString, StoreString
<1>2. i.D \in Regs /\ i.A \in Regs /\ i.B \in Nat
  BY <1>1, Zenon DEF Decoded
<1> DEFINE a == Base(i)
           n == StringLength(i)
           done == Transferred(a, n, 1)
<1>3. a \in Word /\ a \in Nat
  BY <1>0, <1>2, BaseIs, Zenon
<1>4. n \in Nat
  BY <1>0, <1>2, StringLengthIs, Zenon
<1>5. done \in Nat /\ \A k \in 0 .. done - 1 : a + k \in Nat /\ Mapped(a + k)
  <2>1. done \in 0 .. n /\ \A k \in 0 .. done - 1 : a + 1 * k \in Nat /\ Mapped(a + 1 * k)
    <3> HIDE DEF a, n
    <3> QED
      BY <1>3, <1>4, TransferredIs, Zenon
  <2> HIDE DEF a, n, done
  <2>2. done \in Nat /\ \A k \in 0 .. done - 1 : 1 * k = k
    BY <1>4, <2>1, SMT
  <2> QED
    BY <2>1, <2>2, Zenon
<1>6. CASE LoadString(i)
  <2> DEFINE at(r) == {k \in 0 .. done - 1 : StringReg(i, k) = r}
             ks(r, p) == {k \in at(r) : k % 4 = p}
             byte(r, p) == IF ks(r, p) = {} THEN 0 ELSE mem[a + Max(ks(r, p))]
             b(r) == [p \in 0 .. 3 |-> byte(r, p)]
  <2>1. /\ gpr' = [r \in Regs |-> IF at(r) = {} THEN gpr[r] ELSE OfBytes(b(r))]
        /\ Multiple(i, n, done) /\ mem' = mem
    BY <1>6, Zenon DEF LoadString
  <2> HIDE DEF a, n, done
  <2>2. ASSUME NEW r \in Regs, NEW p \in 0 .. 3 PROVE byte(r, p) \in Byte
    <3>1. CASE ks(r, p) = {}
      <4>1. 0 \in Byte
        BY ByteIs, SMT
      <4> QED
        BY <3>1, <4>1, Zenon
    <3>2. CASE ks(r, p) # {}
      <4>1. ks(r, p) \in SUBSET (0 .. done - 1)
        BY Zenon
      <4> DEFINE k == Max(ks(r, p))
      <4>2. k \in 0 .. done - 1
        <5> HIDE DEF ks
        <5>1. k \in ks(r, p)
          BY <1>5, <3>2, <4>1, LastIs, Zenon
        <5> QED
          BY <4>1, <5>1, Zenon
      <4> HIDE DEF k
      <4>3. a + k \in Nat /\ Mapped(a + k)
        BY <1>5, <4>2, Zenon
      <4>4. MemByte(a + k) \in Byte
        BY <1>0, <4>3, MemIs, Zenon
      <4> QED
        BY <3>2, <4>4, Zenon DEF MemByte, k
    <3> QED
      BY <3>1, <3>2, Zenon
  <2> HIDE DEF byte
  <2>3. ASSUME NEW r \in Regs PROVE OfBytes(b(r)) \in Word
    <3>1. 0 \in 0 .. 3 /\ 1 \in 0 .. 3 /\ 2 \in 0 .. 3 /\ 3 \in 0 .. 3
      BY SMT
    <3>2. b(r)[0] \in Byte /\ b(r)[1] \in Byte /\ b(r)[2] \in Byte /\ b(r)[3] \in Byte
      BY <2>2, <3>1, Zenon
    <3> DEFINE c == b(r)
    <3> HIDE DEF b
    <3>3. c[0] \in Byte /\ c[1] \in Byte /\ c[2] \in Byte /\ c[3] \in Byte
      BY <3>2, Zenon
    <3> HIDE DEF c
    <3>4. OfBytes(c) \in Word
      BY <3>3, OfBytesIsWord, Zenon
    <3> QED
      BY <3>4, Zenon DEF c
  <2> HIDE DEF b, at
  <2>4. gpr' \in [Regs -> Word]
    BY <1>0, <2>1, <2>3, Zenon
  <2> QED
    BY <1>0, <2>1, <2>4, MultipleTyped, Zenon DEF WordsInv, MemTyped
<1>7. CASE StoreString(i)
  <2> DEFINE b == [k \in 0 .. done - 1 |-> ByteOf(gpr[StringReg(i, k)], k % 4)]
  <2>1. mem' = MemPut(a, done, b) /\ gpr' = gpr /\ Multiple(i, n, done)
    BY <1>7, Zenon DEF StoreString
  <2> HIDE DEF a, n, done
  <2>2. ASSUME NEW k \in 0 .. done - 1 PROVE ByteOf(gpr[StringReg(i, k)], k % 4) \in Byte
    <3>1. k % 4 \in 0 .. 3 /\ k \in Nat
      BY <1>5, SMT
    <3>2. gpr[StringReg(i, k)] \in Word
      BY <1>0, <1>2, <3>1, StringRegIs, Zenon
    <3> QED
      BY <3>1, <3>2, ByteOfIsByte, Zenon
  <2>3. \A k \in 0 .. done - 1 : b[k] \in Byte
    BY <2>2, Zenon
  <2> HIDE DEF b
  <2>5. MemTyped'
    BY <1>0, <1>3, <1>5, <2>1, <2>3, PutIsTyped, Zenon DEF MemTyped
  <2>6. RegsInv'
    BY <1>0, <2>1, MultipleTyped, Zenon
  <2> QED
    BY <2>5, <2>6, Zenon DEF WordsInv
<1> QED
  BY <1>6, <1>7, Zenon

\* All loads and stores.
LEMMA MemoryTyped ==
  ASSUME BYTE = 8, WordsInv, NEW i, Decoded(i), NEW junk \in Junk, LoadsAndStores(i, junk)
  PROVE  WordsInv'
<1>1. CASE Load(i, junk)
  <2>1. mem' = mem
    BY <1>1, Zenon DEF Load
  <2> QED
    BY <1>1, <2>1, LoadTyped, Zenon DEF WordsInv, MemTyped
<1> QED
  BY <1>1, StoreTyped, ReservedTyped, MultiplesTyped, StringsTyped, Zenon DEF LoadsAndStores

\* Every step keeps words in the registers and bytes in memory.
LEMMA WordsStep ==
  ASSUME BYTE = 8, TraceInv, WordsInv, [Next]_vars
  PROVE  WordsInv'
<1>1. CASE UNCHANGED vars
  BY <1>1 DEF vars, WordsInv, RegsInv, MemTyped
<1>2. CASE Next
  <2>1. PICK i \in Programs[prog][CIA], junk \in Junk : Step(i, junk)
    BY <1>2 DEF Next
  <2>2. i \in Instructions
    BY <1>2, <2>1 DEF TraceInv, Instructions, Next, Running
  <2>3. Decoded(i)
    BY <2>2, ProgramsAssumption, Zenon
  <2> QED
    BY <2>1, <2>3, IntegerTyped, BranchesTyped, MemoryTyped, VectorsTyped, Zenon DEF Step
<1> QED
  BY <1>1, <1>2, Zenon

\* At the width of the code, registers hold words and memory bytes, whatever
\* the program does: no instruction leaves more than 32 bits in a register, and
\* none that found its address mapped reads more than three bytes beyond.
THEOREM WordsTheorem ==
  ASSUME BYTE = 8
  PROVE  Spec => []WordsInv
<1>1. Init => WordsInv
  BY ProgramsAssumption DEF Init, WordsInv, RegsInv, MemTyped
<1>2. TraceInv /\ WordsInv /\ [Next]_vars => WordsInv'
  BY WordsStep
<1> QED
  BY <1>1, <1>2, TraceTheorem, PTL DEF Spec

-----------------------------------------------------------------------------
(* Overflow.                                                               *)

\* The additions that can record an overflow of their two registers.
Sums == {"add", "addc", "adde"}

\* They belong to the arithmetic of the integer unit alone.
LEMMA SumsAreArithmetic ==
  ASSUME NEW i, i.op \in Sums, NEW junk, Step(i, junk)
  PROVE  Arithmetic(i)
<1>1. ASSUME Integer(i, junk) PROVE Arithmetic(i)
  BY <1>1, Zenon DEF Sums, Integer, Divide, Logic, Extend, ShiftRightAlgebraic, Rotate,
       Compare, Trap, MoveToCR, MoveXERToCR, MoveFrom, MoveTo, CacheOp, ImmediateLogic,
       RegisterLogic
<1>2. ~ Branches(i, junk)
  BY Zenon DEF Sums, Branches, BranchConditional, Branch, BranchToRegister, MoveCRField,
       CRLogic, CROps, ReturnFromInterrupt, SystemCall, Synchronize
<1>3. ~ LoadsAndStores(i, junk)
  BY Zenon DEF Sums, LoadsAndStores, Load, Store, Loads, Stores, LoadReserved,
       StoreConditional, LoadMultiple, StoreMultiple, LoadString, StoreString
<1>4. ~ Vectors(i, junk)
  <2>1. i.op \notin LaneOps
    BY Zenon DEF Sums, LaneOps, Cases0Ops, Cases36Ops, Cases64Ops, Cases258Ops, Cases386Ops,
         Cases514Ops, Cases642Ops, Cases770Ops, Cases1024Ops, Cases1282Ops
  <2>2. i.op \notin SaturatingOps /\ i.op \notin {"mfvscr", "mtvscr"}
    BY Zenon DEF Sums, SaturatingOps
  <2> QED
    BY <2>1, <2>2, Zenon DEF Vectors, VectorLanes, VectorSaturating, MoveVSCR, VectorOps
<1> QED
  BY <1>1, <1>2, <1>3, <1>4, Zenon DEF Step

\* What the code compares with the carry out of the sum of two words and a
\* carry is the carry into their sign, and so the sum is found not to fit.
LEMMA OverflowIs ==
  ASSUME BYTE = 8, NEW a \in Word, NEW b \in Word, NEW c \in 0 .. 1
  PROVE  ((Low(Sign(a) + Sign(b)) # Sign(Low(a + b + c))) # (CarryOut(a + b + c) = 1))
           <=> ~ Fits(Signed(a) + Signed(b) + c)
<1> DEFINE U == Upmost
           T == Top + 1
           l == a + b + c
           r == l % T
           m == (IF a >= U THEN U ELSE 0) + (IF b >= U THEN U ELSE 0)
           s == (IF a >= U THEN a - T ELSE a) + (IF b >= U THEN b - T ELSE b) + c
<1>1. /\ a \in Int /\ 0 <= a /\ a <= Top /\ b \in Int /\ 0 <= b /\ b <= Top
      /\ c \in Int /\ 0 <= c /\ c <= 1
  BY WordIs, SMT
<1>2. l \in Int /\ m \in Int /\ m \in {0, U, T} /\ U \in Int /\ T \in Int /\ T = 2 * U /\ U > 0
  BY <1>1, SMT DEF Upmost, Top
<1>3. r = (IF l >= T THEN l - T ELSE l) /\ 0 <= r /\ r <= Top /\ r \in Int
  BY <1>1, SMT DEF Top
<1>4. Low(l) = r /\ Low(l) \in Word
  BY <1>2, LowIs, LowIsWord, Zenon
<1>5. Sign(Low(l)) = (IF r >= U THEN U ELSE 0)
  BY <1>4, SignIs, Zenon
<1>6. Sign(a) + Sign(b) = m /\ Signed(a) + Signed(b) + c = s
  BY SignIs, Zenon
<1>7. Low(Sign(a) + Sign(b)) = m % T
  BY <1>6, LowIs, Zenon
<1>8. m % T = (IF m = U THEN U ELSE 0)
  BY <1>2, SMT DEF Upmost, Top
<1>9. CarryOut(l) = 1 <=> l > Top
  <2>1. l \in Word <=> l <= Top
    <3>1. 0 <= l
      BY <1>1, SMT
    <3> QED
      BY <1>2, <3>1, WordIs, Zenon
  <2>2. l > Top <=> ~ l <= Top
    BY <1>2, TopIs, SMT
  <2> HIDE DEF l
  <2>3. 0 # 1
    OBVIOUS
  <2> QED
    BY <2>1, <2>2, <2>3, Zenon DEF CarryOut
<1>10. Fits(s) <=> -U <= s /\ s <= U - 1
  <2>1. s \in Int
    BY <1>1, <1>2, SMT
  <2>2. Fits(s) <=> s \in -U .. U - 1
    BY Parts, Zenon DEF Fits
  <2> HIDE DEF s, U
  <2> QED
    BY <1>2, <2>1, <2>2, SMT
<1>11. (((IF m = U THEN U ELSE 0) # (IF r >= U THEN U ELSE 0)) # (l > Top))
         <=> ~ (-U <= s /\ s <= U - 1)
  <2>1. T = Top + 1
    BY SMT
  <2> HIDE DEF T, U
  <2> QED
    BY <1>1, <1>2, <1>3, <2>1, TopIs, SMT
<1> HIDE DEF U, T, m, r, s, l
<1>12. Low(Sign(a) + Sign(b)) = (IF m = U THEN U ELSE 0)
  BY <1>7, <1>8, Zenon
<1> DEFINE x == Low(Sign(a) + Sign(b))
           y == Sign(Low(l))
<1>13. ((x # y) # (CarryOut(l) = 1)) <=> ~ Fits(s)
  <2> HIDE DEF x, y
  <2>1. x = (IF m = U THEN U ELSE 0) /\ y = (IF r >= U THEN U ELSE 0)
    BY <1>5, <1>12, Zenon DEF x, y
  <2>2. Fits(s) \in BOOLEAN
    BY SMT DEF Fits
  <2> QED
    BY <2>1, <2>2, <1>9, <1>10, <1>11, SMT
<1>14. Signed(a) + Signed(b) + c = s
  BY <1>6, Zenon
<1> QED
  BY <1>13, <1>14, Zenon DEF l

\* OV is read back as it was recorded.
LEMMA OverflowRecorded ==
  ASSUME BYTE = 8, NEW s, SpecialRegisters(s), NEW o, o.oe = TRUE, o.vrc = FALSE
  PROVE  OV(Updated(s, o)) <=> o.ov
<1> DEFINE s1 == IF o.rc    THEN CR_put(s, 0, Recorded(o.ac, s)) ELSE s
           s2 == IF o.vrc   THEN CR_put(s1, CR6, o.ac) ELSE s1
           s3 == IF o.sat   THEN [s2 EXCEPT !["VSCR"] = OrW(@, 1)] ELSE s2
           s4 == XER_setOV(s3, o.ov)
           b == BitsOf(s3["XER"])
           x == IF o.ov THEN b \cup {0, 1} ELSE b \ {1}
           y == IF o.ca = 1 THEN x \cup {2} ELSE x \ {2}
<1>1. SpecialRegisters(s3)
  <2>1. 0 \in Fields
    BY Widths, SMT
  <2>2. SpecialRegisters(s1)
    BY <2>1, FieldTyped, FieldValues, Zenon
  <2> HIDE DEF s1
  <2>3. SpecialRegisters(s2)
    BY <2>2, Zenon
  <2> HIDE DEF s2
  <2> QED
    BY <2>3, PutTyped, Zenon DEF SPRs
<1>2. Updated(s, o) = (IF o.setCA THEN XER_setCA(s4, o.ca) ELSE s4)
  BY Zenon DEF Updated
<1> HIDE DEF s3
<1>3. s4["XER"] = FromBits(x)
  BY <1>1, Zenon DEF XER_setOV, SpecialRegisters, SPRs
<1>4. XER_setCA(s4, o.ca)["XER"] = FromBits(y)
  <2>1. BitsOf(FromBits(x)) = x
    <3>1. b \in SUBSET (0 .. 31) /\ {0, 1} \subseteq 0 .. 31
      BY BitsIn, SMT
    <3>2. x \in SUBSET (0 .. 31)
      BY <3>1, Zenon
    <3> QED
      BY <3>2, BitsFacts, Zenon
  <2>2. "XER" \in DOMAIN s4
    BY <1>1, XERTyped, Zenon DEF SpecialRegisters, SPRs
  <2> HIDE DEF s4, x
  <2> QED
    BY <1>3, <2>1, <2>2, Zenon DEF XER_setCA
<1>5. x \in SUBSET (0 .. 31) /\ y \in SUBSET (0 .. 31)
  <2>1. b \in SUBSET (0 .. 31) /\ {0, 1, 2} \subseteq 0 .. 31
    BY BitsIn, SMT
  <2> QED
    BY <2>1, Zenon
<1>6. BitsOf(FromBits(x)) = x /\ BitsOf(FromBits(y)) = y
  <2> HIDE DEF x, y
  <2> QED
    BY <1>5, BitsFacts, Zenon
<1>7. (1 \in x <=> o.ov) /\ (1 \in y <=> o.ov)
  <2>1. 1 # 2
    OBVIOUS
  <2> QED
    BY <2>1, Zenon
<1> HIDE DEF s4, x, y
<1>8. 1 \in BitsOf(Updated(s, o)["XER"]) <=> o.ov
  BY <1>2, <1>3, <1>4, <1>6, <1>7, Zenon
<1> QED
  BY <1>8, Zenon DEF OV, Bit

\* An addition that asks for it records whether the signed sum fits.
LEMMA SumRecords ==
  ASSUME BYTE = 8, RegsInv, NEW i, Decoded(i), i.op \in Sums, i.OE = TRUE, Arithmetic(i)
  PROVE  OV(spr') <=> ~ Fits(Signed(gpr[i.A]) + Signed(gpr[i.B])
                               + (IF i.op = "adde" THEN XER_CA(spr) ELSE 0))
<1> DEFINE a == gpr[i.A]
           b == gpr[i.B]
           ca == XER_CA(spr)
           c == IF i.op = "adde" THEN ca ELSE 0
           o == ArithmeticOutcome(i)
<1>1. a \in Word /\ b \in Word /\ c \in 0 .. 1
  <2>1. i.A \in Regs /\ i.B \in Regs
    BY Zenon DEF Decoded, RegisterOps, ArithmeticOps, Sums
  <2>2. ca \in 0 .. 1 /\ 0 \in 0 .. 1
    BY CAIs, SMT
  <2> QED
    BY <2>1, <2>2, Zenon DEF RegsInv
<1>2. \E set : o = Sum(i, a + b + c, Sign(a) + Sign(b), set)
  <2>1. a \in Int /\ b \in Int
    BY <1>1, WordInt, Zenon
  <2>2. a + b + 0 = a + b
    BY <2>1, SMT
  <2>3. CASE i.op = "adde"
    BY <2>3, Zenon DEF ArithmeticOutcome, adde
  <2>4. CASE i.op \in {"add", "addc"}
    <3>1. o = Sum(i, a + b, Sign(a) + Sign(b), FALSE)
      BY <2>4, Zenon DEF ArithmeticOutcome, add, addc
    <3>2. c = 0
      BY <2>4, Zenon
    <3> QED
      BY <2>2, <3>1, <3>2, Zenon
  <2> QED
    BY <2>3, <2>4, Zenon DEF Sums
<1>3. spr' = Updated(spr, o)
  BY Zenon DEF Arithmetic, Complete, CompleteTo
<1> HIDE DEF o, a, b, c
<1>4. /\ o.oe = TRUE /\ o.vrc = FALSE
      /\ o.ov = ((Low(Sign(a) + Sign(b)) # Sign(Low(a + b + c))) # (CarryOut(a + b + c) = 1))
  BY <1>2, Zenon DEF Sum, Outcome
<1>5. OV(spr') <=> o.ov
  BY <1>3, <1>4, OverflowRecorded, Zenon DEF RegsInv
<1>6. o.ov <=> ~ Fits(Signed(a) + Signed(b) + c)
  BY <1>1, <1>4, OverflowIs, Zenon
<1> QED
  BY <1>5, <1>6, Zenon DEF a, b, c

\* Whatever a program has done before, an addition that asks for it leaves OV
\* telling whether the sum of its registers, read as signed, fits a word.
THEOREM OverflowTheorem ==
  ASSUME BYTE = 8
  PROVE  Spec => OverflowIsSigned
<1>1. ASSUME TraceInv, WordsInv, [Next]_vars
      PROVE  [ir'[1].op \in Sums /\ ir'[1].OE /\ ret' = 0 =>
                OV(spr') = ~ Fits(Signed(gpr[ir'[1].A]) + Signed(gpr[ir'[1].B])
                             + (IF ir'[1].op = "adde" THEN XER_CA(spr) ELSE 0))]_vars
  <2>1. CASE Next
    <3>1. PICK i \in Programs[prog][CIA], junk \in Junk : Step(i, junk)
      BY <2>1 DEF Next
    <3>2. i \in Instructions
      BY <1>1, <2>1, <3>1 DEF TraceInv, Instructions, Next, Running
    <3>3. ir'[1] = i
      BY <1>1, <3>1, <3>2, Newest DEF TraceInv, Step
    <3>4. ASSUME i.op \in Sums, i.OE
          PROVE  OV(spr') <=> ~ Fits(Signed(gpr[i.A]) + Signed(gpr[i.B])
                             + (IF i.op = "adde" THEN XER_CA(spr) ELSE 0))
      <4>1. Decoded(i) /\ Arithmetic(i) /\ RegsInv
        BY <1>1, <3>1, <3>2, <3>4, SumsAreArithmetic, ProgramsAssumption, Zenon DEF WordsInv
      <4>2. i.OE = TRUE
        BY <3>4
      <4> QED
        BY <3>4, <4>1, <4>2, SumRecords, Zenon
    <3>5. OV(spr') \in BOOLEAN /\ \A x : Fits(x) \in BOOLEAN
      BY SMT DEF OV, Bit, Fits
    <3>6. ASSUME i.op \in Sums, i.OE
          PROVE  OV(spr') = ~ Fits(Signed(gpr[i.A]) + Signed(gpr[i.B])
                             + (IF i.op = "adde" THEN XER_CA(spr) ELSE 0))
      <4> DEFINE f == Fits(Signed(gpr[i.A]) + Signed(gpr[i.B])
                             + (IF i.op = "adde" THEN XER_CA(spr) ELSE 0))
                 v == OV(spr')
      <4>1. (v <=> ~ f) /\ v \in BOOLEAN /\ f \in BOOLEAN
        BY <3>4, <3>5, <3>6, Zenon
      <4> HIDE DEF f, v
      <4>2. v = ~ f
        BY <4>1
      <4> QED
        BY <4>2, Zenon DEF f, v
    <3> QED
      BY <3>3, <3>6, Zenon
  <2> QED
    BY <1>1, <2>1
<1>2. (Spec => OverflowIsSigned)
  BY <1>1, TraceTheorem, WordsTheorem, PTL DEF Spec, OverflowIsSigned, Sums
<1> QED
  BY <1>2

-----------------------------------------------------------------------------
(* A loop on CTR.                                                          *)

\* mtctr r1; addi r2,r2,1; bdnz to the addi, linking or not.
LoopIs(P) ==
  /\ {1, 2} \subseteq Regs
  /\ DOMAIN P = {0, 4, 8}
  /\ \A i \in P[0] : i.op = "mtspr" /\ i.SPR = "CTR" /\ i.D = 1
  /\ \A i \in P[4] : i.op = "addi" /\ i.D = 2 /\ i.A = 2 /\ i.SIMM = 1
  /\ \A i \in P[8] : /\ i.op = "bc" /\ 16 \in i.BO /\ 4 \notin i.BO /\ 2 \notin i.BO
                     /\ i.AA = FALSE /\ i.LI = 2 ^ (2 * BYTE) - 4

\* The operations of the programs below, and the actions they are part of.
LEMMA ActionIs ==
  ASSUME NEW i, NEW junk, Step(i, junk)
  PROVE  /\ i.op = "mtspr" => MoveTo(i)
         /\ i.op = "bc" => BranchConditional(i) /\ gpr' = gpr
         /\ i.op \in {"addi", "adde"} => Arithmetic(i) /\ UNCHANGED <<mem, reserve_valid, rsvd_addr>>
         /\ i.op = "lwarx" => LoadReserved(i)
         /\ i.op = "stwcx." => StoreConditional(i)
<1> DEFINE Ours == {"mtspr", "bc", "addi", "adde", "lwarx", "stwcx."}
<1>1. ASSUME i.op \in Ours, Integer(i, junk)
      PROVE  /\ \/ i.op = "mtspr" /\ MoveTo(i)
                \/ i.op \in {"addi", "adde"} /\ Arithmetic(i)
             /\ UNCHANGED <<mem, reserve_valid, rsvd_addr>>
  <2>1. i.op \notin ImmediateLogic \cup RegisterLogic
    BY <1>1, Zenon DEF ImmediateLogic, RegisterLogic
  <2>2. i.op \in ArithmeticOps => i.op \in {"addi", "adde"}
    BY <1>1, Zenon DEF ArithmeticOps
  <2> QED
    <3>1. /\ i.op \notin {"divwu", "divw", "extsh", "extsb", "sraw", "srawi", "cache"}
          /\ i.op \notin {"rlwimi", "rlwinm", "rlwnm", "cmpli", "cmpi", "cmpl", "cmp"}
          /\ i.op \notin {"twi", "tw", "mfcr", "mfmsr", "mfspr"} /\ i.op # "mtcrf"
          /\ i.op # "mcrxr"
      BY <1>1, Zenon
    <3>2. Arithmetic(i) \/ MoveTo(i)
      BY <1>1, <2>1, <3>1, Zenon DEF Integer, Divide, Logic, Extend, ShiftRightAlgebraic,
           Rotate, Compare, Trap, MoveToCR, MoveXERToCR, MoveFrom, CacheOp
    <3>3. Arithmetic(i) => i.op \in {"addi", "adde"}
      BY <2>2, Zenon DEF Arithmetic
    <3>4. MoveTo(i) => i.op = "mtspr"
      BY <1>1, Zenon DEF MoveTo
    <3>5. UNCHANGED <<mem, reserve_valid, rsvd_addr>>
      BY <1>1, Zenon DEF Integer
    <3> QED
      BY <3>2, <3>3, <3>4, <3>5, Zenon
<1>2. ASSUME i.op \in Ours, Branches(i, junk)
      PROVE  i.op = "bc" /\ BranchConditional(i) /\ gpr' = gpr
  BY <1>2, Zenon DEF Branches, BranchConditional, Branch, BranchToRegister, MoveCRField,
       CRLogic, CROps, ReturnFromInterrupt, SystemCall, Synchronize
<1>3. ASSUME i.op \in Ours, LoadsAndStores(i, junk)
      PROVE  \/ i.op = "lwarx" /\ LoadReserved(i)
             \/ i.op = "stwcx." /\ StoreConditional(i)
  BY <1>3, Zenon DEF LoadsAndStores, Load, Store, Loads, Stores, LoadReserved,
       StoreConditional, LoadMultiple, StoreMultiple, LoadString, StoreString
<1>4. ASSUME i.op \in Ours PROVE ~ Vectors(i, junk)
  <2>1. i.op \notin LaneOps
    BY <1>4, Zenon DEF LaneOps, Cases0Ops, Cases36Ops, Cases64Ops, Cases258Ops,
         Cases386Ops, Cases514Ops, Cases642Ops, Cases770Ops, Cases1024Ops, Cases1282Ops
  <2>2. i.op \notin SaturatingOps /\ i.op \notin {"mfvscr", "mtvscr"}
    BY <1>4, Zenon DEF SaturatingOps
  <2> QED
    BY <2>1, <2>2, Zenon DEF Vectors, VectorLanes, VectorSaturating, MoveVSCR, VectorOps
<1> QED
  BY <1>1, <1>2, <1>3, <1>4, Zenon DEF Step

\* The end of an instruction writes no other special register.
LEMMA UpdatedKeeps ==
  ASSUME NEW s, DOMAIN s = SPRs, NEW o
  PROVE  DOMAIN Updated(s, o) = SPRs /\ Updated(s, o)["CTR"] = s["CTR"]
<1> DEFINE s1 == IF o.rc    THEN CR_put(s, 0, Recorded(o.ac, s)) ELSE s
           s2 == IF o.vrc   THEN CR_put(s1, CR6, o.ac) ELSE s1
           s3 == IF o.sat   THEN [s2 EXCEPT !["VSCR"] = OrW(@, 1)] ELSE s2
           s4 == IF o.oe    THEN XER_setOV(s3, o.ov) ELSE s3
           Kept(t) == DOMAIN t = SPRs /\ t["CTR"] = s["CTR"]
<1>1. Kept(s1)
  BY Zenon DEF CR_put, SPRs
<1> HIDE DEF s1
<1>2. Kept(s2)
  BY <1>1, Zenon DEF CR_put, SPRs
<1> HIDE DEF s2
<1>3. Kept(s3)
  BY <1>2, Zenon DEF SPRs
<1> HIDE DEF s3
<1>4. Kept(s4)
  BY <1>3, Zenon DEF XER_setOV, SPRs
<1> HIDE DEF s4
<1>5. Kept(IF o.setCA THEN XER_setCA(s4, o.ca) ELSE s4)
  BY <1>4, Zenon DEF XER_setCA, SPRs
<1> QED
  BY <1>5, Zenon DEF Updated, s4, s3, s2, s1

\* Small immediate operands extend to themselves, and the displacement of the
\* loop to -4.
LEMMA ExtendedImmediates ==
  ASSUME BYTE = 8
  PROVE  EXTS(1) = 1 /\ EXTS(2 ^ (2 * BYTE) - 4) = Top - 3
<1> DEFINE top == 32768
           d == Lower - 4
           up == (Top + 1) - Lower
<1>1. 2 ^ (2 * BYTE - 1) = top
  <2>1. 2 * BYTE - 1 = 15
    BY SMT
  <2>2. 2 ^ 15 = top
    BY SMT
  <2> HIDE DEF top
  <2> QED
    BY <2>1, <2>2, Zenon
<1>0. 2 ^ WBITS - 2 ^ (2 * BYTE) = up
  BY Widths, Parts, Zenon
<1>2. \A h : EXTS(h) = IF (h \div top) % 2 = 1 THEN OrW(h, up) ELSE h
  <2> HIDE DEF top, up
  <2> QED
    BY <1>0, <1>1, Zenon DEF EXTS
<1>3. (1 \div top) % 2 # 1
  BY SMT
<1>4. (d \div top) % 2 = 1
  BY SMT DEF Lower
<1>5. Value(16 .. 29) = d /\ Value(0 .. 15) = up /\ Value(0 .. 29) = Top - 3
  BY SMT DEF Value, Eight, Top, Lower
<1>6. /\ 16 .. 29 \in SUBSET (0 .. 31) /\ 0 .. 15 \in SUBSET (0 .. 31)
      /\ 0 .. 29 \in SUBSET (0 .. 31) /\ (16 .. 29) \cup (0 .. 15) = 0 .. 29
  BY SMT
<1>7. BitsOf(d) = 16 .. 29
  BY <1>5, <1>6, BitsOfValue, Zenon
<1>8. BitsOf(up) = 0 .. 15
  BY <1>5, <1>6, BitsOfValue, Zenon
<1> HIDE DEF top, d, up
<1>9. OrW(d, up) = FromBits(0 .. 29)
  BY <1>6, <1>7, <1>8, Zenon DEF OrW
<1>10. FromBits(0 .. 29) = Top - 3
  BY <1>5, <1>6, FromBitsIs, Zenon
<1>11. EXTS(d) = Top - 3
  BY <1>2, <1>4, <1>9, <1>10, Zenon
<1>12. EXTS(1) = 1
  BY <1>2, <1>3, Zenon
<1>13. 2 ^ (2 * BYTE) - 4 = d
  BY Parts, Zenon DEF d
<1> QED
  BY <1>11, <1>12, <1>13, Zenon

\* The low bits of a sum are those of a sum of low bits.
LEMMA LowSums ==
  ASSUME BYTE = 8, NEW x \in Int, NEW y \in Int
  PROVE  /\ Low(Low(x) + y) = Low(x + y)
         /\ Low(x) + y \in Int
<1>1. ((x % (Top + 1)) + y) % (Top + 1) = (x + y) % (Top + 1) /\ (x % (Top + 1)) + y \in Int
  BY SMT DEF Top
<1> QED
  BY <1>1, LowIs, Zenon

\* A word is all low bits.
LEMMA LowOfWord ==
  ASSUME BYTE = 8, NEW x \in Word
  PROVE  Low(x) = x
<1>1. x \in Int /\ 0 <= x /\ x <= Top
  BY WordIs, Zenon
<1>2. x % (Top + 1) = x
  BY <1>1, SMT DEF Top
<1> QED
  BY <1>2, LowIs, Zenon

\* The inductive invariant: what is still to be counted, and what has been.
LoopGoal == Low(entry.gpr[2] + entry.gpr[1])

LoopInv ==
  prog = "loop" =>
    /\ CIA \in {0, 4, 8, 12}
    /\ CIA = 0 => gpr = entry.gpr
    /\ CIA = 4 => Low(gpr[2] + spr["CTR"]) = LoopGoal
    /\ CIA = 8 => Low(gpr[2] + (spr["CTR"] - 1)) = LoopGoal
    /\ CIA = 12 => spr["CTR"] = 0 /\ gpr[2] = LoopGoal

\* Every instruction of the loop keeps its invariant.
LEMMA LoopStep ==
  ASSUME BYTE = 8, LoopIs(Programs["loop"]), TraceInv, WordsInv, LoopInv, prog = "loop", Next
  PROVE  LoopInv'
<1> DEFINE ctr == spr["CTR"]
           P == Programs["loop"]
<1>1. PICK i \in P[CIA], junk \in Junk : Step(i, junk)
  BY Zenon DEF Next
<1>2. CIA \in {0, 4, 8} /\ prog' = prog /\ LoopGoal' = LoopGoal
  BY <1>1, Zenon DEF Next, Running, LoopIs, Step, LoopGoal
<1>3. DOMAIN spr = SPRs /\ ctr \in Word /\ gpr \in [Regs -> Word] /\ Decoded(i)
  <2>1. i \in Instructions
    BY <1>1, <1>2 DEF TraceInv, Instructions, LoopIs
  <2> QED
    BY <2>1, ProgramsAssumption, Zenon DEF WordsInv, RegsInv, SpecialRegisters, SPRs
<1>4. NIA = Low(CIA + 4)
  BY Zenon DEF NIA
<1>5. 4 \in Word /\ 8 \in Word /\ 12 \in Word
  <2>1. 4 <= Top /\ 8 <= Top /\ 12 <= Top
    BY SMT DEF Top
  <2> QED
    BY <2>1, WordIs, SMT
<1>6. CASE CIA = 0
  <2>1. MoveTo(i) /\ i.SPR = "CTR" /\ i.D = 1
    BY <1>1, <1>6, ActionIs, Zenon DEF LoopIs
  <2>2. gpr' = gpr /\ CIA' = NIA /\ spr' = Updated([spr EXCEPT !["CTR"] = gpr[1]], Outcome(i, 0))
    BY <2>1, Zenon DEF MoveTo, Complete, CompleteTo
  <2>3. spr'["CTR"] = gpr[1]
    <3> DEFINE s == [spr EXCEPT !["CTR"] = gpr[1]]
    <3>1. DOMAIN s = SPRs /\ s["CTR"] = gpr[1]
      BY <1>3, Zenon DEF SPRs
    <3> HIDE DEF s
    <3> QED
      BY <2>2, <3>1, UpdatedKeeps, Zenon DEF s
  <2>4. CIA' = 4
    <3>1. 0 + 4 = 4
      BY SMT
    <3> QED
      BY <1>4, <1>5, <1>6, <2>2, <3>1, LowOfWord, Zenon
  <2>5. Low(gpr'[2] + spr'["CTR"]) = LoopGoal
    BY <1>6, <2>2, <2>3, Zenon DEF LoopInv, LoopGoal
  <2>6. CIA' # 0 /\ CIA' # 8 /\ CIA' # 12
    BY <2>4
  <2> QED
    BY <1>2, <2>4, <2>5, <2>6, Zenon DEF LoopInv
<1>7. CASE CIA = 4
  <2>1. Arithmetic(i) /\ i.op = "addi" /\ i.D = 2 /\ i.A = 2 /\ i.SIMM = 1
    BY <1>1, <1>7, ActionIs, Zenon DEF LoopIs
  <2>2. 2 \in Regs
    BY Zenon DEF LoopIs
  <2>3. gpr[2] \in Int
    BY <1>3, <2>2, WordIs, Zenon
  <2>4. ArithmeticOutcome(i) = Outcome(i, Low(gpr[2] + 1))
    <3>1. 2 # 0
      OBVIOUS
    <3>2. ArithmeticOutcome(i) = addi(i)
      BY <2>1, Zenon DEF ArithmeticOutcome
    <3> QED
      BY <2>1, <3>1, <3>2, ExtendedImmediates, Zenon DEF addi, GRorZero
  <2>5. gpr'[2] = Low(gpr[2] + 1)
    <3>1. ArithmeticOutcome(i).ac = Low(gpr[2] + 1)
      BY <2>4 DEF Outcome
    <3>2. gpr' = [gpr EXCEPT ![2] = ArithmeticOutcome(i).ac]
      BY <2>1, Zenon DEF Arithmetic
    <3> QED
      BY <1>3, <2>2, <3>1, <3>2, Zenon
  <2>6. spr'["CTR"] = ctr /\ CIA' = NIA
    BY <1>3, <2>1, UpdatedKeeps, Zenon DEF Arithmetic, Complete, CompleteTo
  <2>7. CIA' = 8
    <3>1. 4 + 4 = 8
      BY SMT
    <3> QED
      BY <1>4, <1>5, <1>7, <2>6, <3>1, LowOfWord, Zenon
  <2>8. Low(gpr'[2] + (spr'["CTR"] - 1)) = LoopGoal
    <3> DEFINE g == gpr[2]
               c == ctr
    <3>1. g \in Int /\ c \in Int
      BY <1>3, <2>3, WordIs, Zenon
    <3>2. Low(g + c) = LoopGoal
      BY <1>2, <1>7, Zenon DEF LoopInv
    <3> HIDE DEF g, c
    <3>3. g + 1 \in Int /\ c - 1 \in Int /\ g + 1 + (c - 1) = g + c
      BY <3>1, SMT
    <3>4. Low(Low(g + 1) + (c - 1)) = Low(g + 1 + (c - 1))
      BY <3>3, LowSums, Zenon
    <3> QED
      BY <2>5, <2>6, <3>2, <3>3, <3>4, Zenon DEF g, c
  <2>9. CIA' # 0 /\ CIA' # 4 /\ CIA' # 12
    BY <2>7
  <2> QED
    BY <1>2, <2>7, <2>8, <2>9, Zenon DEF LoopInv
<1>8. CASE CIA = 8
  <2>1. /\ BranchConditional(i) /\ gpr' = gpr
        /\ 16 \in i.BO /\ 4 \notin i.BO /\ 2 \notin i.BO
        /\ i.AA = FALSE /\ i.LI = 2 ^ (2 * BYTE) - 4
    BY <1>1, <1>8, ActionIs, Zenon DEF LoopIs
  <2> DEFINE t == IF i.LK THEN Linked(spr) ELSE spr
             s == Counted(t, i.BO)
  <2>2. DOMAIN t = SPRs /\ t["CTR"] = ctr
    BY <1>3, Zenon DEF Linked, SPRs
  <2> HIDE DEF t
  <2>3. DOMAIN s = SPRs /\ s["CTR"] = Low(ctr - 1)
    BY <2>1, <2>2, Zenon DEF Counted, SPRs
  <2>4. CtrOk(s, i.BO) /\ CondOk(s, i.BO, i.BI) <=> s["CTR"] # 0
    BY <2>1 DEF CtrOk, CondOk
  <2>5. /\ spr' = Updated(s, Outcome(i, 0))
        /\ CIA' = IF CtrOk(s, i.BO) /\ CondOk(s, i.BO, i.BI)
                  THEN Low(CIA + EXTS(i.LI)) ELSE NIA
    BY <2>1, Zenon DEF BranchConditional, CompleteTo, t
  <2> HIDE DEF s
  <2>6. spr'["CTR"] = Low(ctr - 1)
    BY <2>3, <2>5, UpdatedKeeps, Zenon
  <2>7. CIA' = IF Low(ctr - 1) # 0 THEN 4 ELSE 12
    <3>1. Low(8 + 4) = 12
      <4>1. 8 + 4 = 12
        BY SMT
      <4> QED
        BY <1>5, <4>1, LowOfWord, Zenon
    <3>2. Low(8 + (Top - 3)) = 4
      <4>1. (8 + (Top - 3)) % (Top + 1) = 4
        BY SMT DEF Top
      <4> QED
        BY <4>1, LowIs, Zenon
    <3> QED
      BY <1>4, <1>8, <2>1, <2>3, <2>4, <2>5, <3>1, <3>2, ExtendedImmediates, Zenon
  <2> DEFINE g == gpr[2]
             c == Low(ctr - 1)
  <2>8. g \in Int /\ g \in Word /\ ctr \in Int /\ ctr - 1 \in Int
    <3>1. 2 \in Regs
      BY Zenon DEF LoopIs
    <3>2. g \in Int /\ g \in Word /\ ctr \in Int
      BY <1>3, <3>1, WordIs, Zenon
    <3> HIDE DEF ctr
    <3> QED
      BY <3>2, SMT
  <2>9. Low(g + (ctr - 1)) = LoopGoal
    BY <1>8, Zenon DEF LoopInv
  <2>10. Low(g + c) = LoopGoal
    <3> DEFINE k == ctr - 1
    <3>1. k \in Int /\ k + g = g + k /\ c \in Int /\ c + g = g + c
      <4>1. c \in Word
        BY <2>8, LowIsWord, Zenon
      <4>2. c \in Int
        BY <4>1, WordIs, Zenon
      <4> HIDE DEF c, g, ctr
      <4> QED
        BY <2>8, <4>2, SMT
    <3>2. Low(g + k) = LoopGoal
      BY <2>9, Zenon
    <3> HIDE DEF g, k
    <3>3. Low(Low(k) + g) = Low(k + g)
      BY <2>8, <3>1, LowSums, Zenon
    <3> QED
      BY <3>1, <3>2, <3>3, Zenon DEF k
  <2>11. CASE c # 0
    <3>1. CIA' = 4 /\ CIA' # 0 /\ CIA' # 8 /\ CIA' # 12
      BY <2>7, <2>11
    <3>2. Low(gpr'[2] + spr'["CTR"]) = LoopGoal
      BY <2>1, <2>6, <2>10, Zenon
    <3> QED
      BY <1>2, <3>1, <3>2, Zenon DEF LoopInv
  <2>12. CASE c = 0
    <3>1. CIA' = 12 /\ CIA' # 0 /\ CIA' # 4 /\ CIA' # 8
      BY <2>7, <2>12
    <3>2. gpr'[2] = LoopGoal /\ spr'["CTR"] = 0
      <4>1. g + 0 = g
        BY <2>8, SMT
      <4>2. Low(g) = g
        BY <2>8, LowOfWord, Zenon
      <4> QED
        BY <2>1, <2>6, <2>10, <2>12, <4>1, <4>2, Zenon
    <3> QED
      BY <1>2, <3>1, <3>2, Zenon DEF LoopInv
  <2> QED
    BY <2>11, <2>12, Zenon
<1> QED
  BY <1>2, <1>6, <1>7, <1>8, Zenon

\* At the width of the code, a bdnz loop entered with n in CTR runs n times,
\* and 2^32 times for 0: CTR is compared after it has wrapped below zero.
THEOREM LoopTheorem ==
  ASSUME BYTE = 8, LoopIs(Programs["loop"])
  PROVE  Spec => []LoopRunsCtrTimes
<1>1. Init => LoopInv
  <2>1. 0 \in {0, 4, 8, 12} /\ 0 # 4 /\ 0 # 8 /\ 0 # 12
    OBVIOUS
  <2> QED
    BY <2>1, Zenon DEF Init, LoopInv
<1>2. TraceInv /\ WordsInv /\ LoopInv /\ [Next]_vars => LoopInv'
  <2> SUFFICES ASSUME TraceInv, WordsInv, LoopInv, [Next]_vars  PROVE LoopInv'
    OBVIOUS
  <2>1. CASE UNCHANGED vars
    BY <2>1, Zenon DEF vars, LoopInv, LoopGoal
  <2>2. CASE Next /\ prog = "loop"
    BY <2>2, LoopStep, Zenon
  <2>3. CASE Next /\ prog # "loop"
    BY <2>3, Zenon DEF Next, Step, LoopInv
  <2> QED
    BY <2>1, <2>2, <2>3, Zenon
<1>3. LoopInv => LoopRunsCtrTimes
  BY Zenon DEF LoopInv, LoopRunsCtrTimes, Ended, LoopIs, LoopGoal
<1> QED
  BY <1>1, <1>2, <1>3, TraceTheorem, WordsTheorem, PTL DEF Spec

-----------------------------------------------------------------------------
(* Carries.                                                                *)

\* adde r0,r0,r2; adde r1,r1,r3
WideIs(P) ==
  /\ DOMAIN P = {0, 4}
  /\ \A i \in P[0] : i.op = "adde" /\ i.D = 0 /\ i.A = 0 /\ i.B = 2
  /\ \A i \in P[4] : i.op = "adde" /\ i.D = 1 /\ i.A = 1 /\ i.B = 3

\* CA is read back as it was recorded.
LEMMA CarryRecorded ==
  ASSUME BYTE = 8, NEW s, SpecialRegisters(s), NEW o, o.setCA = TRUE, o.vrc = FALSE,
         o.ca \in 0 .. 1
  PROVE  XER_CA(Updated(s, o)) = o.ca
<1> DEFINE s1 == IF o.rc    THEN CR_put(s, 0, Recorded(o.ac, s)) ELSE s
           s2 == IF o.vrc   THEN CR_put(s1, CR6, o.ac) ELSE s1
           s3 == IF o.sat   THEN [s2 EXCEPT !["VSCR"] = OrW(@, 1)] ELSE s2
           s4 == IF o.oe    THEN XER_setOV(s3, o.ov) ELSE s3
           b == BitsOf(s4["XER"])
           y == IF o.ca = 1 THEN b \cup {2} ELSE b \ {2}
<1>1. "XER" \in DOMAIN s4
  <2>1. "XER" \in DOMAIN s1
    BY Zenon DEF CR_put, SpecialRegisters, SPRs
  <2> HIDE DEF s1
  <2>2. "XER" \in DOMAIN s2
    BY <2>1, Zenon DEF CR_put
  <2> HIDE DEF s2
  <2>3. "XER" \in DOMAIN s3
    BY <2>2, Zenon
  <2> HIDE DEF s3
  <2> QED
    BY <2>3, Zenon DEF XER_setOV
<1>2. Updated(s, o) = XER_setCA(s4, o.ca)
  BY Zenon DEF Updated
<1> HIDE DEF s4
<1>3. XER_setCA(s4, o.ca)["XER"] = FromBits(y)
  BY <1>1, Zenon DEF XER_setCA
<1>4. y \in SUBSET (0 .. 31) /\ (2 \in y <=> o.ca = 1)
  <2>1. b \in SUBSET (0 .. 31) /\ 2 \in 0 .. 31
    BY BitsIn, SMT
  <2> QED
    BY <2>1, Zenon
<1> HIDE DEF y
<1>5. BitsOf(FromBits(y)) = y
  BY <1>4, BitsFacts, Zenon
<1>6. XER_CA(Updated(s, o)) = IF o.ca = 1 THEN 1 ELSE 0
  BY <1>2, <1>3, <1>4, <1>5, Zenon DEF XER_CA, Bit
<1>7. o.ca = 0 \/ o.ca = 1
  BY SMT
<1> QED
  BY <1>6, <1>7, Zenon

\* The low word of a sum and the carry are the sum.
LEMMA CarryIs ==
  ASSUME BYTE = 8, NEW l \in Int, 0 <= l, l <= Top + 1 + Top
  PROVE  Low(l) + CarryOut(l) * (Top + 1) = l /\ CarryOut(l) \in 0 .. 1
<1>1. CASE l <= Top
  <2>1. l \in Word
    BY <1>1, WordIs, Zenon
  <2>2. CarryOut(l) = 0 /\ Low(l) = l
    BY <2>1, LowOfWord, Zenon DEF CarryOut
  <2> QED
    BY <2>2, TopIs, SMT
<1>2. CASE ~ l <= Top
  <2>1. CarryOut(l) = 1
    BY <1>2, WordIs, Zenon DEF CarryOut
  <2>2. l % (Top + 1) = l - (Top + 1)
    BY <1>2, SMT DEF Top
  <2>3. Low(l) = l - (Top + 1)
    BY <2>2, LowIs, Zenon
  <2> QED
    BY <2>1, <2>3, TopIs, SMT
<1> QED
  BY <1>1, <1>2, Zenon

\* One adde.
LEMMA Adds ==
  ASSUME BYTE = 8, RegsInv, NEW i, Decoded(i), i.op = "adde", Arithmetic(i)
  PROVE  /\ gpr'[i.D] + XER_CA(spr') * (Top + 1) = gpr[i.A] + gpr[i.B] + XER_CA(spr)
         /\ \A r \in Regs \ {i.D} : gpr'[r] = gpr[r]
         /\ CIA' = Low(CIA + 4)
<1> DEFINE a == gpr[i.A]
           b == gpr[i.B]
           c == XER_CA(spr)
           o == ArithmeticOutcome(i)
           l == a + b + c
<1>1. i.D \in Regs /\ gpr \in [Regs -> Word] /\ a \in Word /\ b \in Word
  BY Zenon DEF Decoded, RegisterOps, ArithmeticOps, RegsInv
<1>2. c \in 0 .. 1
  BY CAIs, Zenon
<1>3. l \in Int /\ 0 <= l /\ l <= Top + 1 + Top
  <2>1. a \in Int /\ 0 <= a /\ a <= Top /\ b \in Int /\ 0 <= b /\ b <= Top
    BY <1>1, WordIs, Zenon
  <2> HIDE DEF a, b, c
  <2> QED
    BY <1>2, <2>1, TopIs, SMT
<1>4. o = Sum(i, l, Sign(a) + Sign(b), TRUE)
  BY Zenon DEF ArithmeticOutcome, adde
<1>5. gpr' = [gpr EXCEPT ![i.D] = o.ac] /\ spr' = Updated(spr, o) /\ CIA' = Low(CIA + 4)
  BY Zenon DEF Arithmetic, Complete, CompleteTo, NIA
<1> HIDE DEF o, a, b, c, l
<1>6. o.ac = Low(l) /\ o.ca = CarryOut(l) /\ o.setCA = TRUE /\ o.vrc = FALSE
  BY <1>4, Zenon DEF Sum, Outcome
<1>7. Low(l) + CarryOut(l) * (Top + 1) = l /\ CarryOut(l) \in 0 .. 1
  BY <1>3, CarryIs, Zenon
<1>8. XER_CA(spr') = CarryOut(l)
  <2>1. XER_CA(Updated(spr, o)) = o.ca
    BY <1>6, <1>7, CarryRecorded, Zenon DEF RegsInv
  <2> QED
    BY <1>5, <1>6, <2>1, Zenon
<1>9. gpr'[i.D] = Low(l) /\ \A r \in Regs \ {i.D} : gpr'[r] = gpr[r]
  BY <1>1, <1>5, <1>6, Zenon
<1> QED
  BY <1>5, <1>7, <1>8, <1>9, Zenon DEF l, a, b, c

\* The inductive invariant: the carry between the words.
EntryInv == prog \in DOMAIN Starts /\ entry \in Starts[prog]

WideInv ==
  prog = "wide" =>
    LET e == entry.gpr
        c == XER_CA(entry.spr)
        M == Top + 1
    IN  /\ CIA \in {0, 4, 8}
        /\ CIA = 0 => gpr = e /\ spr = entry.spr
        /\ CIA = 4 => /\ gpr[0] + XER_CA(spr) * M = e[0] + e[2] + c
                      /\ gpr[1] = e[1] /\ gpr[3] = e[3]
        /\ CIA = 8 => \E k \in 0 .. 1 :
                        /\ gpr[0] + k * M = e[0] + e[2] + c
                        /\ gpr[1] + XER_CA(spr) * M = e[1] + e[3] + k

\* Nothing changes what a program was entered with.
LEMMA EntryStep == EntryInv /\ [Next]_vars => EntryInv'
BY DEF EntryInv, Next, Step, vars

\* Every instruction of the wide sum keeps its invariant.
LEMMA WideStep ==
  ASSUME BYTE = 8, NREG > 3, WideIs(Programs["wide"]), TraceInv, WordsInv, WideInv,
         prog = "wide", Next
  PROVE  WideInv'
<1> DEFINE P == Programs["wide"]
           e == entry.gpr
           M == Top + 1
<1>1. PICK i \in P[CIA], junk \in Junk : Step(i, junk)
  BY Zenon DEF Next
<1>2. CIA \in {0, 4} /\ prog' = prog /\ entry' = entry
  BY <1>1, Zenon DEF Next, Running, WideIs, Step
<1>3. Decoded(i) /\ RegsInv
  <2>1. i \in Instructions
    BY <1>1, <1>2 DEF TraceInv, Instructions, WideIs
  <2> QED
    BY <2>1, ProgramsAssumption, Zenon DEF WordsInv
<1>4. i.op = "adde" /\ Arithmetic(i)
  BY <1>1, <1>2, ActionIs, Zenon DEF WideIs
<1>5. /\ gpr'[i.D] + XER_CA(spr') * M = gpr[i.A] + gpr[i.B] + XER_CA(spr)
      /\ \A r \in Regs \ {i.D} : gpr'[r] = gpr[r]
      /\ CIA' = Low(CIA + 4)
  BY <1>3, <1>4, Adds, Zenon
<1>6. 0 \in Regs /\ 1 \in Regs /\ 3 \in Regs
  BY ProcessorAssumption, SMT DEF Regs
<1>7. 0 + 4 = 4 /\ 4 + 4 = 8 /\ Low(4) = 4 /\ Low(8) = 8
  <2>1. 4 <= Top /\ 8 <= Top /\ 0 <= 4 /\ 0 <= 8
    BY SMT DEF Top
  <2>2. 4 \in Int /\ 8 \in Int /\ 0 + 4 = 4 /\ 4 + 4 = 8
    OBVIOUS
  <2>3. 4 \in Word /\ 8 \in Word
    BY <2>1, <2>2, WordIs, Zenon
  <2> QED
    BY <2>2, <2>3, LowOfWord, Zenon
<1>8. CASE CIA = 0
  <2>1. i.D = 0 /\ i.A = 0 /\ i.B = 2
    BY <1>1, <1>8, Zenon DEF WideIs
  <2>2. CIA' = 4 /\ CIA' # 0 /\ CIA' # 8
    <3>1. CIA' = 4
      BY <1>5, <1>7, <1>8, Zenon
    <3> QED
      BY <3>1
  <2>3. gpr = e /\ spr = entry.spr
    BY <1>8, Zenon DEF WideInv
  <2>4. gpr'[1] = e[1] /\ gpr'[3] = e[3]
    <3>1. 1 \in Regs \ {0} /\ 3 \in Regs \ {0}
      BY <1>6
    <3> QED
      BY <1>5, <2>1, <2>3, <3>1, Zenon
  <2>5. gpr'[0] + XER_CA(spr') * M = e[0] + e[2] + XER_CA(entry.spr)
    BY <1>5, <2>1, <2>3, Zenon
  <2> QED
    BY <1>2, <2>2, <2>4, <2>5, Zenon DEF WideInv
<1>9. CASE CIA = 4
  <2>1. i.D = 1 /\ i.A = 1 /\ i.B = 3
    BY <1>1, <1>9, Zenon DEF WideIs
  <2>2. CIA' = 8 /\ CIA' # 0 /\ CIA' # 4
    <3>1. CIA' = 8
      BY <1>5, <1>7, <1>9, Zenon
    <3> QED
      BY <3>1
  <2>3. /\ gpr[0] + XER_CA(spr) * M = e[0] + e[2] + XER_CA(entry.spr)
        /\ gpr[1] = e[1] /\ gpr[3] = e[3]
    BY <1>9, Zenon DEF WideInv
  <2>4. gpr'[0] = gpr[0]
    <3>1. 0 \in Regs \ {1}
      BY <1>6
    <3> QED
      BY <1>5, <2>1, <3>1, Zenon
  <2>5. gpr'[1] + XER_CA(spr') * M = e[1] + e[3] + XER_CA(spr)
    BY <1>5, <2>1, <2>3, Zenon
  <2>6. XER_CA(spr) \in 0 .. 1
    BY CAIs, Zenon
  <2> QED
    BY <1>2, <2>2, <2>3, <2>4, <2>5, <2>6, Zenon DEF WideInv
<1> QED
  BY <1>2, <1>8, <1>9, Zenon

\* At the width of the code, two adde in a row add pairs of registers: the
\* carry of the lower words is that of the upper ones' sum.
THEOREM WideTheorem ==
  ASSUME BYTE = 8, NREG > 3, WideIs(Programs["wide"])
  PROVE  Spec => []WideSumIsExact
<1>1. Init => WideInv /\ EntryInv
  <2>1. 0 \in {0, 4, 8} /\ 0 # 4 /\ 0 # 8
    OBVIOUS
  <2> QED
    BY <2>1, ProgramsAssumption, Zenon DEF Init, WideInv, EntryInv
<1>2. TraceInv /\ WordsInv /\ WideInv /\ [Next]_vars => WideInv'
  <2> SUFFICES ASSUME TraceInv, WordsInv, WideInv, [Next]_vars  PROVE WideInv'
    OBVIOUS
  <2>1. CASE UNCHANGED vars
    BY <2>1, Zenon DEF vars, WideInv
  <2>2. CASE Next /\ prog = "wide"
    BY <2>2, WideStep, Zenon
  <2>3. CASE Next /\ prog # "wide"
    BY <2>3, Zenon DEF Next, Step, WideInv
  <2> QED
    BY <2>1, <2>2, <2>3, Zenon
<1>3. EntryInv /\ WordsInv /\ WideInv => WideSumIsExact
  <2> SUFFICES ASSUME EntryInv, WordsInv, WideInv, prog = "wide", Ended
               PROVE  LET M == 2 ^ WBITS
                          e == entry.gpr
                      IN  gpr[1] * M + gpr[0] + XER_CA(spr) * M * M
                            = (e[1] * M + e[0]) + (e[3] * M + e[2]) + XER_CA(entry.spr)
    BY Zenon DEF WideSumIsExact
  <2> DEFINE M == Top + 1
             g0 == gpr[0]
             g1 == gpr[1]
             d == XER_CA(spr)
             e0 == entry.gpr[0]
             e1 == entry.gpr[1]
             e2 == entry.gpr[2]
             e3 == entry.gpr[3]
             c == XER_CA(entry.spr)
  <2>1. CIA = 8
    BY Zenon DEF WideInv, Ended, WideIs
  <2>2. PICK k \in 0 .. 1 : g0 + k * M = e0 + e2 + c /\ g1 + d * M = e1 + e3 + k
    BY <2>1, Zenon DEF WideInv
  <2>3. /\ g0 \in Int /\ g1 \in Int /\ e0 \in Int /\ e1 \in Int /\ e2 \in Int /\ e3 \in Int
        /\ M \in Int /\ c \in 0 .. 1 /\ d \in 0 .. 1
    <3>1. 0 \in Regs /\ 1 \in Regs /\ 2 \in Regs /\ 3 \in Regs
      BY ProcessorAssumption, SMT DEF Regs
    <3>2. gpr \in [Regs -> Word] /\ entry.gpr \in [Regs -> Word]
      BY ProgramsAssumption, Zenon DEF WordsInv, RegsInv, EntryInv
    <3>3. \A r \in Regs : gpr[r] \in Int /\ entry.gpr[r] \in Int
      BY <3>2, WordIs, Zenon
    <3>4. M \in Int
      BY TopIs, SMT
    <3> QED
      BY <3>1, <3>3, <3>4, CAIs, Zenon
  <2> HIDE DEF M, g0, g1, d, e0, e1, e2, e3, c
  <2>4. g1 * M + g0 + d * M * M = (e1 * M + e0) + (e3 * M + e2) + c
    <3>1. g1 * M + d * M * M = e1 * M + e3 * M + k * M
      <4>1. (g1 + d * M) * M = (e1 + e3 + k) * M
        BY <2>2, Zenon
      <4> QED
        BY <2>3, <4>1, SMT
    <3> QED
      BY <2>2, <2>3, <3>1, SMT
  <2>5. M = 2 ^ WBITS
    BY Widths, Zenon DEF M
  <2> QED
    BY <2>4, <2>5, Zenon DEF g0, g1, d, e0, e1, e2, e3, c
<1> QED
  BY <1>1, <1>2, <1>3, EntryStep, TraceTheorem, WordsTheorem, PTL DEF Spec

-----------------------------------------------------------------------------
(* Reservations.                                                           *)

\* lwarx r2,0,r1; addi r2,r2,n; stwcx. twice, to whatever address.
LockIs(P) ==
  /\ DOMAIN P = {0, 4, 8, 12}
  /\ \A i \in P[0] : i.op = "lwarx" /\ i.x = TRUE /\ i.u = FALSE /\ i.A = 0 /\ i.B = 1
  /\ \A i \in P[4] : i.op = "addi"
  /\ \A i \in P[8] \cup P[12] : i.op = "stwcx."

\* The inductive invariant: nothing is reserved between the stores.
Around ==
  \A k \in 0 .. MEM - 1 : mem[k] # entry.mem[k] => k \in entry.gpr[1] .. entry.gpr[1] + 3

LockInv ==
  prog = "lock" =>
    /\ CIA \in {0, 4, 8, 12, 16}
    /\ CIA = 0 => gpr = entry.gpr
    /\ CIA \in {0, 4, 8} => mem = entry.mem
    /\ CIA \in {4, 8} => rsvd_addr = entry.gpr[1]
    /\ CIA = 12 => reserve_valid = FALSE
    /\ CIA \in {12, 16} => Around
    /\ CIA = 16 => (CR_get(spr, 0) \div 2) % 2 = 0

\* A conditional store goes where the reservation is.
LEMMA StoresAround ==
  ASSUME NEW i, StoreConditional(i), rsvd_addr = entry.gpr[1], entry.gpr[1] \in Int,
         mem = entry.mem, entry' = entry
  PROVE  Around'
<1> DEFINE a == entry.gpr[1]
           w == WordBytes(gpr[i.D])
<1>1. mem' = mem \/ mem' = MemPut(a, 4, w)
  BY Zenon DEF StoreConditional
<1>2. CASE mem' = mem
  BY <1>2, Zenon DEF Around
<1>3. CASE mem' = MemPut(a, 4, w)
  <2> SUFFICES ASSUME NEW k \in 0 .. MEM - 1, mem'[k] # mem[k]
               PROVE  k \in a .. a + 3
    BY Zenon DEF Around
  <2>1. k \in MemBytes /\ k \in Int
    BY ProcessorAssumption, SMT DEF MemBytes
  <2> HIDE DEF w
  <2>2. k - a \in 0 .. 4 - 1
    BY <1>3, <2>1, Zenon DEF MemPut
  <2> HIDE DEF a
  <2>3. a \in Int
    BY Zenon DEF a
  <2> QED
    BY <2>1, <2>2, <2>3, SMT
<1> QED
  BY <1>1, <1>2, <1>3, Zenon

\* Without a reservation it stores nothing and clears EQ.
LEMMA Refused ==
  ASSUME BYTE = 8, RegsInv, NEW i, StoreConditional(i), reserve_valid = FALSE
  PROVE  mem' = mem /\ CIA' = NIA /\ (CR_get(spr', 0) \div 2) % 2 = 0
<1> DEFINE s == CR_put(spr, 0, 0 + SOBit(spr))
           o == [Outcome(i, 0) EXCEPT !.rc = FALSE, !.oe = FALSE]
<1>1. mem' = mem /\ Complete(s, o)
  BY Zenon DEF StoreConditional
<1>2. Updated(s, o) = s
  <2>1. o.rc = FALSE /\ o.vrc = FALSE /\ o.sat = FALSE /\ o.oe = FALSE /\ o.setCA = FALSE
    BY Zenon DEF Outcome
  <2> HIDE DEF s, o
  <2> QED
    BY <2>1, Zenon DEF Updated
<1>3. SOBit(spr) \in 0 .. 1 /\ 0 + SOBit(spr) \in 0 .. 15 /\ 0 + SOBit(spr) = SOBit(spr)
  <2>1. SOBit(spr) \in 0 .. 1
    BY FieldValues, Zenon
  <2> QED
    BY <2>1, SMT
<1>4. CR_get(s, 0) = SOBit(spr)
  <2>1. 0 \in Fields
    BY Widths, SMT
  <2>2. "CR" \in DOMAIN spr /\ spr["CR"] \in Word
    BY Zenon DEF RegsInv, SpecialRegisters, SPRs
  <2> QED
    BY <1>3, <2>1, <2>2, FieldFacts, Zenon
<1> HIDE DEF s, o
<1>5. spr' = s /\ CIA' = NIA
  BY <1>1, <1>2, Zenon DEF Complete, CompleteTo
<1>6. (SOBit(spr) \div 2) % 2 = 0
  BY <1>3, SMT
<1> QED
  BY <1>1, <1>4, <1>5, <1>6, Zenon

\* Every instruction of the lock keeps its invariant.
LEMMA LockStep ==
  ASSUME BYTE = 8, LockIs(Programs["lock"]), 1 \in Regs, TraceInv, WordsInv, EntryInv, LockInv,
         prog = "lock", Next
  PROVE  LockInv'
<1> DEFINE P == Programs["lock"]
<1>1. PICK i \in P[CIA], junk \in Junk : Step(i, junk)
  BY Zenon DEF Next
<1>2. CIA \in {0, 4, 8, 12} /\ prog' = prog /\ entry' = entry
  BY <1>1, Zenon DEF Next, Running, LockIs, Step
<1>3. Decoded(i) /\ RegsInv
  <2>1. i \in Instructions
    BY <1>1, <1>2 DEF TraceInv, Instructions, LockIs
  <2> QED
    BY <2>1, ProgramsAssumption, Zenon DEF WordsInv
<1>4. entry.gpr[1] \in Word /\ entry.gpr[1] \in Int
  <2>1. entry.gpr \in [Regs -> Word]
    BY ProgramsAssumption, Zenon DEF EntryInv
  <2> QED
    BY <2>1, WordIs, Zenon
<1>5. NIA = Low(CIA + 4)
  BY Zenon DEF NIA
<1>6. /\ 0 + 4 = 4 /\ 4 + 4 = 8 /\ 8 + 4 = 12 /\ 12 + 4 = 16
      /\ Low(4) = 4 /\ Low(8) = 8 /\ Low(12) = 12 /\ Low(16) = 16
  <2>1. /\ 4 \in Int /\ 0 <= 4 /\ 4 <= Top /\ 8 \in Int /\ 0 <= 8 /\ 8 <= Top
        /\ 12 \in Int /\ 0 <= 12 /\ 12 <= Top /\ 16 \in Int /\ 0 <= 16 /\ 16 <= Top
    BY SMT DEF Top
  <2>2. 0 + 4 = 4 /\ 4 + 4 = 8 /\ 8 + 4 = 12 /\ 12 + 4 = 16
    OBVIOUS
  <2>3. 4 \in Word /\ 8 \in Word /\ 12 \in Word /\ 16 \in Word
    BY <2>1, WordIs, Zenon
  <2> QED
    BY <2>2, <2>3, LowOfWord, Zenon
<1>7. CASE CIA = 0
  <2>1. LoadReserved(i) /\ i.x = TRUE /\ i.u = FALSE /\ i.A = 0 /\ i.B = 1
    BY <1>1, <1>7, ActionIs, Zenon DEF LockIs
  <2>2. gpr = entry.gpr /\ mem' = entry.mem
    BY <1>7, <2>1, Zenon DEF LockInv, LoadReserved
  <2>3. rsvd_addr' = entry.gpr[1]
    <3> DEFINE a == entry.gpr[1]
    <3>1. 0 + a = a
      BY <1>4, SMT
    <3>2. rsvd_addr' = Low(0 + a)
      BY <2>1, <2>2, Zenon DEF LoadReserved, EA, Base
    <3> QED
      BY <1>4, <3>1, <3>2, LowOfWord, Zenon
  <2>4. (CIA' = 0 /\ gpr' = gpr) \/ CIA' = 4
    <3>1. NIA = 4
      BY <1>5, <1>6, <1>7, Zenon
    <3>2. (CIA' = CIA /\ gpr' = gpr) \/ CIA' = NIA
      BY <2>1, Zenon DEF LoadReserved, Fail, Complete, CompleteTo
    <3> QED
      BY <1>7, <3>1, <3>2, Zenon
  <2>5. 0 # 4 /\ 0 # 8 /\ 0 # 12 /\ 0 # 16 /\ 4 # 12 /\ 4 # 16
    OBVIOUS
  <2> QED
    BY <1>2, <2>2, <2>3, <2>4, <2>5, Zenon DEF LockInv
<1>8. CASE CIA = 4
  <2>1. Arithmetic(i) /\ UNCHANGED <<mem, reserve_valid, rsvd_addr>>
    BY <1>1, <1>8, ActionIs, Zenon DEF LockIs
  <2>2. CIA' = 8
    BY <1>5, <1>6, <1>8, <2>1, Zenon DEF Arithmetic, Complete, CompleteTo
  <2>3. mem' = entry.mem /\ rsvd_addr' = entry.gpr[1]
    BY <1>8, <2>1, Zenon DEF LockInv
  <2>4. 8 # 0 /\ 8 # 12 /\ 8 # 16
    OBVIOUS
  <2> QED
    BY <1>2, <2>2, <2>3, <2>4, Zenon DEF LockInv
<1>9. CASE CIA = 8
  <2>1. StoreConditional(i)
    BY <1>1, <1>9, ActionIs, Zenon DEF LockIs
  <2>2. mem = entry.mem /\ rsvd_addr = entry.gpr[1]
    BY <1>9, Zenon DEF LockInv
  <2>3. \/ CIA' = 8 /\ mem' = mem /\ rsvd_addr' = rsvd_addr
        \/ CIA' = 12 /\ reserve_valid' = FALSE
    BY <1>5, <1>6, <1>9, <2>1, Zenon DEF StoreConditional, Fail, Complete, CompleteTo, GivenUp
  <2>4. Around'
    BY <1>2, <1>4, <2>1, <2>2, StoresAround, Zenon
  <2>5. 8 # 0 /\ 8 # 12 /\ 8 # 16 /\ 12 # 0 /\ 12 # 4 /\ 12 # 16
    OBVIOUS
  <2> QED
    BY <1>2, <2>2, <2>3, <2>4, <2>5, Zenon DEF LockInv
<1>10. CASE CIA = 12
  <2>1. StoreConditional(i)
    BY <1>1, <1>10, ActionIs, Zenon DEF LockIs
  <2>2. reserve_valid = FALSE /\ Around
    BY <1>10, Zenon DEF LockInv
  <2>3. mem' = mem /\ CIA' = 16 /\ (CR_get(spr', 0) \div 2) % 2 = 0
    BY <1>3, <1>5, <1>6, <1>10, <2>1, <2>2, Refused, Zenon
  <2>4. Around'
    BY <1>2, <2>2, <2>3, Zenon DEF Around
  <2>5. 16 # 0 /\ 16 # 4 /\ 16 # 8 /\ 16 # 12
    OBVIOUS
  <2> QED
    BY <1>2, <2>3, <2>4, <2>5, Zenon DEF LockInv
<1> QED
  BY <1>2, <1>7, <1>8, <1>9, <1>10, Zenon

\* At the width of the code, a reservation lets one conditional store through:
\* of two that follow a lwarx, to whatever addresses, the second finds nothing
\* reserved, and only the reserved word has changed.
THEOREM ReservationTheorem ==
  ASSUME BYTE = 8, 1 \in Regs, LockIs(Programs["lock"])
  PROVE  Spec => []ReservationUsedOnce
<1>1. Init => LockInv /\ EntryInv
  <2>1. 0 \in {0, 4, 8, 12, 16} /\ 0 # 4 /\ 0 # 8 /\ 0 # 12 /\ 0 # 16
    OBVIOUS
  <2> QED
    BY <2>1, ProgramsAssumption, Zenon DEF Init, LockInv, EntryInv
<1>2. TraceInv /\ WordsInv /\ EntryInv /\ LockInv /\ [Next]_vars => LockInv'
  <2> SUFFICES ASSUME TraceInv, WordsInv, EntryInv, LockInv, [Next]_vars  PROVE LockInv'
    OBVIOUS
  <2>1. CASE UNCHANGED vars
    BY <2>1, Zenon DEF vars, LockInv, Around, CR_get
  <2>2. CASE Next /\ prog = "lock"
    BY <2>2, LockStep, Zenon
  <2>3. CASE Next /\ prog # "lock"
    BY <2>3, Zenon DEF Next, Step, LockInv
  <2> QED
    BY <2>1, <2>2, <2>3, Zenon
<1>3. LockInv => ReservationUsedOnce
  <2> SUFFICES ASSUME LockInv, prog = "lock", Ended
               PROVE  (CR_get(spr, 0) \div 2) % 2 = 0 /\ Around
    BY Zenon DEF ReservationUsedOnce, Around
  <2>1. CIA = 16
    BY Zenon DEF LockInv, Ended, LockIs
  <2> QED
    BY <2>1, Zenon DEF LockInv
<1> QED
  BY <1>1, <1>2, <1>3, EntryStep, TraceTheorem, WordsTheorem, PTL DEF Spec

-----------------------------------------------------------------------------
(* The backtrace, at any width and of any program.                         *)

\* Programs whose calls the backtrace has room for, and in which a branch that
\* links, or takes an entry from the backtrace, goes elsewhere than to the
\* next instruction.
Shallow == Len(calls) =< BACKTRACE_MAX + 1

BranchOps == {"b", "bc", "bclr", "bcctr"}

Leaps ==
  ir'[1].op \in BranchOps /\ ret' = 0 /\ (ir'[1].LK \/ BTS' # BTS) => CIA' # NIA

\* The inductive invariant.
CallsInv == BTS = calls /\ \E S : calls \in Seq(S)

\* A longer sequence and a shorter one.
LEMMA Longer ==
  ASSUME NEW S, NEW s \in Seq(S), NEW x
  PROVE  /\ \E T : Append(s, x) \in Seq(T)
         /\ Len(Append(s, x)) = Len(s) + 1
<1> DEFINE T == S \cup {x}
<1>1. x \in T /\ S \subseteq T
  BY Zenon
<1>2. Len(s) \in Nat /\ s \in [1 .. Len(s) -> S]
  BY LenProperties, Zenon
<1>3. s \in [1 .. Len(s) -> T]
  BY <1>1, <1>2, Zenon
<1>4. s \in Seq(T)
  BY <1>2, <1>3
<1> HIDE DEF T
<1>5. Append(s, x) \in Seq(T) /\ Len(Append(s, x)) = Len(s) + 1
  BY <1>1, <1>4, AppendProperties, Zenon
<1> QED
  BY <1>5, Zenon

\* A stack that is popped is a stack.
LEMMA Shorter ==
  ASSUME NEW S, NEW s \in Seq(S), s # <<>>
  PROVE  /\ SubSeq(s, 1, Len(s) - 1) \in Seq(S)
         /\ Len(s) > 0
<1>1. Len(s) \in Nat /\ (Len(s) = 0 => s = <<>>)
  BY EmptySeq, LenProperties, Zenon
<1>2. Len(s) > 0 /\ Len(s) - 1 \in 0 .. Len(s)
  BY <1>1, SMT
<1>3. Len(s) - 1 \in 1 - 1 .. Len(s)
  BY <1>2, SMT
<1> QED
  BY <1>2, <1>3

\* Only branches call and return.
LEMMA OthersKeep ==
  ASSUME NEW i, NEW junk, Step(i, junk)
  PROVE  \/ Branches(i, junk)
         \/ i.op \notin BranchOps /\ BTS' = BTS
<1>1. ASSUME Integer(i, junk) PROVE i.op \notin BranchOps /\ BTS' = BTS
  <2>1. BTS' = BTS
    BY <1>1, Zenon DEF Integer
  <2>2. CASE i.op \in ArithmeticOps
    BY <2>1, <2>2, Zenon DEF ArithmeticOps, BranchOps
  <2>3. CASE i.op \in ImmediateLogic \cup RegisterLogic
    BY <2>1, <2>3, Zenon DEF ImmediateLogic, RegisterLogic, BranchOps
  <2>4. CASE i.op \notin ArithmeticOps /\ i.op \notin ImmediateLogic \cup RegisterLogic
    BY <1>1, <2>1, <2>4, Zenon DEF Integer, Arithmetic, Divide, Logic, Extend,
         ShiftRightAlgebraic, Rotate, Compare, Trap, MoveToCR, MoveXERToCR, MoveFrom, MoveTo,
         CacheOp, BranchOps
  <2> QED
    BY <2>2, <2>3, <2>4, Zenon
<1>2. ASSUME LoadsAndStores(i, junk) PROVE i.op \notin BranchOps /\ BTS' = BTS
  BY <1>2, Zenon DEF LoadsAndStores, Load, Store, Loads, Stores, LoadReserved,
       StoreConditional, LoadMultiple, StoreMultiple, LoadString, StoreString, BranchOps
<1>3. ASSUME Vectors(i, junk) PROVE i.op \notin BranchOps /\ BTS' = BTS
  <2>1. i.op \in VectorOps /\ BTS' = BTS
    BY <1>3, Zenon DEF Vectors, VectorLanes, VectorSaturating, MoveVSCR, VectorOps
  <2>2. i.op \in LaneOps => i.op \notin BranchOps
    <3> SUFFICES ASSUME i.op \in BranchOps  PROVE i.op \notin LaneOps
      BY Zenon
    <3> QED
      BY Zenon DEF BranchOps, LaneOps, Cases0Ops, Cases36Ops, Cases64Ops, Cases258Ops,
           Cases386Ops, Cases514Ops, Cases642Ops, Cases770Ops, Cases1024Ops, Cases1282Ops
  <2>3. BranchOps \cap SaturatingOps = {} /\ BranchOps \cap {"mfvscr", "mtvscr"} = {}
    BY Zenon DEF BranchOps, SaturatingOps
  <2> QED
    BY <2>1, <2>2, <2>3, Zenon DEF VectorOps
<1> QED
  BY <1>1, <1>2, <1>3, Zenon DEF Step

\* What a branch does to the backtrace, by whether it jumps.
LEMMA BranchPushes ==
  ASSUME NEW i, NEW junk, Branches(i, junk)
  PROVE  \/ i.op \notin BranchOps /\ BTS' = BTS
         \/ /\ i.op \in {"b", "bc"} /\ ret' = 0
            /\ BTS' = IF i.LK THEN backtrace_add(BTS, CIA) ELSE BTS
         \/ i.op \in {"bclr", "bcctr"} /\ ret' = 0 /\ BTS' = BTS /\ CIA' = NIA
         \/ /\ i.op \in {"bclr", "bcctr"} /\ ret' = 0
            /\ LET popped == IF i.op = "bclr" THEN backtrace_pop(BTS) ELSE BTS
               IN  BTS' = IF i.LK THEN backtrace_add(popped, CIA) ELSE popped
<1>1. CASE BranchConditional(i) \/ Branch(i)
  BY <1>1, Zenon DEF BranchConditional, Branch, CompleteTo
<1>2. CASE BranchToRegister(i, junk)
  BY <1>2, Zenon DEF BranchToRegister, CompleteTo
<1>3. CASE ~ (BranchConditional(i) \/ Branch(i) \/ BranchToRegister(i, junk))
  BY <1>3, Zenon DEF Branches, MoveCRField, CRLogic, CROps, ReturnFromInterrupt, SystemCall,
       Synchronize, BranchOps
<1> QED
  BY <1>1, <1>2, <1>3, Zenon

\* Every step does to the backtrace what it does to the calls.
LEMMA CallsStep ==
  ASSUME TraceInv, CallsInv, Shallow', [Next]_vars, [Leaps]_vars
  PROVE  CallsInv'
<1>1. CASE UNCHANGED vars
  BY <1>1, Zenon DEF vars, CallsInv
<1>2. CASE Next /\ vars' # vars
  <2>1. PICK i \in Programs[prog][CIA], junk \in Junk : Step(i, junk)
    BY <1>2 DEF Next
  <2>2. i \in Instructions
    BY <1>2, <2>1 DEF TraceInv, Instructions, Next, Running
  <2>3. ir'[1] = i
    BY <2>1, <2>2, Newest DEF TraceInv, Step
  <2>4. i.op \in BranchOps /\ ret' = 0 /\ (i.LK \/ BTS' # BTS) => CIA' # NIA
    BY <1>2, <2>3, Zenon DEF Leaps
  <2>5. calls' = CallsAfter(i) /\ BTS = calls
    BY <2>1, Zenon DEF Step, CallsInv
  <2>6. PICK S : calls \in Seq(S)
    BY Zenon DEF CallsInv
  <2>7. BACKTRACE_MAX \in Nat /\ Len(calls') =< BACKTRACE_MAX + 1
    BY ProcessorAssumption, Zenon DEF Shallow
  <2>8. CASE i.op \notin BranchOps /\ BTS' = BTS
    <3>1. calls' = calls
      BY <2>5, <2>8, Zenon DEF CallsAfter, Returned, BranchOps
    <3> QED
      BY <2>5, <2>6, <2>8, <3>1, Zenon DEF CallsInv
  <2>9. ASSUME NEW s, s \in Seq(S), calls' = Append(s, CIA), BTS' = backtrace_add(s, CIA)
        PROVE  CallsInv'
    <3>1. Len(s) \in Nat /\ Len(Append(s, CIA)) = Len(s) + 1 /\ \E T : Append(s, CIA) \in Seq(T)
      BY <2>9, Longer, LenProperties, Zenon
    <3>2. Len(s) - 1 < BACKTRACE_MAX
      BY <2>7, <2>9, <3>1, SMT
    <3>3. BTS' = Append(s, CIA)
      BY <2>9, <3>2, Zenon DEF backtrace_add
    <3> QED
      BY <2>9, <3>1, <3>3, Zenon DEF CallsInv
  <2>10. CASE i.op \in {"b", "bc"} /\ ret' = 0
              /\ BTS' = IF i.LK THEN backtrace_add(BTS, CIA) ELSE BTS
    <3>1. Returned(i) = calls
      BY <2>10, Zenon DEF Returned
    <3>2. CASE i.LK
      <4>1. Jumped
        BY <2>4, <2>10, <3>2, Zenon DEF Jumped, BranchOps
      <4>2. calls' = Append(calls, CIA)
        BY <2>5, <2>10, <3>1, <3>2, <4>1, Zenon DEF CallsAfter
      <4> QED
        BY <2>5, <2>6, <2>9, <2>10, <3>2, <4>2, Zenon
    <3>3. CASE ~ i.LK
      <4>1. calls' = calls /\ BTS' = BTS
        BY <2>5, <2>10, <3>1, <3>3, Zenon DEF CallsAfter
      <4> QED
        BY <2>5, <2>6, <4>1, Zenon DEF CallsInv
    <3> QED
      BY <3>2, <3>3, Zenon
  <2>11. CASE i.op \in {"bclr", "bcctr"} /\ ret' = 0 /\ BTS' = BTS /\ CIA' = NIA
    <3>1. ~ Jumped
      BY <2>11, Zenon DEF Jumped
    <3>2. calls' = calls
      BY <2>5, <3>1, Zenon DEF CallsAfter, Returned
    <3> QED
      BY <2>5, <2>6, <2>11, <3>2, Zenon DEF CallsInv
  <2> DEFINE popped == IF i.op = "bclr" THEN backtrace_pop(BTS) ELSE BTS
  <2>12. CASE i.op \in {"bclr", "bcctr"} /\ ret' = 0
              /\ BTS' = IF i.LK THEN backtrace_add(popped, CIA) ELSE popped
    <3>1. popped \in Seq(S)
          /\ popped = IF i.op = "bclr" /\ calls # <<>>
                        THEN SubSeq(calls, 1, Len(calls) - 1) ELSE calls
      <4>1. CASE i.op = "bclr" /\ calls # <<>>
        BY <2>5, <2>6, <4>1, Shorter, Zenon DEF backtrace_pop
      <4>2. CASE i.op = "bclr" /\ calls = <<>>
        <5>1. ~ Len(calls) > 0
          BY <4>2
        <5> QED
          BY <2>5, <2>6, <4>2, <5>1, Zenon DEF backtrace_pop
      <4>3. CASE i.op # "bclr"
        BY <2>5, <2>6, <4>3, Zenon
      <4> QED
        BY <4>1, <4>2, <4>3, Zenon
    <3>2. CASE Jumped
      <4>1. Returned(i) = popped
        BY <3>1, <3>2, Zenon DEF Returned
      <4>2. CASE i.LK
        <5>1. calls' = Append(popped, CIA)
          BY <2>5, <2>12, <3>2, <4>1, <4>2, Zenon DEF CallsAfter
        <5> QED
          BY <2>9, <2>12, <3>1, <4>2, <5>1, Zenon
      <4>3. CASE ~ i.LK
        <5>1. calls' = popped /\ BTS' = popped
          BY <2>5, <2>12, <4>1, <4>3, Zenon DEF CallsAfter
        <5> QED
          BY <3>1, <5>1, Zenon DEF CallsInv
      <4> QED
        BY <4>2, <4>3, Zenon
    <3>3. CASE ~ Jumped
      <4>1. ~ i.LK /\ BTS' = BTS
        BY <2>4, <2>12, <3>3, Zenon DEF Jumped, BranchOps
      <4>2. calls' = calls
        BY <2>5, <3>3, Zenon DEF CallsAfter, Returned
      <4> QED
        BY <2>5, <2>6, <4>1, <4>2, Zenon DEF CallsInv
    <3> QED
      BY <3>2, <3>3, Zenon
  <2> QED
    BY <2>1, <2>8, <2>10, <2>11, <2>12, OthersKeep, BranchPushes, Zenon
<1> QED
  BY <1>1, <1>2, Zenon

\* The backtrace shows the calls that have not returned, of every program and
\* every size of the stack, as long as the calls fit and branches leap.  Where
\* they do not the code diverges: a push on a full stack is dropped, its pop is
\* not, and bc pushes before it knows whether it is taken.
THEOREM BacktraceTheorem ==
  Spec /\ []Shallow /\ [][Leaps]_vars => []BacktraceIsCallStack
<1>1. Init => CallsInv
  <2>1. <<>> \in Seq({})
    OBVIOUS
  <2> QED
    BY <2>1, Zenon DEF Init, CallsInv
<1>2. TraceInv /\ CallsInv /\ Shallow' /\ [Next]_vars /\ [Leaps]_vars => CallsInv'
  BY CallsStep
<1>3. CallsInv => BacktraceIsCallStack
  BY Zenon DEF CallsInv, BacktraceIsCallStack
<1> QED
  BY <1>1, <1>2, <1>3, TraceTheorem, PTL DEF Spec

-----------------------------------------------------------------------------
(* Saturation.                                                             *)

Saturating == {"vaddsbs", "vsubsbs", "vadduws"}

Vector == [VecBytes -> Nat]

\* Whether VSCR[SAT] is set by a word, and by the move of a vector to VSCR.
Marked(w) == w % 2 = 1
Unmarks(v) == ~ Marked(Wd(v, NB \div 4 - 1))

\* Saturating additions and subtractions in any order, and moves to VSCR of a
\* register that they leave alone and that clears VSCR[SAT].
SaturateIs(P, E) ==
  /\ 3 \in VRegs
  /\ \A x \in DOMAIN P : \A i \in P[x] :
       /\ i.op \in Saturating \cup {"mtvscr"}
       /\ i.op \in Saturating => {i.A, i.B} \subseteq VRegs /\ i.D # 3
       /\ i.op = "mtvscr" => i.B = 3
  /\ \A e \in E : /\ e.vr \in [VRegs -> Vector] /\ Unmarks(e.vr[3])
                  /\ ~ Marked(e.spr["VSCR"])

\* A vector has two words.
LEMMA LanesAre == NB = 8 /\ Wordz = 0 .. 1 /\ VecBytes = 0 .. 7
<1>1. Cardinality(0 .. 7) = 8
  <2>1. 0 \in Int /\ 7 \in Int /\ (IF 0 > 7 THEN 0 ELSE 7 - 0 + 1) = 8
    BY SMT
  <2> QED
    BY <2>1, FS_Interval, Zenon
<1>2. NB = 8
  BY <1>1, Zenon DEF NB, VecBytes
<1>3. NB \div 4 - 1 = 1
  BY <1>2, SMT
<1> QED
  BY <1>2, <1>3, Zenon DEF Wordz, VecBytes

\* What the lanes of a vector hold.
LEMMA LaneValues ==
  ASSUME BYTE = 8, NEW v \in Vector
  PROVE  /\ \A k \in VecBytes : Sb(v, k) \in Int
         /\ \A k \in Wordz : Wd(v, k) \in Nat
<1>1. ASSUME NEW k \in VecBytes PROVE Sb(v, k) \in Int
  <2>1. v[k] \in Nat
    BY Zenon DEF Vector
  <2>2. \A u : Sgn(u, BYTE) = IF u % Lowest >= 2 ^ (BYTE - 1) THEN (u % Lowest) - Lowest
                              ELSE u % Lowest
    BY Parts, Zenon DEF Sgn
  <2>3. v[k] % Lowest \in Int /\ (v[k] % Lowest) - Lowest \in Int
    BY <2>1, SMT DEF Lowest
  <2> QED
    BY <2>2, <2>3, Zenon DEF Sb
<1>2. ASSUME NEW k \in Wordz PROVE Wd(v, k) \in Nat
  <2>1. 2 * k \in 0 .. 3 /\ 2 * k + 1 \in 0 .. 3
    BY LanesAre, SMT
  <2>2. ASSUME NEW h \in 0 .. 3 PROVE Hf(v, h) \in Nat
    <3>1. 2 * h \in VecBytes /\ 2 * h + 1 \in VecBytes
      BY SMT DEF VecBytes
    <3>2. v[2 * h] \in Nat /\ v[2 * h + 1] \in Nat
      BY <3>1, Zenon DEF Vector
    <3>3. v[2 * h] + v[2 * h + 1] * Lowest \in Nat
      BY <3>2, SMT DEF Lowest
    <3> QED
      BY <3>3, Parts, Zenon DEF Hf
  <2>3. Hf(v, 2 * k) + Hf(v, 2 * k + 1) * Lower \in Nat
    BY <2>1, <2>2, SMT DEF Lower
  <2> QED
    BY <2>3, Parts, Zenon DEF Wd
<1> QED
  BY <1>1, <1>2, Zenon

\* A lane is changed by clipping exactly if it does not fit.
LEMMA ClipIs ==
  ASSUME BYTE = 8, NEW x \in Int
  PROVE  /\ Clip(x, BYTE) \in Int
         /\ x # Clip(x, BYTE) <=> ~ x \in -(2 ^ (BYTE - 1)) .. 2 ^ (BYTE - 1) - 1
<1> DEFINE h == 2 ^ (BYTE - 1)
<1>1. h = 128
  <2>1. BYTE - 1 = 7 /\ 2 ^ 7 = 128
    BY SMT
  <2> QED
    BY <2>1, Zenon
<1>2. Clip(x, BYTE) = IF x < - h THEN - h ELSE IF x > h - 1 THEN h - 1 ELSE x
  BY Zenon DEF Clip
<1> HIDE DEF h
<1> DEFINE c == IF x < - h THEN - h ELSE IF x > h - 1 THEN h - 1 ELSE x
<1>3. c \in Int /\ (x # c <=> ~ x \in -h .. h - 1)
  BY <1>1, SMT
<1> QED
  BY <1>2, <1>3, Zenon DEF h

\* Vectors put together from their lanes.
LEMMA VectorsOf ==
  ASSUME BYTE = 8
  PROVE  /\ \A x \in Int : x % 2 ^ BYTE \in Nat
         /\ \A x \in Int, k \in VecBytes : Piece(x % 2 ^ WBITS, k % 4) \in Nat
<1>1. \A x \in Int : x % Lowest \in Nat
  BY SMT DEF Lowest
<1>2. ASSUME NEW x \in Int, NEW k \in VecBytes PROVE Piece(x % 2 ^ WBITS, k % 4) \in Nat
  <2>1. Low(x) \in Int
    BY LowIsWord, WordIs, Zenon
  <2>2. k % 4 = 0 \/ k % 4 = 1 \/ k % 4 = 2 \/ k % 4 = 3
    BY SMT DEF VecBytes
  <2> DEFINE p == 2 ^ (BYTE * (k % 4))
  <2>3. p \in Nat /\ p > 0
    <3>1. BYTE * (k % 4) \in 0 .. 32
      BY <2>2, SMT
    <3> QED
      BY <3>1, PowerIs, Zenon
  <2>4. Low(x) \div p \in Int
    <3> HIDE DEF p
    <3> QED
      BY <2>1, <2>3, SMT
  <2> QED
    BY <1>1, <2>4, Parts, Zenon DEF Piece, Low
<1> QED
  BY <1>1, <1>2, Parts, Zenon

\* The saturating operations give vectors, and say whether a lane was clipped.
LEMMA SaturatedIs ==
  ASSUME BYTE = 8, NEW i, i.op \in Saturating, NEW junk,
         vr \in [VRegs -> Vector], i.A \in VRegs, i.B \in VRegs
  PROVE  /\ Saturated(i, vr[i.A], vr[i.B], vr[i.C], junk).v \in Vector
         /\ Saturated(i, vr[i.A], vr[i.B], vr[i.C], junk).sat <=> Clips(i)
<1> DEFINE a == vr[i.A]
           b == vr[i.B]
           h == 2 ^ (BYTE - 1)
<1>1. a \in Vector /\ b \in Vector
  OBVIOUS
<1>2. CASE i.op = "vaddsbs"
  <2> DEFINE x(k) == Sb(a, k) + Sb(b, k)
  <2>1. \A k \in VecBytes : x(k) \in Int
    <3>1. \A k \in VecBytes : Sb(a, k) \in Int /\ Sb(b, k) \in Int
      BY <1>1, LaneValues, Zenon
    <3> QED
      BY <3>1, SMT
  <2>2. /\ Saturated(i, a, b, vr[i.C], junk).v = [k \in VecBytes |-> Clip(x(k), BYTE) % 2 ^ BYTE]
        /\ Saturated(i, a, b, vr[i.C], junk).sat <=> \E k \in VecBytes : x(k) # Clip(x(k), BYTE)
    BY <1>2, Zenon DEF Saturated, vaddsbs, OfB
  <2>3. Clips(i) <=> \E k \in VecBytes : ~ x(k) \in - h .. h - 1
    BY <1>2, Zenon DEF Clips
  <2> HIDE DEF x, a, b
  <2>4. \A k \in VecBytes : /\ Clip(x(k), BYTE) % 2 ^ BYTE \in Nat
                            /\ x(k) # Clip(x(k), BYTE) <=> ~ x(k) \in - h .. h - 1
    BY <2>1, ClipIs, VectorsOf, Zenon
  <2>5. [k \in VecBytes |-> Clip(x(k), BYTE) % 2 ^ BYTE] \in Vector
    BY <2>4, Zenon DEF Vector
  <2> QED
    BY <2>2, <2>3, <2>4, <2>5, Zenon DEF a, b
<1>3. CASE i.op = "vsubsbs"
  <2> DEFINE x(k) == Sb(a, k) - Sb(b, k)
  <2>1. \A k \in VecBytes : x(k) \in Int
    <3>1. \A k \in VecBytes : Sb(a, k) \in Int /\ Sb(b, k) \in Int
      BY <1>1, LaneValues, Zenon
    <3> QED
      BY <3>1, SMT
  <2>2. /\ Saturated(i, a, b, vr[i.C], junk).v = [k \in VecBytes |-> Clip(x(k), BYTE) % 2 ^ BYTE]
        /\ Saturated(i, a, b, vr[i.C], junk).sat <=> \E k \in VecBytes : x(k) # Clip(x(k), BYTE)
    BY <1>3, Zenon DEF Saturated, vsubsbs, OfB
  <2>3. Clips(i) <=> \E k \in VecBytes : ~ x(k) \in - h .. h - 1
    BY <1>3, Zenon DEF Clips
  <2> HIDE DEF x, a, b
  <2>4. \A k \in VecBytes : /\ Clip(x(k), BYTE) % 2 ^ BYTE \in Nat
                            /\ x(k) # Clip(x(k), BYTE) <=> ~ x(k) \in - h .. h - 1
    BY <2>1, ClipIs, VectorsOf, Zenon
  <2>5. [k \in VecBytes |-> Clip(x(k), BYTE) % 2 ^ BYTE] \in Vector
    BY <2>4, Zenon DEF Vector
  <2> QED
    BY <2>2, <2>3, <2>4, <2>5, Zenon DEF a, b
<1>4. CASE i.op = "vadduws"
  <2> DEFINE x(k) == Wd(a, k) + Wd(b, k)
             u(k) == UISat(x(k), WBITS)
  <2>1. \A k \in Wordz : x(k) \in Nat
    <3>1. \A k \in Wordz : Wd(a, k) \in Nat /\ Wd(b, k) \in Nat
      BY <1>1, LaneValues, Zenon
    <3> QED
      BY <3>1, SMT
  <2>2. /\ Saturated(i, a, b, vr[i.C], junk).v
             = [k \in VecBytes |-> Piece(u(k \div 4) % 2 ^ WBITS, k % 4)]
        /\ Saturated(i, a, b, vr[i.C], junk).sat <=> \E k \in Wordz : x(k) \notin Word
    BY <1>4, Zenon DEF Saturated, vadduws, OfW
  <2>3. Clips(i) <=> \E k \in Wordz : x(k) >= 2 ^ WBITS
    BY <1>4, Zenon DEF Clips
  <2> HIDE DEF x, a, b
  <2>4. \A k \in Wordz : u(k) \in Int
    <3> DEFINE p == 2 ^ WBITS
    <3>1. ASSUME NEW y PROVE UISat(y, WBITS) = y \/ UISat(y, WBITS) = p - 1
      <4>1. UISat(y, WBITS) = IF y \in 0 .. p - 1 THEN y ELSE p - 1
        BY Zenon DEF UISat
      <4> HIDE DEF p
      <4>2. CASE y \in 0 .. p - 1
        BY <4>1, <4>2, Zenon
      <4>3. CASE y \notin 0 .. p - 1
        BY <4>1, <4>3, Zenon
      <4> QED
        BY <4>2, <4>3, Zenon
    <3>2. p = Top + 1
      BY Widths, Zenon
    <3> HIDE DEF p
    <3>3. p - 1 \in Int /\ \A k \in Wordz : x(k) \in Int
      BY <2>1, <3>2, TopIs, SMT
    <3> QED
      BY <3>1, <3>3, Zenon
  <2> HIDE DEF u
  <2>5. \A k \in VecBytes : k \div 4 \in Wordz
    BY LanesAre, SMT
  <2>6. [k \in VecBytes |-> Piece(u(k \div 4) % 2 ^ WBITS, k % 4)] \in Vector
    BY <2>4, <2>5, VectorsOf, Zenon DEF Vector
  <2>7. \A k \in Wordz : x(k) \notin Word <=> x(k) >= 2 ^ WBITS
    <3>1. ASSUME NEW k \in Wordz PROVE x(k) <= Top <=> ~ x(k) >= Top + 1
      BY <2>1, TopIs, SMT
    <3>2. ASSUME NEW k \in Wordz PROVE x(k) \in Int /\ 0 <= x(k)
      BY <2>1, SMT
    <3> QED
      BY <3>1, <3>2, WordIs, Widths, Zenon
  <2> QED
    BY <2>2, <2>3, <2>6, <2>7, Zenon DEF a, b
<1> QED
  BY <1>2, <1>3, <1>4, Zenon DEF Saturating

\* The last bit of a word with it set, and its place at the end of an
\* instruction.
LEMMA SaturationRecorded ==
  ASSUME BYTE = 8, NEW s, DOMAIN s = SPRs, NEW o, o.vrc = FALSE
  PROVE  Marked(Updated(s, o)["VSCR"]) <=> o.sat \/ Marked(s["VSCR"])
<1> DEFINE s1 == IF o.rc    THEN CR_put(s, 0, Recorded(o.ac, s)) ELSE s
           s2 == IF o.vrc   THEN CR_put(s1, CR6, o.ac) ELSE s1
           s3 == IF o.sat   THEN [s2 EXCEPT !["VSCR"] = OrW(@, 1)] ELSE s2
           s4 == IF o.oe    THEN XER_setOV(s3, o.ov) ELSE s3
           w == s["VSCR"]
           Kept(t, x) == DOMAIN t = SPRs /\ t["VSCR"] = x
<1>1. Kept(s1, w)
  BY Zenon DEF CR_put, SPRs
<1> HIDE DEF s1
<1>2. Kept(s2, w)
  BY <1>1, Zenon
<1> HIDE DEF s2
<1>3. Kept(s3, IF o.sat THEN OrW(w, 1) ELSE w)
  BY <1>2, Zenon DEF SPRs
<1> HIDE DEF s3
<1>4. Kept(s4, IF o.sat THEN OrW(w, 1) ELSE w)
  BY <1>3, Zenon DEF XER_setOV, SPRs
<1> HIDE DEF s4
<1>5. Updated(s, o)["VSCR"] = IF o.sat THEN OrW(w, 1) ELSE w
  <2>1. Kept(IF o.setCA THEN XER_setCA(s4, o.ca) ELSE s4, IF o.sat THEN OrW(w, 1) ELSE w)
    BY <1>4, Zenon DEF XER_setCA, SPRs
  <2> QED
    BY <2>1, Zenon DEF Updated, s4, s3, s2, s1
<1>6. Marked(OrW(w, 1))
  <2>1. WBITS - 1 - 31 = 0 /\ 2 ^ 0 = 1 /\ 31 \in 0 .. 31 /\ 31 \in 0 .. WBITS - 1
    BY Widths, SMT
  <2>2. \A x : 31 \in BitsOf(x) <=> (x \div 1) % 2 = 1
    BY <2>1, Zenon DEF BitsOf
  <2>3. (1 \div 1) % 2 = 1
    BY SMT
  <2>4. 31 \in BitsOf(w) \cup BitsOf(1)
    BY <2>2, <2>3, Zenon
  <2>5. BitsOf(w) \cup BitsOf(1) \in SUBSET (0 .. 31)
    BY BitsIn, Zenon
  <2>6. 31 \in BitsOf(OrW(w, 1)) /\ OrW(w, 1) \in Word
    BY <2>4, <2>5, BitsFacts, Zenon DEF OrW
  <2>7. (OrW(w, 1) \div 1) % 2 = 1 /\ OrW(w, 1) \in Int
    BY <2>2, <2>6, WordIs, Zenon
  <2>8. \A x \in Int : x \div 1 = x
    BY SMT
  <2> QED
    BY <2>7, <2>8, Zenon DEF Marked
<1> QED
  BY <1>5, <1>6, Zenon

\* The vector operations of the program.
LEMMA SaturatingActions ==
  ASSUME NEW i, i.op \in Saturating \cup {"mtvscr"}, NEW junk, Step(i, junk)
  PROVE  \/ ret' = NO_AV /\ UNCHANGED <<spr, vr>>
         \/ i.op \in Saturating /\ VectorSaturating(i, junk)
         \/ i.op = "mtvscr" /\ MoveVSCR(i)
<1>1. ~ Integer(i, junk)
  <2>1. i.op \notin ArithmeticOps
    BY Zenon DEF Saturating, ArithmeticOps
  <2>2. i.op \notin ImmediateLogic \cup RegisterLogic
    BY Zenon DEF Saturating, ImmediateLogic, RegisterLogic
  <2> QED
    BY <2>1, <2>2, Zenon DEF Saturating, Integer, Arithmetic, Divide, Logic, Extend,
         ShiftRightAlgebraic, Rotate, Compare, Trap, MoveToCR, MoveXERToCR, MoveFrom, MoveTo,
         CacheOp
<1>2. ~ Branches(i, junk)
  BY Zenon DEF Saturating, Branches, BranchConditional, Branch, BranchToRegister, MoveCRField,
       CRLogic, CROps, ReturnFromInterrupt, SystemCall, Synchronize
<1>3. ~ LoadsAndStores(i, junk)
  BY Zenon DEF Saturating, LoadsAndStores, Load, Store, Loads, Stores, LoadReserved,
       StoreConditional, LoadMultiple, StoreMultiple, LoadString, StoreString
<1>4. i.op \notin LaneOps
  BY Zenon DEF Saturating, LaneOps, Cases0Ops, Cases36Ops, Cases64Ops, Cases258Ops,
       Cases386Ops, Cases514Ops, Cases642Ops, Cases770Ops, Cases1024Ops, Cases1282Ops
<1>5. Vectors(i, junk)
  BY <1>1, <1>2, <1>3, Zenon DEF Step
<1>6. VectorSaturating(i, junk) => i.op # "mtvscr"
  BY Zenon DEF VectorSaturating, SaturatingOps
<1>7. MoveVSCR(i) => i.op \notin Saturating
  BY Zenon DEF MoveVSCR, Saturating
<1> QED
  BY <1>4, <1>5, <1>6, <1>7, Zenon DEF Vectors, VectorLanes, Fail

\* The inductive invariant: the registers hold vectors, and the one that is
\* moved to VSCR still clears it.
SaturateInv ==
  prog = "saturate" =>
    /\ vr \in [VRegs -> Vector] /\ Unmarks(vr[3])
    /\ clipped \in BOOLEAN
    /\ Marked(spr["VSCR"]) <=> clipped

\* Every instruction of the program keeps it.
LEMMA SaturateStep ==
  ASSUME BYTE = 8, SaturateIs(Programs["saturate"], Starts["saturate"]), WordsInv,
         SaturateInv, prog = "saturate", Next
  PROVE  SaturateInv'
<1>1. PICK i \in Programs["saturate"][CIA], junk \in Junk : Step(i, junk)
  BY Zenon DEF Next
<1>2. /\ i.op \in Saturating \cup {"mtvscr"} /\ 3 \in VRegs
      /\ i.op \in Saturating => i.A \in VRegs /\ i.B \in VRegs /\ i.D # 3
      /\ i.op = "mtvscr" => i.B = 3
  BY <1>1, Zenon DEF Next, Running, SaturateIs
<1>3. DOMAIN spr = SPRs
  BY Zenon DEF WordsInv, RegsInv, SpecialRegisters
<1>4. clipped' = ClippedAfter(i) /\ prog' = prog
  BY <1>1, Zenon DEF Step
<1>5. /\ vr \in [VRegs -> Vector] /\ Unmarks(vr[3])
      /\ clipped \in BOOLEAN /\ (Marked(spr["VSCR"]) <=> clipped)
  BY Zenon DEF SaturateInv
<1>6. CASE ret' = NO_AV /\ UNCHANGED <<spr, vr>>
  <2>1. ret' # 0
    BY <1>6, SMT DEF NO_AV
  <2>2. clipped' = (clipped \/ FALSE)
    BY <1>4, <2>1, Zenon DEF ClippedAfter
  <2> QED
    BY <1>5, <1>6, <2>2, Zenon DEF SaturateInv, Unmarks
<1>7. CASE i.op \in Saturating /\ VectorSaturating(i, junk)
  <2> DEFINE s == Saturated(i, vr[i.A], vr[i.B], vr[i.C], junk)
             o == [Outcome(i, 0) EXCEPT !.sat = s.sat]
  <2>1. s.v \in Vector /\ (s.sat <=> Clips(i))
    BY <1>2, <1>5, <1>7, SaturatedIs, Zenon
  <2>2. vr' = [vr EXCEPT ![i.D] = s.v] /\ spr' = Updated(spr, o) /\ ret' = 0
    BY <1>7, Zenon DEF VectorSaturating, Complete, CompleteTo
  <2> HIDE DEF s
  <2>3. o.vrc = FALSE /\ o.sat = s.sat
    BY Zenon DEF Outcome
  <2> HIDE DEF o
  <2>4. Marked(spr'["VSCR"]) <=> s.sat \/ Marked(spr["VSCR"])
    BY <1>3, <2>2, <2>3, SaturationRecorded, Zenon
  <2>5. vr' \in [VRegs -> Vector]
    BY <1>5, <2>1, <2>2, Zenon
  <2>6. vr'[3] = vr[3]
    BY <1>2, <1>5, <1>7, <2>2, Zenon
  <2>7. clipped' = (clipped \/ Clips(i))
    <3>1. i.op # "mtvscr"
      BY <1>7, Zenon DEF Saturating
    <3>2. clipped' = (clipped \/ (ret' = 0 /\ Clips(i)))
      BY <1>4, <3>1, Zenon DEF ClippedAfter
    <3> QED
      BY <2>2, <3>2, Zenon
  <2> QED
    BY <1>5, <2>1, <2>4, <2>5, <2>6, <2>7, Zenon DEF SaturateInv, Unmarks
<1>8. CASE i.op = "mtvscr" /\ MoveVSCR(i)
  <2> DEFINE w == Wd(vr[3], NB \div 4 - 1)
             t == [spr EXCEPT !["VSCR"] = w]
             o == Outcome(i, 0)
  <2>1. vr' = vr /\ spr' = Updated(t, o) /\ ret' = 0
    BY <1>2, <1>8, Zenon DEF MoveVSCR, Complete, CompleteTo
  <2>2. o.vrc = FALSE /\ o.sat = FALSE
    BY Zenon DEF Outcome
  <2>3. ~ Marked(w)
    BY <1>5, Zenon DEF Unmarks
  <2> HIDE DEF w, o
  <2>4. DOMAIN t = SPRs /\ t["VSCR"] = w
    BY <1>3, Zenon DEF SPRs
  <2> HIDE DEF t
  <2>5. ~ Marked(spr'["VSCR"])
    BY <2>1, <2>2, <2>3, <2>4, SaturationRecorded, Zenon
  <2>6. clipped' = FALSE
    BY <1>4, <1>8, <2>1, Zenon DEF ClippedAfter
  <2> QED
    BY <1>5, <2>1, <2>5, <2>6, Zenon DEF SaturateInv, Unmarks
<1> QED
  BY <1>1, <1>2, <1>6, <1>7, <1>8, SaturatingActions, Zenon

\* At the width of the code, VSCR[SAT] remembers every lane that a saturating
\* addition or subtraction clipped, whatever it clips later, until VSCR is
\* written.
THEOREM SaturationTheorem ==
  ASSUME BYTE = 8, SaturateIs(Programs["saturate"], Starts["saturate"])
  PROVE  Spec => []SaturationIsRecorded
<1>1. Init => SaturateInv
  BY Zenon DEF Init, SaturateInv, SaturateIs
<1>2. WordsInv /\ SaturateInv /\ [Next]_vars => SaturateInv'
  <2> SUFFICES ASSUME WordsInv, SaturateInv, [Next]_vars  PROVE SaturateInv'
    OBVIOUS
  <2>1. CASE UNCHANGED vars
    BY <2>1, Zenon DEF vars, SaturateInv, Unmarks
  <2>2. CASE Next /\ prog = "saturate"
    BY <2>2, SaturateStep, Zenon
  <2>3. CASE Next /\ prog # "saturate"
    BY <2>3, Zenon DEF Next, Step, SaturateInv
  <2> QED
    BY <2>1, <2>2, <2>3, Zenon
<1>3. SaturateInv => SaturationIsRecorded
  <2>1. ASSUME SaturateInv, prog = "saturate" PROVE (spr["VSCR"] % 2 = 1) = clipped
    <3> DEFINE m == spr["VSCR"] % 2 = 1
    <3>1. (m <=> clipped) /\ clipped \in BOOLEAN /\ m \in BOOLEAN
      BY <2>1, Zenon DEF SaturateInv, Marked
    <3> HIDE DEF m
    <3>2. m = clipped
      BY <3>1
    <3> QED
      BY <3>2, Zenon DEF m
  <2> QED
    BY <2>1, Zenon DEF SaturationIsRecorded
<1> QED
  BY <1>1, <1>2, <1>3, WordsTheorem, PTL DEF Spec

-----------------------------------------------------------------------------
(* A branch on a comparison.                                               *)

\* A quotient divided once more.
LEMMA Divided ==
  ASSUME NEW x \in Int, NEW p \in Int, p > 0, NEW d \in {2, 4, 8}
  PROVE  x \div (d * p) = (x \div p) \div d
<1> DEFINE g == x \div p
           r == x - p * g
           q == g \div d
           t == g - d * q
<1>1. g \in Int /\ p * g <= x /\ x < p * (g + 1)
  BY SMT
<1> HIDE DEF g
<1>2. r \in Int /\ 0 <= r /\ r < p /\ x = p * g + r
  <2>1. p * (g + 1) = p * g + p
    BY <1>1, SMT
  <2> QED
    BY <1>1, <2>1, SMT
<1> HIDE DEF r
<1>3. q \in Int /\ t \in Int /\ 0 <= t /\ t <= d - 1 /\ g = d * q + t
  BY <1>1, SMT
<1> HIDE DEF q, t
<1>4. /\ p * t \in Int /\ p * 0 <= p * t /\ p * t <= p * (d - 1) /\ d * p > 0 /\ d * p \in Int
      /\ p * (d - 1) = d * p - p
  <2>1. d - 1 \in Int /\ 0 \in Int
    BY SMT
  <2>2. p * 0 <= p * t /\ p * t <= p * (d - 1)
    BY <1>3, <2>1, Least, Zenon
  <2> QED
    BY <1>3, <2>2, SMT
<1>5. p * t + r \in Int /\ 0 <= p * t + r /\ p * t + r < d * p
  BY <1>2, <1>4, SMT
<1>6. x = (d * p) * q + (p * t + r)
  <2>1. p * (d * q + t) = (d * p) * q + p * t
    BY <1>3, SMT
  <2> QED
    BY <1>2, <1>3, <1>4, <2>1, SMT
<1>7. x \div (d * p) = q
  <2> DEFINE m == p * t + r
             k == d * p
  <2> HIDE DEF m, k
  <2> QED
    BY <1>3, <1>4, <1>5, <1>6, DivIs, Zenon DEF m, k
<1> QED
  BY <1>7, Zenon DEF q, g

\* The bits of a field of CR are those of the four it holds.
LEMMA FieldRead ==
  ASSUME BYTE = 8, NEW s, s["CR"] \in Word, NEW no \in Fields
  PROVE  /\ Bit(s["CR"], 4 * no) <=> (CR_get(s, no) \div 8) % 2 = 1
         /\ Bit(s["CR"], 4 * no + 1) <=> (CR_get(s, no) \div 4) % 2 = 1
         /\ Bit(s["CR"], 4 * no + 2) <=> (CR_get(s, no) \div 2) % 2 = 1
<1> DEFINE c == s["CR"]
           e == 4 * (CRFields - 1 - no)
           p == 2 ^ e
           g == c \div p
<1>1. c \in Int
  BY WordIs, Zenon
<1>2. /\ e \in 0 .. 28
      /\ WBITS - 1 - 4 * no = e + 3 /\ WBITS - 1 - (4 * no + 1) = e + 2
      /\ WBITS - 1 - (4 * no + 2) = e + 1
      /\ 4 * no \in 0 .. WBITS - 1 /\ 4 * no + 1 \in 0 .. WBITS - 1 /\ 4 * no + 2 \in 0 .. WBITS - 1
  <2>1. WBITS = 32 /\ CRFields = 8 /\ no \in 0 .. 7
    BY Widths, Zenon
  <2> QED
    BY <2>1, SMT
<1>3. CR_get(s, no) = g % 16
  BY Zenon DEF CR_get
<1>4. p \in Int /\ p > 0 /\ 2 ^ (e + 3) = 8 * p /\ 2 ^ (e + 2) = 4 * p /\ 2 ^ (e + 1) = 2 * p
  <2>1. e = 0 \/ e = 4 \/ e = 8 \/ e = 12 \/ e = 16 \/ e = 20 \/ e = 24 \/ e = 28
    BY Widths, SMT
  <2> DEFINE Good(n) == /\ 2 ^ n \in Int /\ 2 ^ n > 0
                        /\ 2 ^ (n + 3) = 8 * 2 ^ n /\ 2 ^ (n + 2) = 4 * 2 ^ n
                        /\ 2 ^ (n + 1) = 2 * 2 ^ n
  <2>2. Good(0) /\ Good(4) /\ Good(8) /\ Good(12)
    BY SMT
  <2>3. Good(16) /\ Good(20) /\ Good(24) /\ Good(28)
    BY SMT
  <2> HIDE DEF Good, e
  <2>4. Good(e)
    BY <2>1, <2>2, <2>3, Zenon
  <2> QED
    BY <2>4, Zenon DEF Good
<1>5. c \div (8 * p) = g \div 8 /\ c \div (4 * p) = g \div 4 /\ c \div (2 * p) = g \div 2
  <2> HIDE DEF c, p
  <2>1. \A d \in {2, 4, 8} : c \div (d * p) = (c \div p) \div d
    BY <1>1, <1>4, Divided, Zenon
  <2> QED
    BY <2>1, Zenon
<1>6. /\ Bit(c, 4 * no) <=> (c \div (8 * p)) % 2 = 1
      /\ Bit(c, 4 * no + 1) <=> (c \div (4 * p)) % 2 = 1
      /\ Bit(c, 4 * no + 2) <=> (c \div (2 * p)) % 2 = 1
  <2> HIDE DEF c, e
  <2> QED
    BY <1>2, <1>4, Zenon DEF Bit, BitsOf
<1>7. g \in Int
  <2> HIDE DEF c, p
  <2> QED
    BY <1>1, <1>4, SMT
<1> HIDE DEF g, c, p, e
<1>8. /\ (g \div 8) % 2 = ((g % 16) \div 8) % 2
      /\ (g \div 4) % 2 = ((g % 16) \div 4) % 2
      /\ (g \div 2) % 2 = ((g % 16) \div 2) % 2
  BY <1>7, SMT
<1> QED
  BY <1>3, <1>5, <1>6, <1>8, Zenon DEF c

\* The bits of a comparison.
LEMMA ComparedIs ==
  ASSUME NEW x \in Int, NEW y \in Int, NEW s
  PROVE  LET v == Compared(x, y, s)
         IN  /\ (v \div 8) % 2 = 1 <=> x < y
             /\ (v \div 4) % 2 = 1 <=> ~ (x < y) /\ x # y
             /\ (v \div 2) % 2 = 1 <=> x = y
<1> DEFINE o == SOBit(s)
           f == IF x < y THEN LT ELSE IF x > y THEN GT ELSE EQ
           v == Compared(x, y, s)
<1>1. o = 0 \/ o = 1
  BY SMT DEF SOBit
<1>2. v = f + o
  BY Zenon DEF Compared
<1> HIDE DEF o, v
<1>3. CASE x < y
  <2>1. v = 8 \/ v = 9
    BY <1>1, <1>2, <1>3, SMT DEF LT
  <2> QED
    BY <1>3, <2>1, SMT DEF v
<1>4. CASE x > y
  <2>1. v = 4 \/ v = 5
    BY <1>1, <1>2, <1>4, SMT DEF GT
  <2> QED
    BY <1>4, <2>1, SMT DEF v
<1>5. CASE x = y
  <2>1. v = 2 \/ v = 3
    BY <1>1, <1>2, <1>5, SMT DEF EQ
  <2> QED
    BY <1>5, <2>1, SMT DEF v
<1> QED
  BY <1>3, <1>4, <1>5, SMT

\* The history holds the newest at least.
LEMMA HistoryIs ==
  ASSUME NEW s \in Seq(Instructions), NEW i \in Instructions
  PROVE  Len(<<i>> \o SubSeq(s, 1, Min({1, Len(s)}))) >= 1
<1> DEFINE m == Min({1, Len(s)})
           t == SubSeq(s, 1, m)
<1>1. Len(s) \in Nat
  OBVIOUS
<1>2. m \in 0 .. Len(s)
  <2>1. \E x \in {1, Len(s)} : \A y \in {1, Len(s)} : x =< y
    BY <1>1
  <2>2. m \in {1, Len(s)} /\ \A y \in {1, Len(s)} : m =< y
    BY <2>1, Zenon DEF Min
  <2> HIDE DEF m
  <2> QED
    BY <1>1, <2>2
<1> HIDE DEF m
<1>3. t \in Seq(Instructions)
  BY <1>1, <1>2, SubSeqProperties, SMT
<1> HIDE DEF t
<1>4. Len(<<i>> \o t) >= 1
  <2>1. <<i>> \in Seq(Instructions) /\ Len(<<i>>) = 1
    OBVIOUS
  <2> QED
    BY <1>3, <2>1, ConcatProperties
<1> QED
  BY <1>4, Zenon DEF t, m

\* The one before the newest of the history is the last that was there.
LEMMA Before ==
  ASSUME NEW s \in Seq(Instructions), NEW i \in Instructions, Len(s) >= 1
  PROVE  (<<i>> \o SubSeq(s, 1, Min({1, Len(s)})))[2] = s[1]
<1>1. Len(s) \in Nat
  OBVIOUS
<1>2. Min({1, Len(s)}) = 1
  <2>1. 1 \in {1, Len(s)} /\ \A y \in {1, Len(s)} : 1 =< y
    BY <1>1
  <2>2. Min({1, Len(s)}) \in {1, Len(s)} /\ \A y \in {1, Len(s)} : Min({1, Len(s)}) =< y
    BY <2>1, Zenon DEF Min
  <2> DEFINE m == Min({1, Len(s)})
  <2> HIDE DEF m
  <2> QED
    BY <1>1, <2>2, SMT DEF m
<1> DEFINE t == SubSeq(s, 1, 1)
<1>3. t \in Seq(Instructions) /\ Len(t) = 1 /\ t[1] = s[1]
  BY <1>1, SubSeqProperties, SMT
<1> HIDE DEF t
<1>4. <<i>> \in Seq(Instructions) /\ Len(<<i>>) = 1
  OBVIOUS
<1>5. (<<i>> \o t)[2] = t[1]
  BY <1>3, <1>4, ConcatProperties
<1> QED
  BY <1>2, <1>3, <1>5, Zenon DEF t

\* A comparison of two registers, and a branch on one of the bits it writes,
\* to a place that tells from the next one and ends the program.
BranchIs(P) ==
  /\ {1, 2} \subseteq Regs
  /\ DOMAIN P = {0, 4}
  /\ \A i \in P[0] : i.op \in {"cmp", "cmpl"} /\ i.A = 1 /\ i.B = 2 /\ i.RC = FALSE
  /\ \A i \in P[0], j \in P[4] :
       /\ j.op = "bc" /\ 16 \notin j.BO /\ 4 \in j.BO
       /\ j.BI \in {4 * i.D, 4 * i.D + 1, 4 * i.D + 2}
       /\ Low((IF j.AA THEN 0 ELSE 4) + EXTS(j.LI)) \notin {0, 4, 8}

\* Comparisons of registers are of the integer unit.
LEMMA ComparesAct ==
  ASSUME NEW i, i.op \in {"cmp", "cmpl"}, NEW junk, Step(i, junk)
  PROVE  Compare(i)
<1>1. ~ Branches(i, junk)
  BY Zenon DEF Branches, BranchConditional, Branch, BranchToRegister, MoveCRField,
       CRLogic, CROps, ReturnFromInterrupt, SystemCall, Synchronize
<1>2. ~ LoadsAndStores(i, junk)
  BY Zenon DEF LoadsAndStores, Load, Store, Loads, Stores, LoadReserved,
       StoreConditional, LoadMultiple, StoreMultiple, LoadString, StoreString
<1>3. ~ Vectors(i, junk)
  <2>1. i.op \notin LaneOps
    BY Zenon DEF LaneOps, Cases0Ops, Cases36Ops, Cases64Ops, Cases258Ops,
         Cases386Ops, Cases514Ops, Cases642Ops, Cases770Ops, Cases1024Ops, Cases1282Ops
  <2>2. i.op \notin SaturatingOps /\ i.op \notin {"mfvscr", "mtvscr"}
    BY Zenon DEF SaturatingOps
  <2> QED
    BY <2>1, <2>2, Zenon DEF Vectors, VectorLanes, VectorSaturating, MoveVSCR, VectorOps
<1>4. i.op \notin ArithmeticOps /\ i.op \notin ImmediateLogic \cup RegisterLogic
  BY Zenon DEF ArithmeticOps, ImmediateLogic, RegisterLogic
<1> QED
  BY <1>1, <1>2, <1>3, <1>4, Zenon DEF Step, Integer, Arithmetic, Divide, Logic, Extend,
     ShiftRightAlgebraic, Rotate, Trap, MoveToCR, MoveXERToCR, MoveFrom, MoveTo, CacheOp

\* An instruction that does not record leaves the CR as it found it.
LEMMA CRKept ==
  ASSUME NEW s, DOMAIN s = SPRs, NEW o, o.rc = FALSE, o.vrc = FALSE
  PROVE  Updated(s, o)["CR"] = s["CR"]
<1> DEFINE s3 == IF o.sat   THEN [s EXCEPT !["VSCR"] = OrW(@, 1)] ELSE s
           s4 == IF o.oe    THEN XER_setOV(s3, o.ov) ELSE s3
<1>1. Updated(s, o) = IF o.setCA THEN XER_setCA(s4, o.ca) ELSE s4
  BY Zenon DEF Updated
<1>2. s3["CR"] = s["CR"] /\ DOMAIN s3 = SPRs
  BY Zenon DEF SPRs
<1> HIDE DEF s3
<1>3. s4["CR"] = s["CR"] /\ DOMAIN s4 = SPRs
  BY <1>2, Zenon DEF XER_setOV, SPRs
<1> HIDE DEF s4
<1> QED
  BY <1>1, <1>3, Zenon DEF XER_setCA, SPRs

\* The relations of the two registers a program began with, as the comparison i
\* reads them, and the one that a bit of its field stands for.
Less(i) ==
  IF i.op = "cmp" THEN Signed(entry.gpr[1]) < Signed(entry.gpr[2])
                  ELSE entry.gpr[1] < entry.gpr[2]

Same == entry.gpr[1] = entry.gpr[2]

\* They are truth values.
LEMMA LessIs ==
  ASSUME BYTE = 8, EntryInv, {1, 2} \subseteq Regs, NEW i
  PROVE  Less(i) \in BOOLEAN
<1> DEFINE a == entry.gpr[1]
           b == entry.gpr[2]
<1>1. a \in Word /\ b \in Word
  BY ProgramsAssumption, Zenon DEF EntryInv
<1>2. /\ Signed(a) = (IF a >= Upmost THEN a - (Top + 1) ELSE a)
      /\ Signed(b) = (IF b >= Upmost THEN b - (Top + 1) ELSE b)
      /\ a \in Int /\ b \in Int
  BY <1>1, SignIs, WordIs, Zenon
<1>3. Less(i) = IF i.op = "cmp" THEN Signed(a) < Signed(b) ELSE a < b
  BY Zenon DEF Less
<1> HIDE DEF a, b
<1>4. Signed(a) \in Int /\ Signed(b) \in Int
  BY <1>2, SMT DEF Top, Upmost
<1>5. (Signed(a) < Signed(b)) \in BOOLEAN /\ (a < b) \in BOOLEAN
  BY <1>2, <1>4, SMT
<1> QED
  BY <1>3, <1>5, Zenon

\* A comparison writes these into its field.
LEMMA CompareTells ==
  ASSUME BYTE = 8, RegsInv, gpr = entry.gpr, {1, 2} \subseteq Regs,
         NEW i, Decoded(i), i.op \in {"cmp", "cmpl"}, i.A = 1, i.B = 2, i.RC = FALSE, Compare(i)
  PROVE  /\ Bit(spr'["CR"], 4 * i.D) <=> Less(i)
         /\ Bit(spr'["CR"], 4 * i.D + 1) <=> ~ Less(i) /\ ~ Same
         /\ Bit(spr'["CR"], 4 * i.D + 2) <=> Same
<1> DEFINE a == gpr[1]
           b == gpr[2]
           x == IF i.op = "cmp" THEN Signed(a) ELSE a
           y == IF i.op = "cmp" THEN Signed(b) ELSE b
           c == Compared(x, y, spr)
           s == CR_put(spr, i.D, c)
<1>1. a \in Word /\ b \in Word /\ i.D \in Fields
  BY Zenon DEF RegsInv, Decoded, FieldCompares
<1>2. spr' = Updated(s, Outcome(i, c))
  <2>1. CASE i.op = "cmp"
    BY <2>1, Zenon DEF Compare, Complete, CompleteTo
  <2>2. CASE i.op = "cmpl"
    BY <2>2, Zenon DEF Compare, Complete, CompleteTo
  <2> QED
    BY <2>1, <2>2, Zenon
<1>3. c \in 0 .. 15 /\ spr["CR"] \in Word /\ "CR" \in DOMAIN spr
  BY FieldValues, Zenon DEF RegsInv, SpecialRegisters, SPRs
<1>4. /\ x \in Int /\ y \in Int
      /\ x < y <=> Less(i)
      /\ x = y <=> Same
  <2>1. /\ Signed(a) = (IF a >= Upmost THEN a - (Top + 1) ELSE a)
        /\ Signed(b) = (IF b >= Upmost THEN b - (Top + 1) ELSE b)
        /\ a \in Int /\ 0 <= a /\ a <= Top /\ b \in Int /\ 0 <= b /\ b <= Top
    BY <1>1, SignIs, WordIs, Zenon
  <2>2. Signed(a) \in Int /\ Signed(b) \in Int /\ (Signed(a) = Signed(b) <=> a = b)
    <3> HIDE DEF a, b
    <3> QED
      BY <2>1, SMT DEF Top, Upmost
  <2> QED
    BY <2>1, <2>2, Zenon DEF Less, Same
<1> HIDE DEF x, y
<1>5. /\ (c \div 8) % 2 = 1 <=> x < y
      /\ (c \div 4) % 2 = 1 <=> ~ (x < y) /\ x # y
      /\ (c \div 2) % 2 = 1 <=> x = y
  <2>1. c = Compared(x, y, spr)
    BY Zenon
  <2> HIDE DEF c
  <2> QED
    BY <1>4, <2>1, ComparedIs, SMT
<1> HIDE DEF c
<1>6. s["CR"] \in Word /\ CR_get(s, i.D) = c
  BY <1>1, <1>3, FieldFacts, Zenon
<1> HIDE DEF s
<1>7. spr'["CR"] = s["CR"]
  <2>1. Outcome(i, c).rc = FALSE /\ Outcome(i, c).vrc = FALSE
    BY Zenon DEF Outcome
  <2>2. DOMAIN s = SPRs
    BY Zenon DEF s, CR_put, RegsInv, SpecialRegisters
  <2> QED
    BY <1>2, <2>1, <2>2, CRKept, Zenon
<1>8. /\ Bit(s["CR"], 4 * i.D) <=> (c \div 8) % 2 = 1
      /\ Bit(s["CR"], 4 * i.D + 1) <=> (c \div 4) % 2 = 1
      /\ Bit(s["CR"], 4 * i.D + 2) <=> (c \div 2) % 2 = 1
  BY <1>1, <1>6, FieldRead, Zenon
<1> QED
  BY <1>4, <1>5, <1>7, <1>8, Zenon

\* The inductive invariant: the comparison just made is in the CR, and then the
\* branch just made has gone by it.
BranchInv ==
  prog = "branch" =>
    /\ CIA = 0 => gpr = entry.gpr
    /\ CIA = 4 => /\ Len(ir) >= 1 /\ ir[1] \in Programs["branch"][0]
                  /\ Bit(spr["CR"], 4 * ir[1].D) <=> Less(ir[1])
                  /\ Bit(spr["CR"], 4 * ir[1].D + 1) <=> ~ Less(ir[1]) /\ ~ Same
                  /\ Bit(spr["CR"], 4 * ir[1].D + 2) <=> Same
    /\ CIA \notin {0, 4} =>
         LET holds == CASE ir[1].BI % 4 = 0 -> Less(ir[2])
                        [] ir[1].BI % 4 = 1 -> ~ Less(ir[2]) /\ ~ Same
                        [] ir[1].BI % 4 = 2 -> Same
         IN  (CIA # 8) = (holds = (8 \in ir[1].BO))

\* Both instructions keep it.
LEMMA BranchStep ==
  ASSUME BYTE = 8, BranchIs(Programs["branch"]), TraceInv, WordsInv, EntryInv,
         BranchInv, prog = "branch", Next
  PROVE  BranchInv'
<1> DEFINE P == Programs["branch"]
<1>1. PICK i \in P[CIA], junk \in Junk : Step(i, junk)
  BY Zenon DEF Next
<1>2. CIA \in {0, 4} /\ prog' = prog /\ entry' = entry
  BY <1>1, Zenon DEF Next, Running, BranchIs, Step
<1>3. i \in Instructions /\ Decoded(i) /\ ir \in Seq(Instructions)
  <2>1. i \in Instructions
    BY <1>1, <1>2 DEF TraceInv, Instructions, BranchIs
  <2> QED
    BY <2>1, ProgramsAssumption, Zenon DEF TraceInv
<1>4. ir' \in Seq(Instructions) /\ Len(ir') >= 1 /\ ir'[1] = i
  <2> DEFINE t == SubSeq(ir, 1, Min({1, Len(ir)}))
  <2>1. ir' = <<i>> \o t
    BY <1>1, Zenon DEF Step
  <2>2. ir' \in Seq(Instructions) /\ ir'[1] = i
    BY <1>3, <2>1, Newest, Zenon
  <2>3. Len(ir') >= 1
    BY <1>3, <2>1, HistoryIs, Zenon
  <2> QED
    BY <2>2, <2>3
<1>5. Low(0 + 4) = 4 /\ Low(4 + 4) = 8 /\ NIA = Low(CIA + 4)
  <2>1. 4 <= Top /\ 8 <= Top /\ 0 + 4 = 4 /\ 4 + 4 = 8
    BY SMT DEF Top
  <2>2. 4 \in Word /\ 8 \in Word
    BY <2>1, WordIs, SMT
  <2> QED
    BY <2>1, <2>2, LowOfWord, Zenon DEF NIA
<1>6. \A j : Less(j)' = Less(j) /\ Same' = Same
  BY <1>2, Zenon DEF Less, Same
<1>7. CASE CIA = 0
  <2>1. i.op \in {"cmp", "cmpl"} /\ i.A = 1 /\ i.B = 2 /\ i.RC = FALSE /\ {1, 2} \subseteq Regs
    BY <1>1, <1>7, Zenon DEF BranchIs
  <2>2. Compare(i)
    <3>1. Step(i, junk)
      BY <1>1, Zenon
    <3> QED
      BY <2>1, <3>1, ComparesAct, SMT
  <2>3. gpr = entry.gpr
    BY <1>7, Zenon DEF BranchInv
  <2>4. CIA' = 4
    BY <1>5, <1>7, <2>2, Zenon DEF Compare, Complete, CompleteTo
  <2>5. /\ Bit(spr'["CR"], 4 * i.D) <=> Less(i)
        /\ Bit(spr'["CR"], 4 * i.D + 1) <=> ~ Less(i) /\ ~ Same
        /\ Bit(spr'["CR"], 4 * i.D + 2) <=> Same
    BY <1>3, <2>1, <2>2, <2>3, CompareTells, Zenon DEF WordsInv
  <2>6. CIA' # 0 /\ CIA' \in {0, 4} /\ i \in P[0]
    BY <1>1, <1>7, <2>4
  <2> QED
    BY <1>2, <1>4, <1>6, <2>5, <2>6, Zenon DEF BranchInv
<1>8. CASE CIA = 4
  <2> DEFINE c == ir[1]
             cr == spr["CR"]
  <2>1. /\ Len(ir) >= 1 /\ c \in P[0]
        /\ Bit(cr, 4 * c.D) <=> Less(c)
        /\ Bit(cr, 4 * c.D + 1) <=> ~ Less(c) /\ ~ Same
        /\ Bit(cr, 4 * c.D + 2) <=> Same
    BY <1>8, Zenon DEF BranchInv
  <2>2. ir'[2] = c
    BY <1>1, <1>3, <2>1, Before, Zenon DEF Step
  <2> HIDE DEF c, cr
  <2> DEFINE target == Low((IF i.AA THEN 0 ELSE CIA) + EXTS(i.LI))
  <2>3. /\ i.op = "bc" /\ 16 \notin i.BO /\ 4 \in i.BO
        /\ i.BI = 4 * c.D \/ i.BI = 4 * c.D + 1 \/ i.BI = 4 * c.D + 2
        /\ target \notin {0, 4, 8}
    BY <1>1, <1>8, <2>1, Zenon DEF BranchIs
  <2> DEFINE holds == CASE i.BI % 4 = 0 -> Less(c)
                        [] i.BI % 4 = 1 -> ~ Less(c) /\ ~ Same
                        [] i.BI % 4 = 2 -> Same
  <2>4. holds = Bit(cr, i.BI)
    <3>1. c.D \in Int
      <4>1. c \in Instructions
        BY <2>1, ProgramsAssumption DEF TraceInv, Instructions, BranchIs
      <4>2. c.D \in Fields
        BY <2>1, <4>1, ProgramsAssumption, Zenon DEF BranchIs, Decoded, FieldCompares
      <4> QED
        BY <4>2, Widths, SMT
    <3>2. (4 * c.D) % 4 = 0 /\ (4 * c.D + 1) % 4 = 1 /\ (4 * c.D + 2) % 4 = 2
      BY <3>1, SMT
    <3>3. Less(c) \in BOOLEAN /\ Same \in BOOLEAN /\ Bit(cr, i.BI) \in BOOLEAN
      <4>1. Less(c) \in BOOLEAN
        BY LessIs, Zenon DEF BranchIs
      <4>2. Same \in BOOLEAN /\ Bit(cr, i.BI) \in BOOLEAN
        BY SMT DEF Same, Bit
      <4> QED
        BY <4>1, <4>2, Zenon
    <3>4. 0 # 1 /\ 0 # 2 /\ 1 # 2
      OBVIOUS
    <3>5. CASE i.BI = 4 * c.D
      <4>1. i.BI % 4 = 0
        BY <3>2, <3>5, Zenon
      <4>2. holds = Less(c)
        BY <3>4, <4>1, Zenon
      <4>3. Bit(cr, i.BI) <=> Less(c)
        BY <2>1, <3>5, Zenon
      <4> HIDE DEF holds
      <4> QED
        BY <3>3, <4>2, <4>3
    <3>6. CASE i.BI = 4 * c.D + 1
      <4>1. i.BI % 4 = 1
        BY <3>2, <3>6, Zenon
      <4>2. holds = (~ Less(c) /\ ~ Same)
        BY <3>4, <4>1, Zenon
      <4>3. Bit(cr, i.BI) <=> (~ Less(c) /\ ~ Same)
        BY <2>1, <3>6, Zenon
      <4> HIDE DEF holds
      <4> QED
        BY <3>3, <4>2, <4>3
    <3>7. CASE i.BI = 4 * c.D + 2
      <4>1. i.BI % 4 = 2
        BY <3>2, <3>7, Zenon
      <4>2. holds = Same
        BY <3>4, <4>1, Zenon
      <4>3. Bit(cr, i.BI) <=> Same
        BY <2>1, <3>7, Zenon
      <4> HIDE DEF holds
      <4> QED
        BY <3>3, <4>2, <4>3
    <3> QED
      BY <2>3, <3>5, <3>6, <3>7, Zenon
  <2> DEFINE s == Counted(IF i.LK THEN Linked(spr) ELSE spr, i.BO)
             taken == CtrOk(s, i.BO) /\ CondOk(s, i.BO, i.BI)
  <2>5. CIA' = IF taken THEN target ELSE NIA
    <3>1. BranchConditional(i)
      BY <1>1, <2>3, ActionIs, Zenon
    <3> QED
      BY <3>1, Zenon DEF BranchConditional, CompleteTo
  <2>6. s["CR"] = cr
    <3>1. DOMAIN spr = SPRs
      BY Zenon DEF WordsInv, RegsInv, SpecialRegisters
    <3> QED
      BY <2>3, <3>1, Zenon DEF Counted, Linked, cr, SPRs
  <2> HIDE DEF s
  <2>7. taken <=> Bit(cr, i.BI) = (8 \in i.BO)
    BY <2>3, <2>6, Zenon DEF CtrOk, CondOk
  <2> HIDE DEF taken, target, holds
  <2>8. CIA' \notin {0, 4} /\ (CIA' # 8 <=> taken)
    <3>1. NIA = 8 /\ 8 # 0 /\ 8 # 4
      BY <1>5, <1>8
    <3> QED
      BY <2>3, <2>5, <3>1, Zenon
  <2>9. (CIA' # 8) = (holds = (8 \in i.BO))
    <3> DEFINE there == CIA' # 8
               h == holds = (8 \in i.BO)
    <3>1. (there <=> h) /\ there \in BOOLEAN /\ h \in BOOLEAN
      BY <2>4, <2>7, <2>8, Zenon
    <3> HIDE DEF there, h
    <3>2. there = h
      BY <3>1
    <3> QED
      BY <3>2, Zenon DEF there, h
  <2>10. Less(ir[2])' = Less(c) /\ Same' = Same
    BY <1>2, <2>2, Zenon DEF Less, Same
  <2>11. (holds <=> CASE ir'[1].BI % 4 = 0 -> Less(ir[2])'
                   [] ir'[1].BI % 4 = 1 -> ~ Less(ir[2])' /\ ~ Same'
                   [] ir'[1].BI % 4 = 2 -> Same') /\ TRUE
    BY <1>4, <2>10, Zenon DEF holds
  <2> QED
    BY <1>2, <1>4, <2>8, <2>9, <2>11, Zenon DEF BranchInv
<1> QED
  BY <1>2, <1>7, <1>8, Zenon

-----------------------------------------------------------------------------
(* A selection by the mask of a comparison.                                *)

\* A byte is its bits.
LEMMA BitsOfByte ==
  ASSUME BYTE = 8, NEW x \in Byte
  PROVE  FromBits(BitsOf(x)) = x /\ BitsOf(x) \in SUBSET (24 .. 31)
<1> DEFINE s == BitsOf(x)
<1>1. x \in Int /\ 0 <= x /\ x <= 255
  BY ByteIs, Zenon
<1>2. \A n \in 0 .. 31 : n \in s <=> (x \div Worth[n]) % 2 = 1
  <2>1. \A n \in 0 .. 31 : n \in s <=> (x \div 2 ^ (31 - n)) % 2 = 1
    BY Widths, Zenon DEF BitsOf
  <2> QED
    BY <2>1, WorthIs, Zenon
<1>3. s \in SUBSET (0 .. 31)
  BY BitsIn, Zenon
<1> HIDE DEF s
<1>4. /\ 24 \in s <=> (x \div 128) % 2 = 1
      /\ 25 \in s <=> (x \div 64) % 2 = 1
      /\ 26 \in s <=> (x \div 32) % 2 = 1
      /\ 27 \in s <=> (x \div 16) % 2 = 1
      /\ 28 \in s <=> (x \div 8) % 2 = 1
      /\ 29 \in s <=> (x \div 4) % 2 = 1
      /\ 30 \in s <=> (x \div 2) % 2 = 1
      /\ 31 \in s <=> (x \div 1) % 2 = 1
  <2>1. /\ 24 \in 0 .. 31 /\ 25 \in 0 .. 31 /\ 26 \in 0 .. 31 /\ 27 \in 0 .. 31
        /\ 28 \in 0 .. 31 /\ 29 \in 0 .. 31 /\ 30 \in 0 .. 31 /\ 31 \in 0 .. 31
    BY SMT
  <2> QED
    BY <1>2, <2>1, Worths, SMT
<1>5. \A n \in 0 .. 23 : n \notin s
  <2> SUFFICES ASSUME NEW n \in 0 .. 23 PROVE n \notin s
    OBVIOUS
  <2>1. Worth[n] \in Int /\ Worth[n] >= 256
    <3>1. \/ n = 0 \/ n = 1 \/ n = 2 \/ n = 3 \/ n = 4 \/ n = 5 \/ n = 6 \/ n = 7
          \/ n = 8 \/ n = 9 \/ n = 10 \/ n = 11 \/ n = 12 \/ n = 13 \/ n = 14 \/ n = 15
          \/ n = 16 \/ n = 17 \/ n = 18 \/ n = 19 \/ n = 20 \/ n = 21 \/ n = 22 \/ n = 23
      BY SMT
    <3> QED
      BY <3>1, Worths, SMT
  <2>2. x \div Worth[n] = 0
    <3>1. x = Worth[n] * 0 + x
      BY <1>1, <2>1, SMT
    <3> QED
      BY <1>1, <2>1, <3>1, DivIs, SMT
  <2>3. n \in 0 .. 31 /\ 0 % 2 # 1
    BY SMT
  <2> QED
    BY <1>2, <2>2, <2>3, Zenon
<1>6. s \in SUBSET (24 .. 31)
  BY <1>3, <1>5, SMT
<1>7. Value(s) = x
  <2>1. Eight(s, 0) = 0 /\ Eight(s, 8) = 0 /\ Eight(s, 16) = 0
    BY <1>5, SMT DEF Eight
  <2>2. Eight(s, 24) = x
    BY <1>1, <1>4, SMT DEF Eight
  <2> QED
    BY <1>1, <2>1, <2>2, SMT DEF Value
<1>8. FromBits(s) = Value(s)
  BY <1>3, FromBitsIs, Zenon
<1> QED
  BY <1>6, <1>7, <1>8, Zenon DEF s

\* A selection of bytes by a byte of ones or zeros.
LEMMA SelectsByte ==
  ASSUME BYTE = 8, NEW x \in Byte, NEW y \in Byte
  PROVE  /\ OrW(AndW(x, NotW(0)), AndW(y, 0)) = x
         /\ OrW(AndW(x, NotW(255)), AndW(y, 255)) = y
<1> DEFINE s == BitsOf(x)
           t == BitsOf(y)
           up == Top - 255
<1>1. s \in SUBSET (24 .. 31) /\ t \in SUBSET (24 .. 31) /\ FromBits(s) = x /\ FromBits(t) = y
  BY BitsOfByte, Zenon
<1>2. NotW(0) = Top /\ NotW(255) = up
  <2>1. 0 <= Top /\ 255 <= Top /\ Top - 0 = Top
    BY SMT DEF Top
  <2>2. 0 \in Word /\ 255 \in Word
    BY <2>1, WordIs, SMT
  <2> QED
    BY <2>1, <2>2, NotIsWord, Zenon
<1>3. /\ Value(0 .. 31) = Top /\ Value(0 .. 23) = up
      /\ Value(24 .. 31) = 255 /\ Value({}) = 0
  BY SMT DEF Value, Eight, Top
<1>4. /\ 0 .. 31 \in SUBSET (0 .. 31) /\ 0 .. 23 \in SUBSET (0 .. 31)
      /\ 24 .. 31 \in SUBSET (0 .. 31) /\ {} \in SUBSET (0 .. 31)
  BY SMT
<1>5. BitsOf(Top) = 0 .. 31 /\ BitsOf(up) = 0 .. 23 /\ BitsOf(255) = 24 .. 31 /\ BitsOf(0) = {}
  <2>1. /\ BitsOf(Value(0 .. 31)) = 0 .. 31 /\ BitsOf(Value(0 .. 23)) = 0 .. 23
        /\ BitsOf(Value(24 .. 31)) = 24 .. 31 /\ BitsOf(Value({})) = {}
    BY <1>4, BitsOfValue, SMT
  <2> HIDE DEF up
  <2> QED
    BY <1>3, <2>1, SMT
<1>6. /\ s \cap (0 .. 31) = s /\ s \cap (0 .. 23) = {}
      /\ t \cap (24 .. 31) = t /\ t \cap {} = {}
      /\ s \in SUBSET (0 .. 31) /\ t \in SUBSET (0 .. 31)
  BY <1>1, SMT
<1> HIDE DEF s, t, up
<1>7. /\ AndW(x, NotW(0)) = FromBits(s) /\ AndW(y, 0) = FromBits({})
      /\ AndW(x, NotW(255)) = FromBits({}) /\ AndW(y, 255) = FromBits(t)
  BY <1>2, <1>5, <1>6, Zenon DEF AndW, s, t
<1>8. BitsOf(FromBits(s)) = s /\ BitsOf(FromBits(t)) = t /\ BitsOf(FromBits({})) = {}
  BY <1>4, <1>6, BitsFacts, Zenon
<1>9. s \cup {} = s /\ {} \cup t = t
  OBVIOUS
<1> QED
  BY <1>1, <1>7, <1>8, <1>9, Zenon DEF OrW

Bytes8 == [VecBytes -> Byte]

\* The bytes of a half and of a word of a vector are those of the vector.
LEMMA HalfPieces ==
  ASSUME BYTE = 8, NEW v \in Bytes8, NEW k \in VecBytes
  PROVE  /\ Hf(v, k \div 2) \in Int /\ 0 <= Hf(v, k \div 2) /\ Hf(v, k \div 2) < Lower
         /\ Piece(Hf(v, k \div 2), k % 2) = v[k]
<1> DEFINE h == k \div 2
           x == v[2 * h]
           y == v[2 * h + 1]
<1>1. /\ 2 * h \in VecBytes /\ 2 * h + 1 \in VecBytes
      /\ (k % 2 = 0 /\ k = 2 * h) \/ (k % 2 = 1 /\ k = 2 * h + 1)
  BY SMT DEF VecBytes
<1> HIDE DEF h
<1>2. /\ x \in Int /\ 0 <= x /\ x <= 255 /\ y \in Int /\ 0 <= y /\ y <= 255
  BY <1>1, ByteIs, Zenon DEF Bytes8
<1>3. Hf(v, h) = x + y * Lowest
  BY Parts, Zenon DEF Hf
<1>4. \A z : /\ Piece(z, 0) = (z \div 1) % Lowest
             /\ Piece(z, 1) = (z \div Lowest) % Lowest
  <2>1. BYTE * 0 = 0 /\ BYTE * 1 = BYTE /\ 2 ^ 0 = 1
    BY SMT
  <2> QED
    BY <2>1, Parts, Zenon DEF Piece
<1> DEFINE w == x + y * Lowest
<1>5. /\ w \in Int /\ 0 <= w /\ w < Lower
      /\ (w \div 1) % Lowest = x /\ (w \div Lowest) % Lowest = y
  <2> HIDE DEF x, y
  <2> QED
    BY <1>2, SMT DEF Lowest, Lower
<1>6. Piece(Hf(v, h), 0) = x /\ Piece(Hf(v, h), 1) = y
  BY <1>3, <1>4, <1>5, Zenon
<1>7. Piece(Hf(v, h), k % 2) = v[k]
  BY <1>1, <1>6, Zenon
<1> QED
  BY <1>3, <1>5, <1>7, Zenon DEF h

\* And of its words: each byte of the vector is a piece of the word it lies in.
LEMMA WordPieces ==
  ASSUME BYTE = 8, NEW v \in Bytes8, NEW k \in VecBytes
  PROVE  Wd(v, k \div 4) \in Word /\ Piece(Wd(v, k \div 4), k % 4) = v[k]
<1> DEFINE h == k \div 4
           b0 == v[4 * h]
           b1 == v[4 * h + 1]
           b2 == v[4 * h + 2]
           b3 == v[4 * h + 3]
<1>1. /\ 4 * h \in VecBytes /\ 4 * h + 1 \in VecBytes
      /\ 4 * h + 2 \in VecBytes /\ 4 * h + 3 \in VecBytes
      /\ \/ k % 4 = 0 /\ k = 4 * h
         \/ k % 4 = 1 /\ k = 4 * h + 1
         \/ k % 4 = 2 /\ k = 4 * h + 2
         \/ k % 4 = 3 /\ k = 4 * h + 3
      /\ 2 * (2 * h) = 4 * h /\ 2 * (2 * h + 1) = 4 * h + 2 /\ 2 * (2 * h + 1) + 1 = 4 * h + 3
  BY SMT DEF VecBytes
<1> HIDE DEF h
<1>2. /\ b0 \in Int /\ 0 <= b0 /\ b0 <= 255 /\ b1 \in Int /\ 0 <= b1 /\ b1 <= 255
      /\ b2 \in Int /\ 0 <= b2 /\ b2 <= 255 /\ b3 \in Int /\ 0 <= b3 /\ b3 <= 255
  BY <1>1, ByteIs, Zenon DEF Bytes8
<1>3. Wd(v, h) = b0 + b1 * Lowest + (b2 + b3 * Lowest) * Lower
  <2>1. Hf(v, 2 * h) = b0 + b1 * Lowest
    BY <1>1, Parts, Zenon DEF Hf
  <2>2. Hf(v, 2 * h + 1) = b2 + b3 * Lowest
    BY <1>1, Parts, Zenon DEF Hf
  <2> QED
    BY <2>1, <2>2, Parts, Zenon DEF Wd
<1> DEFINE w == b0 + b1 * Lowest + (b2 + b3 * Lowest) * Lower
           p3 == Lower * Lowest
<1>4. \A z : /\ Piece(z, 0) = (z \div 1) % Lowest
             /\ Piece(z, 1) = (z \div Lowest) % Lowest
             /\ Piece(z, 2) = (z \div Lower) % Lowest
             /\ Piece(z, 3) = (z \div p3) % Lowest
  <2>1. BYTE * 0 = 0 /\ BYTE * 1 = BYTE /\ BYTE * 2 = 2 * BYTE /\ BYTE * 3 = 3 * BYTE /\ 2 ^ 0 = 1
    BY SMT
  <2> QED
    BY <2>1, Parts, Zenon DEF Piece
<1>5. /\ w \in Int /\ 0 <= w /\ w <= Top
      /\ (w \div 1) % Lowest = b0 /\ (w \div Lowest) % Lowest = b1
      /\ (w \div Lower) % Lowest = b2 /\ (w \div p3) % Lowest = b3
  <2> HIDE DEF b0, b1, b2, b3
  <2> QED
    BY <1>2, SMT DEF Lowest, Lower, Top
<1> HIDE DEF w, p3
<1>6. w \in Word /\ Piece(w, 0) = b0 /\ Piece(w, 1) = b1 /\ Piece(w, 2) = b2 /\ Piece(w, 3) = b3
  BY <1>4, <1>5, WordIs, Zenon
<1>7. Piece(w, k % 4) = v[k]
  BY <1>1, <1>6, Zenon
<1> QED
  BY <1>3, <1>6, <1>7, Zenon DEF h, w

\* A byte with all bits set.
Full == 255

\* A mask m and a maximum x of two vectors: where the mask is set the maximum
\* is the first, elsewhere the second.
Chosen(m, x, a, b) ==
  \A k \in VecBytes : \/ m[k] = Full /\ x[k] = a[k]
                      \/ m[k] = 0 /\ x[k] = b[k]

\* A number that is read with a sign keeps its low bits.
LEMMA SgnKeeps ==
  ASSUME BYTE = 8
  PROVE  /\ \A x : x \in Byte => Sgn(x, BYTE) \in Int /\ Sgn(x, BYTE) % 2 ^ BYTE = x
         /\ \A x : x \in Word => Sgn(x, WBITS) \in Int /\ Sgn(x, WBITS) % 2 ^ WBITS = x
<1>1. ASSUME NEW x, x \in Byte PROVE Sgn(x, BYTE) \in Int /\ Sgn(x, BYTE) % 2 ^ BYTE = x
  <2>1. x \in Int /\ 0 <= x /\ x <= 255
    BY <1>1, ByteIs, Zenon
  <2>2. 2 ^ (BYTE - 1) = 128
    <3>1. BYTE - 1 = 7 /\ 2 ^ 7 = 128
      BY SMT
    <3> QED
      BY <3>1, Zenon
  <2> DEFINE g == IF x % Lowest >= 128 THEN (x % Lowest) - Lowest ELSE x % Lowest
  <2>3. Sgn(x, BYTE) = g
    BY <2>2, Parts, Zenon DEF Sgn
  <2>4. g \in Int /\ g % Lowest = x
    BY <2>1, SMT DEF Lowest
  <2> QED
    BY <2>3, <2>4, Parts, Zenon
<1>2. ASSUME NEW x, x \in Word PROVE Sgn(x, WBITS) \in Int /\ Sgn(x, WBITS) % 2 ^ WBITS = x
  <2>1. x \in Int /\ 0 <= x /\ x <= Top
    BY <1>2, WordIs, Zenon
  <2> DEFINE g == IF x % (Top + 1) >= Upmost THEN (x % (Top + 1)) - (Top + 1) ELSE x % (Top + 1)
  <2>3. Sgn(x, WBITS) = g
    BY Widths, Parts, Zenon DEF Sgn
  <2>4. g \in Int /\ g % (Top + 1) = x
    BY <2>1, SMT DEF Top, Upmost
  <2> QED
    BY <2>3, <2>4, Widths, Zenon
<1> QED
  BY <1>1, <1>2, Zenon

\* The pieces of a lane with all bits or none.
LEMMA PiecesOf ==
  ASSUME BYTE = 8
  PROVE  /\ \A j \in 0 .. 1 : Piece(Lower - 1, j) = Full /\ Piece(0, j) = 0
         /\ \A j \in 0 .. 3 : Piece(Top, j) = Full /\ Piece(0, j) = 0
<1> DEFINE p3 == Lower * Lowest
<1>2. \A z : /\ Piece(z, 0) = (z \div 1) % Lowest
             /\ Piece(z, 1) = (z \div Lowest) % Lowest
             /\ Piece(z, 2) = (z \div Lower) % Lowest
             /\ Piece(z, 3) = (z \div p3) % Lowest
  <2>1. BYTE * 0 = 0 /\ BYTE * 1 = BYTE /\ BYTE * 2 = 2 * BYTE /\ BYTE * 3 = 3 * BYTE /\ 2 ^ 0 = 1
    BY SMT
  <2> QED
    BY <2>1, Parts, Zenon DEF Piece
<1>3. /\ (Top \div 1) % Lowest = Full /\ (Top \div Lowest) % Lowest = Full
      /\ (Top \div Lower) % Lowest = Full /\ (Top \div p3) % Lowest = Full
      /\ (0 \div 1) % Lowest = 0 /\ (0 \div Lowest) % Lowest = 0
      /\ (0 \div Lower) % Lowest = 0 /\ (0 \div p3) % Lowest = 0
      /\ ((Lower - 1) \div 1) % Lowest = Full /\ ((Lower - 1) \div Lowest) % Lowest = Full
  BY SMT DEF Top, Lower, Lowest, Full
<1> HIDE DEF p3
<1>4. \A j \in 0 .. 1 : Piece(Lower - 1, j) = Full /\ Piece(0, j) = 0
  <2>1. \A j \in 0 .. 1 : j = 0 \/ j = 1
    BY SMT
  <2> QED
    BY <1>2, <1>3, <2>1, Zenon
<1>5. \A j \in 0 .. 3 : Piece(Top, j) = Full /\ Piece(0, j) = 0
  <2>1. \A j \in 0 .. 3 : j = 0 \/ j = 1 \/ j = 2 \/ j = 3
    BY SMT
  <2> QED
    BY <1>2, <1>3, <2>1, Zenon
<1> QED
  BY <1>4, <1>5, Zenon

\* Every byte that a lane of the value o is stored as, whatever the width of the
\* lane, is v.
MaskByte(o, v) ==
  /\ o % 2 ^ BYTE = v
  /\ \A j \in 0 .. 1 : Piece(o % 2 ^ (2 * BYTE), j) = v
  /\ \A j \in 0 .. 3 : Piece(o % 2 ^ WBITS, j) = v

\* A lane of a mask: all bits are set where the first is greater, and the larger
\* of the two is the first there; elsewhere none, and it is the second.
LEMMA LargerIs ==
  ASSUME BYTE = 8, NEW x \in Int, NEW y \in Int
  PROVE  \/ MaskByte(Ones(x > y), Full) /\ Larger(x, y) = x
         \/ MaskByte(Ones(x > y), 0) /\ Larger(x, y) = y
<1> DEFINE o == Ones(x > y)
<1>1. CASE x > y
  <2>1. o = -1
    BY <1>1, SMT DEF Ones
  <2> HIDE DEF o
  <2>2. o % Lowest = Full /\ o % Lower = Lower - 1 /\ o % (Top + 1) = Top
    <3>0. o \in Int /\ o + 1 = 0
      BY <2>1, SMT
    <3>1. o % Lowest = Full
      BY <3>0, SMT DEF Lowest, Full
    <3>2. o % Lower = Lower - 1
      BY <3>0, SMT DEF Lower
    <3>3. o % (Top + 1) = Top
      BY <3>0, SMT DEF Top
    <3> QED
      BY <3>1, <3>2, <3>3, Zenon
  <2>3. MaskByte(o, Full)
    <3>1. o % 2 ^ BYTE = Full /\ o % 2 ^ (2 * BYTE) = Lower - 1 /\ o % 2 ^ WBITS = Top
      BY <2>2, Parts, Widths, Zenon
    <3> QED
      BY <3>1, PiecesOf, Zenon DEF MaskByte
  <2>4. Larger(x, y) = x
    BY <1>1, SMT DEF Larger
  <2> QED
    BY <2>3, <2>4, Zenon DEF o
<1>2. CASE ~ x > y
  <2>1. o = 0
    BY <1>2, SMT DEF Ones
  <2> HIDE DEF o
  <2>2. o % Lowest = 0 /\ o % Lower = 0 /\ o % (Top + 1) = 0
    BY <2>1, SMT DEF Top, Lower, Lowest
  <2>3. MaskByte(o, 0)
    <3>1. o % 2 ^ BYTE = 0 /\ o % 2 ^ (2 * BYTE) = 0 /\ o % 2 ^ WBITS = 0
      BY <2>2, Parts, Widths, Zenon
    <3> QED
      BY <3>1, PiecesOf, Zenon DEF MaskByte
  <2>4. Larger(x, y) = y
    BY <1>2, SMT DEF Larger
  <2> QED
    BY <2>3, <2>4, Zenon DEF o
<1> QED
  BY <1>1, <1>2

\* Signed bytes, halves, and signed words.
LEMMA LanesChoose ==
  ASSUME BYTE = 8, NEW a \in Bytes8, NEW b \in Bytes8, NEW n
  PROVE  /\ Chosen(Cases770("vcmpgtsb", a, b, n), Cases258("vmaxsb", a, b), a, b)
         /\ Chosen(Cases514("vcmpgtuh", a, b, n), Cases64("vmaxuh", a, b), a, b)
         /\ Chosen(Cases770("vcmpgtsw", a, b, n), Cases386("vmaxsw", a, b), a, b)
<1>1. Chosen(Cases770("vcmpgtsb", a, b, n), Cases258("vmaxsb", a, b), a, b)
  <2> DEFINE m == Cases770("vcmpgtsb", a, b, n)
             x == Cases258("vmaxsb", a, b)
  <2>1. /\ m = [k \in VecBytes |-> Ones(Sb(a, k) > Sb(b, k)) % 2 ^ BYTE]
        /\ x = [k \in VecBytes |-> Larger(Sb(a, k), Sb(b, k)) % 2 ^ BYTE]
    BY Zenon DEF Cases770, Cases258, OfB
  <2> HIDE DEF m, x
  <2>2. ASSUME NEW k \in VecBytes
        PROVE  (m[k] = Full /\ x[k] = a[k]) \/ (m[k] = 0 /\ x[k] = b[k])
    <3> DEFINE p == Sb(a, k)
               q == Sb(b, k)
    <3>1. p \in Int /\ p % 2 ^ BYTE = a[k] /\ q \in Int /\ q % 2 ^ BYTE = b[k]
      BY SgnKeeps, Zenon DEF Sb, Bytes8
    <3>2. m[k] = Ones(p > q) % 2 ^ BYTE /\ x[k] = Larger(p, q) % 2 ^ BYTE
      BY <2>1, Zenon
    <3> HIDE DEF p, q
    <3>3. \/ MaskByte(Ones(p > q), Full) /\ Larger(p, q) = p
          \/ MaskByte(Ones(p > q), 0) /\ Larger(p, q) = q
      BY <3>1, LargerIs, Zenon
    <3>6. ASSUME NEW v, MaskByte(Ones(p > q), v) PROVE m[k] = v
      BY <3>2, <3>6, Zenon DEF MaskByte
    <3>7. CASE MaskByte(Ones(p > q), Full) /\ Larger(p, q) = p
      BY <3>1, <3>2, <3>6, <3>7, Zenon
    <3>8. CASE MaskByte(Ones(p > q), 0) /\ Larger(p, q) = q
      BY <3>1, <3>2, <3>6, <3>8, Zenon
    <3> QED
      BY <3>3, <3>7, <3>8, Zenon
  <2> QED
    BY <2>2, Zenon DEF Chosen, m, x
<1>2. Chosen(Cases514("vcmpgtuh", a, b, n), Cases64("vmaxuh", a, b), a, b)
  <2> DEFINE m == Cases514("vcmpgtuh", a, b, n)
             x == Cases64("vmaxuh", a, b)
  <2>1. /\ m = [k \in VecBytes |->
                  Piece(Ones(Hf(a, k \div 2) > Hf(b, k \div 2)) % 2 ^ (2 * BYTE), k % 2)]
        /\ x = [k \in VecBytes |->
                  Piece(Larger(Hf(a, k \div 2), Hf(b, k \div 2)) % 2 ^ (2 * BYTE), k % 2)]
    BY Zenon DEF Cases514, Cases64, OfH
  <2> HIDE DEF m, x
  <2>2. ASSUME NEW k \in VecBytes
        PROVE  (m[k] = Full /\ x[k] = a[k]) \/ (m[k] = 0 /\ x[k] = b[k])
    <3> DEFINE p == Hf(a, k \div 2)
               q == Hf(b, k \div 2)
               j == k % 2
    <3>1. /\ p \in Int /\ 0 <= p /\ p < Lower /\ Piece(p, j) = a[k]
          /\ q \in Int /\ 0 <= q /\ q < Lower /\ Piece(q, j) = b[k]
      BY HalfPieces, Zenon
    <3>2. /\ m[k] = Piece(Ones(p > q) % 2 ^ (2 * BYTE), j)
          /\ x[k] = Piece(Larger(p, q) % 2 ^ (2 * BYTE), j)
      BY <2>1, Zenon
    <3>3. j \in 0 .. 1
      BY SMT DEF VecBytes
    <3> HIDE DEF p, q, j
    <3>4. \/ MaskByte(Ones(p > q), Full) /\ Larger(p, q) = p
          \/ MaskByte(Ones(p > q), 0) /\ Larger(p, q) = q
      BY <3>1, LargerIs, Zenon
    <3>5. p % 2 ^ (2 * BYTE) = p /\ q % 2 ^ (2 * BYTE) = q
      <4>1. p % Lower = p /\ q % Lower = q
        BY <3>1, SMT DEF Lower
      <4> QED
        BY <4>1, Parts, Zenon
    <3>6. ASSUME NEW v, MaskByte(Ones(p > q), v) PROVE m[k] = v
      BY <3>2, <3>3, <3>6, Zenon DEF MaskByte
    <3>7. CASE MaskByte(Ones(p > q), Full) /\ Larger(p, q) = p
      BY <3>1, <3>2, <3>3, <3>5, <3>6, <3>7, Zenon
    <3>8. CASE MaskByte(Ones(p > q), 0) /\ Larger(p, q) = q
      BY <3>1, <3>2, <3>3, <3>5, <3>6, <3>8, Zenon
    <3> QED
      BY <3>4, <3>7, <3>8, Zenon
  <2> QED
    BY <2>2, Zenon DEF Chosen, m, x
<1>3. Chosen(Cases770("vcmpgtsw", a, b, n), Cases386("vmaxsw", a, b), a, b)
  <2> DEFINE m == Cases770("vcmpgtsw", a, b, n)
             x == Cases386("vmaxsw", a, b)
  <2>1. /\ m = [k \in VecBytes |->
                  Piece(Ones(Sw(a, k \div 4) > Sw(b, k \div 4)) % 2 ^ WBITS, k % 4)]
        /\ x = [k \in VecBytes |->
                  Piece(Larger(Sw(a, k \div 4), Sw(b, k \div 4)) % 2 ^ WBITS, k % 4)]
    BY Zenon DEF Cases770, Cases386, OfW
  <2> HIDE DEF m, x
  <2>2. ASSUME NEW k \in VecBytes
        PROVE  (m[k] = Full /\ x[k] = a[k]) \/ (m[k] = 0 /\ x[k] = b[k])
    <3> DEFINE p == Sw(a, k \div 4)
               q == Sw(b, k \div 4)
               j == k % 4
    <3>1. /\ p \in Int /\ Piece(p % 2 ^ WBITS, j) = a[k]
          /\ q \in Int /\ Piece(q % 2 ^ WBITS, j) = b[k]
      BY WordPieces, SgnKeeps, Zenon DEF Sw
    <3>2. /\ m[k] = Piece(Ones(p > q) % 2 ^ WBITS, j)
          /\ x[k] = Piece(Larger(p, q) % 2 ^ WBITS, j)
      BY <2>1, Zenon
    <3>3. j \in 0 .. 3
      BY SMT DEF VecBytes
    <3> HIDE DEF p, q, j
    <3>4. \/ MaskByte(Ones(p > q), Full) /\ Larger(p, q) = p
          \/ MaskByte(Ones(p > q), 0) /\ Larger(p, q) = q
      BY <3>1, LargerIs, Zenon
    <3>6. ASSUME NEW v, MaskByte(Ones(p > q), v) PROVE m[k] = v
      BY <3>2, <3>3, <3>6, Zenon DEF MaskByte
    <3>7. CASE MaskByte(Ones(p > q), Full) /\ Larger(p, q) = p
      BY <3>1, <3>2, <3>3, <3>6, <3>7, Zenon
    <3>8. CASE MaskByte(Ones(p > q), 0) /\ Larger(p, q) = q
      BY <3>1, <3>2, <3>3, <3>6, <3>8, Zenon
    <3> QED
      BY <3>4, <3>7, <3>8, Zenon
  <2> QED
    BY <2>2, Zenon DEF Chosen, m, x
<1> QED
  BY <1>1, <1>2, <1>3, Zenon

\* A selection by the mask is the maximum.
LEMMA SelectIsMaximum ==
  ASSUME BYTE = 8, NEW a \in Bytes8, NEW b \in Bytes8, NEW m, NEW x,
         x = [k \in VecBytes |-> x[k]], Chosen(m, x, a, b), NEW n, NEW junk
  PROVE  Cases36("vsel", b, a, m, n, junk) = x
<1>1. Cases36("vsel", b, a, m, n, junk)
        = [k \in VecBytes |-> OrW(AndW(b[k], NotW(m[k])), AndW(a[k], m[k])) % 2 ^ BYTE]
  BY Zenon DEF Cases36, OfB
<1>2. ASSUME NEW k \in VecBytes
      PROVE  OrW(AndW(b[k], NotW(m[k])), AndW(a[k], m[k])) % 2 ^ BYTE = x[k]
  <2>1. a[k] \in Byte /\ b[k] \in Byte
    BY Zenon DEF Bytes8
  <2>2. /\ OrW(AndW(b[k], NotW(0)), AndW(a[k], 0)) = b[k]
        /\ OrW(AndW(b[k], NotW(Full)), AndW(a[k], Full)) = a[k]
    BY <2>1, SelectsByte, Zenon DEF Full
  <2>3. OrW(AndW(b[k], NotW(m[k])), AndW(a[k], m[k])) = x[k] /\ (x[k] = a[k] \/ x[k] = b[k])
    BY <2>2, Zenon DEF Chosen
  <2>4. x[k] % 2 ^ BYTE = x[k]
    <3>1. x[k] \in Int /\ 0 <= x[k] /\ x[k] <= 255
      BY <2>1, <2>3, ByteIs, Zenon
    <3>2. x[k] % Lowest = x[k]
      BY <3>1, SMT DEF Lowest
    <3> QED
      BY <3>2, Parts, Zenon
  <2> QED
    BY <2>3, <2>4, Zenon
<1> QED
  BY <1>1, <1>2, Zenon

\* A program that selects by a comparison gt what the maximum mx gives: the mask
\* of v0 > v1 into v2, the maximum into v3, the selection into v0.
SelectIs(name, gt, mx) ==
  LET P == Programs[name]
  IN  /\ DOMAIN P = {0, 4, 8}
      /\ \A i \in P[0] : i.op = gt /\ i.D = 2 /\ i.A = 0 /\ i.B = 1
      /\ \A i \in P[4] : i.op = mx /\ i.D = 3 /\ i.A = 0 /\ i.B = 1
      /\ \A i \in P[8] : i.op = "vsel" /\ i.D = 0 /\ i.A = 1 /\ i.B = 0 /\ i.C = 2
      /\ \A e \in Starts[name] : e.vr \in [VRegs -> Bytes8]

SelectionsAre ==
  /\ NVR > 3
  /\ SelectIs("select_sb", "vcmpgtsb", "vmaxsb")
  /\ SelectIs("select_uh", "vcmpgtuh", "vmaxuh")
  /\ SelectIs("select_sw", "vcmpgtsw", "vmaxsw")

Selections == {"select_sb", "select_uh", "select_sw"}

Greaters == {"vcmpgtsb", "vcmpgtuh", "vcmpgtsw"}
Maxima == {"vmaxsb", "vmaxuh", "vmaxsw"}

\* The mask and the maximum of two vectors.
MaskOf(p, a, b) ==
  CASE p = "select_sb" -> Cases770("vcmpgtsb", a, b, 0)
    [] p = "select_uh" -> Cases514("vcmpgtuh", a, b, 0)
    [] p = "select_sw" -> Cases770("vcmpgtsw", a, b, 0)

MaximumOf(p, a, b) ==
  CASE p = "select_sb" -> Cases258("vmaxsb", a, b)
    [] p = "select_uh" -> Cases64("vmaxuh", a, b)
    [] p = "select_sw" -> Cases386("vmaxsw", a, b)

\* They choose the same.
LEMMA MaximumIs ==
  ASSUME BYTE = 8, NEW a \in Bytes8, NEW b \in Bytes8, NEW p \in Selections
  PROVE  /\ Chosen(MaskOf(p, a, b), MaximumOf(p, a, b), a, b)
         /\ MaximumOf(p, a, b) = [k \in VecBytes |-> MaximumOf(p, a, b)[k]]
<1>1. CASE p = "select_sb"
  <2>1. MaskOf(p, a, b) = Cases770("vcmpgtsb", a, b, 0) /\ MaximumOf(p, a, b) = Cases258("vmaxsb", a, b)
    BY <1>1, Zenon DEF MaskOf, MaximumOf
  <2>2. Cases258("vmaxsb", a, b) = [k \in VecBytes |-> Cases258("vmaxsb", a, b)[k]]
    BY Zenon DEF Cases258, OfB
  <2> QED
    BY <2>1, <2>2, LanesChoose, Zenon
<1>2. CASE p = "select_uh"
  <2>1. MaskOf(p, a, b) = Cases514("vcmpgtuh", a, b, 0) /\ MaximumOf(p, a, b) = Cases64("vmaxuh", a, b)
    BY <1>2, Zenon DEF MaskOf, MaximumOf
  <2>2. Cases64("vmaxuh", a, b) = [k \in VecBytes |-> Cases64("vmaxuh", a, b)[k]]
    BY Zenon DEF Cases64, OfH
  <2> QED
    BY <2>1, <2>2, LanesChoose, Zenon
<1>3. CASE p = "select_sw"
  <2>1. MaskOf(p, a, b) = Cases770("vcmpgtsw", a, b, 0) /\ MaximumOf(p, a, b) = Cases386("vmaxsw", a, b)
    BY <1>3, Zenon DEF MaskOf, MaximumOf
  <2>2. Cases386("vmaxsw", a, b) = [k \in VecBytes |-> Cases386("vmaxsw", a, b)[k]]
    BY Zenon DEF Cases386, OfW
  <2> QED
    BY <2>1, <2>2, LanesChoose, Zenon
<1> QED
  BY <1>1, <1>2, <1>3, Zenon DEF Selections

\* The vector operations of these programs.
LEMMA SelectingActions ==
  ASSUME NEW i, i.op \in Greaters \cup Maxima \cup {"vsel"}, NEW junk, Step(i, junk)
  PROVE  \/ UNCHANGED <<vr, CIA>>
         \/ /\ vr' = [vr EXCEPT ![i.D] = Lanes(i, junk)]
            /\ CIA' = NIA
<1>1. ~ Integer(i, junk)
  <2>1. i.op \notin ArithmeticOps
    BY Zenon DEF Greaters, Maxima, ArithmeticOps
  <2>2. i.op \notin ImmediateLogic \cup RegisterLogic
    BY Zenon DEF Greaters, Maxima, ImmediateLogic, RegisterLogic
  <2> QED
    BY <2>1, <2>2, Zenon DEF Greaters, Maxima, Integer, Arithmetic, Divide, Logic, Extend,
         ShiftRightAlgebraic, Rotate, Compare, Trap, MoveToCR, MoveXERToCR, MoveFrom, MoveTo,
         CacheOp
<1>2. ~ Branches(i, junk)
  BY Zenon DEF Greaters, Maxima, Branches, BranchConditional, Branch, BranchToRegister,
       MoveCRField, CRLogic, CROps, ReturnFromInterrupt, SystemCall, Synchronize
<1>3. ~ LoadsAndStores(i, junk)
  BY Zenon DEF Greaters, Maxima, LoadsAndStores, Load, Store, Loads, Stores, LoadReserved,
       StoreConditional, LoadMultiple, StoreMultiple, LoadString, StoreString
<1>4. i.op \notin SaturatingOps /\ i.op \notin {"mfvscr", "mtvscr"}
  BY Zenon DEF Greaters, Maxima, SaturatingOps
<1>5. Vectors(i, junk)
  BY <1>1, <1>2, <1>3, Zenon DEF Step
<1>6. UNCHANGED <<vr, CIA>> \/ VectorLanes(i, junk)
  BY <1>4, <1>5, Zenon DEF Vectors, VectorSaturating, MoveVSCR, Fail
<1>7. VectorLanes(i, junk) => vr' = [vr EXCEPT ![i.D] = Lanes(i, junk)] /\ CIA' = NIA
  BY Zenon DEF VectorLanes, Complete, CompleteTo
<1> QED
  BY <1>6, <1>7, Zenon

\* What the operations of these programs put into their lanes.
LEMMA SelectingLanes ==
  ASSUME NVR > 3, NEW i, NEW junk, i.A \in {0, 1}
  PROVE  /\ i.op = "vcmpgtsb" => Lanes(i, junk) = Cases770(i.op, vr[i.A], vr[i.B], i.A)
         /\ i.op = "vcmpgtsw" => Lanes(i, junk) = Cases770(i.op, vr[i.A], vr[i.B], i.A)
         /\ i.op = "vcmpgtuh" => Lanes(i, junk) = Cases514(i.op, vr[i.A], vr[i.B], i.A)
         /\ i.op = "vmaxsb" => Lanes(i, junk) = Cases258(i.op, vr[i.A], vr[i.B])
         /\ i.op = "vmaxuh" => Lanes(i, junk) = Cases64(i.op, vr[i.A], vr[i.B])
         /\ i.op = "vmaxsw" => Lanes(i, junk) = Cases386(i.op, vr[i.A], vr[i.B])
         /\ i.op = "vsel" /\ i.C = 2 =>
              Lanes(i, junk) = Cases36(i.op, vr[i.A], vr[i.B], vr[2], i.C, junk)
<1>1. i.A % NVR = i.A /\ 2 % NVR = 2
  BY ProcessorAssumption, SMT
<1>2. Lanes(i, junk) =
        CASE i.op \in Cases0Ops    -> Cases0(i.op, vr[i.A], vr[i.B])
          [] i.op \in Cases36Ops   -> Cases36(i.op, vr[i.A], vr[i.B], vr[i.C % NVR], i.C, junk)
          [] i.op \in Cases64Ops   -> Cases64(i.op, vr[i.A], vr[i.B])
          [] i.op \in Cases258Ops  -> Cases258(i.op, vr[i.A], vr[i.B])
          [] i.op \in Cases386Ops  -> Cases386(i.op, vr[i.A], vr[i.B])
          [] i.op \in Cases514Ops  -> Cases514(i.op, vr[i.A], vr[i.B], i.A)
          [] i.op \in Cases642Ops  -> Cases642(i.op, vr[i.A], vr[i.B], i.A)
          [] i.op \in Cases770Ops  -> Cases770(i.op, vr[i.A], vr[i.B], i.A)
          [] i.op \in Cases1024Ops -> Cases1024(i.op, vr[i.A], vr[i.B])
          [] i.op \in Cases1282Ops -> Cases1282(i.op, vr[i.A], vr[i.B])
  BY <1>1, Zenon DEF Lanes
<1>3. CASE i.op \in {"vcmpgtsb", "vcmpgtsw"}
  <2>1. /\ i.op \in Cases770Ops
        /\ i.op \notin Cases0Ops /\ i.op \notin Cases36Ops /\ i.op \notin Cases64Ops
        /\ i.op \notin Cases258Ops /\ i.op \notin Cases386Ops /\ i.op \notin Cases514Ops
        /\ i.op \notin Cases642Ops /\ i.op \notin Cases1024Ops /\ i.op \notin Cases1282Ops
    BY <1>3, Zenon DEF Cases0Ops, Cases36Ops, Cases64Ops, Cases258Ops, Cases386Ops,
         Cases514Ops, Cases642Ops, Cases770Ops, Cases1024Ops, Cases1282Ops
  <2>2. Lanes(i, junk) = Cases770(i.op, vr[i.A], vr[i.B], i.A)
    BY <1>2, <2>1, Zenon
  <2> QED
    BY <1>1, <1>3, <2>2, Zenon
<1>4. CASE i.op \in {"vcmpgtuh"}
  <2>1. /\ i.op \in Cases514Ops
        /\ i.op \notin Cases0Ops /\ i.op \notin Cases36Ops /\ i.op \notin Cases64Ops
        /\ i.op \notin Cases258Ops /\ i.op \notin Cases386Ops /\ i.op \notin Cases642Ops
        /\ i.op \notin Cases770Ops /\ i.op \notin Cases1024Ops /\ i.op \notin Cases1282Ops
    BY <1>4, Zenon DEF Cases0Ops, Cases36Ops, Cases64Ops, Cases258Ops, Cases386Ops,
         Cases514Ops, Cases642Ops, Cases770Ops, Cases1024Ops, Cases1282Ops
  <2>2. Lanes(i, junk) = Cases514(i.op, vr[i.A], vr[i.B], i.A)
    BY <1>2, <2>1, Zenon
  <2> QED
    BY <1>1, <1>4, <2>2, Zenon
<1>5. CASE i.op \in {"vmaxsb"}
  <2>1. /\ i.op \in Cases258Ops
        /\ i.op \notin Cases0Ops /\ i.op \notin Cases36Ops /\ i.op \notin Cases64Ops
        /\ i.op \notin Cases386Ops /\ i.op \notin Cases514Ops /\ i.op \notin Cases642Ops
        /\ i.op \notin Cases770Ops /\ i.op \notin Cases1024Ops /\ i.op \notin Cases1282Ops
    BY <1>5, Zenon DEF Cases0Ops, Cases36Ops, Cases64Ops, Cases258Ops, Cases386Ops,
         Cases514Ops, Cases642Ops, Cases770Ops, Cases1024Ops, Cases1282Ops
  <2>2. Lanes(i, junk) = Cases258(i.op, vr[i.A], vr[i.B])
    BY <1>2, <2>1, Zenon
  <2> QED
    BY <1>1, <1>5, <2>2, Zenon
<1>6. CASE i.op \in {"vmaxuh"}
  <2>1. /\ i.op \in Cases64Ops
        /\ i.op \notin Cases0Ops /\ i.op \notin Cases36Ops /\ i.op \notin Cases258Ops
        /\ i.op \notin Cases386Ops /\ i.op \notin Cases514Ops /\ i.op \notin Cases642Ops
        /\ i.op \notin Cases770Ops /\ i.op \notin Cases1024Ops /\ i.op \notin Cases1282Ops
    BY <1>6, Zenon DEF Cases0Ops, Cases36Ops, Cases64Ops, Cases258Ops, Cases386Ops,
         Cases514Ops, Cases642Ops, Cases770Ops, Cases1024Ops, Cases1282Ops
  <2>2. Lanes(i, junk) = Cases64(i.op, vr[i.A], vr[i.B])
    BY <1>2, <2>1, Zenon
  <2> QED
    BY <1>1, <1>6, <2>2, Zenon
<1>7. CASE i.op \in {"vmaxsw"}
  <2>1. /\ i.op \in Cases386Ops
        /\ i.op \notin Cases0Ops /\ i.op \notin Cases36Ops /\ i.op \notin Cases64Ops
        /\ i.op \notin Cases258Ops /\ i.op \notin Cases514Ops /\ i.op \notin Cases642Ops
        /\ i.op \notin Cases770Ops /\ i.op \notin Cases1024Ops /\ i.op \notin Cases1282Ops
    BY <1>7, Zenon DEF Cases0Ops, Cases36Ops, Cases64Ops, Cases258Ops, Cases386Ops,
         Cases514Ops, Cases642Ops, Cases770Ops, Cases1024Ops, Cases1282Ops
  <2>2. Lanes(i, junk) = Cases386(i.op, vr[i.A], vr[i.B])
    BY <1>2, <2>1, Zenon
  <2> QED
    BY <1>1, <1>7, <2>2, Zenon
<1>8. CASE i.op \in {"vsel"}
  <2>1. /\ i.op \in Cases36Ops
        /\ i.op \notin Cases0Ops /\ i.op \notin Cases64Ops /\ i.op \notin Cases258Ops
        /\ i.op \notin Cases386Ops /\ i.op \notin Cases514Ops /\ i.op \notin Cases642Ops
        /\ i.op \notin Cases770Ops /\ i.op \notin Cases1024Ops /\ i.op \notin Cases1282Ops
    BY <1>8, Zenon DEF Cases0Ops, Cases36Ops, Cases64Ops, Cases258Ops, Cases386Ops,
         Cases514Ops, Cases642Ops, Cases770Ops, Cases1024Ops, Cases1282Ops
  <2>2. Lanes(i, junk) = Cases36(i.op, vr[i.A], vr[i.B], vr[i.C % NVR], i.C, junk)
    BY <1>2, <2>1, Zenon
  <2> QED
    BY <1>1, <1>8, <2>2, Zenon
<1> QED
  BY <1>3, <1>4, <1>5, <1>6, <1>7, <1>8, Zenon

\* The inductive invariant: the mask is made, then the maximum.
SelectInv ==
  prog \in Selections =>
    /\ CIA \in {0, 4, 8} => DOMAIN vr = VRegs /\ vr[0] \in Bytes8 /\ vr[1] \in Bytes8
    /\ CIA \in {4, 8} => vr[2] = MaskOf(prog, vr[0], vr[1])
    /\ CIA = 8 => vr[3] = MaximumOf(prog, vr[0], vr[1])
    /\ CIA \notin {0, 4, 8} => vr[0] = vr[3]

\* The instructions of a selection.
LEMMA SelectionIs ==
  ASSUME SelectionsAre, NEW p \in Selections
  PROVE  LET P == Programs[p]
         IN  /\ {0, 1, 2, 3} \subseteq VRegs /\ NVR > 3
             /\ DOMAIN P = {0, 4, 8}
             /\ \A i \in P[0] : /\ i.op \in Greaters /\ i.D = 2 /\ i.A = 0 /\ i.B = 1
                                /\ \A junk : Lanes(i, junk) = MaskOf(p, vr[0], vr[1])
             /\ \A i \in P[4] : /\ i.op \in Maxima /\ i.D = 3 /\ i.A = 0 /\ i.B = 1
                                /\ \A junk : Lanes(i, junk) = MaximumOf(p, vr[0], vr[1])
             /\ \A i \in P[8] : /\ i.op = "vsel" /\ i.D = 0 /\ i.A = 1 /\ i.B = 0 /\ i.C = 2
                                /\ \A junk : Lanes(i, junk)
                                               = Cases36("vsel", vr[1], vr[0], vr[2], 2, junk)
<1>1. {0, 1, 2, 3} \subseteq VRegs /\ NVR > 3
  <2>1. NVR \in Nat /\ NVR > 3
    BY ProcessorAssumption, Zenon DEF SelectionsAre
  <2> QED
    BY <2>1, SMT DEF VRegs
<1>2. 0 \in {0, 1} /\ 1 \in {0, 1}
  OBVIOUS
<1> DEFINE Masks(gt) == \A i, junk : i.op = gt /\ i.A = 0 /\ i.B = 1 =>
                          Lanes(i, junk) = MaskOf(p, vr[0], vr[1])
           Maximizes(mx) == \A i, junk : i.op = mx /\ i.A = 0 /\ i.B = 1 =>
                              Lanes(i, junk) = MaximumOf(p, vr[0], vr[1])
<1>3. ASSUME NEW i, NEW junk, i.op = "vsel", i.A = 1, i.B = 0, i.C = 2
      PROVE  Lanes(i, junk) = Cases36("vsel", vr[1], vr[0], vr[2], 2, junk)
  <2>1. Lanes(i, junk) = Cases36(i.op, vr[i.A], vr[i.B], vr[2], i.C, junk)
    BY <1>1, <1>2, <1>3, SelectingLanes
  <2> QED
    BY <1>3, <2>1
<1>4. \E gt \in Greaters, mx \in Maxima : SelectIs(p, gt, mx) /\ Masks(gt) /\ Maximizes(mx)
  <2>1. CASE p = "select_sb"
    <3>1. ASSUME NEW i, NEW junk, i.op = "vcmpgtsb", i.A = 0, i.B = 1
          PROVE  Lanes(i, junk) = MaskOf(p, vr[0], vr[1])
      <4>1. Lanes(i, junk) = Cases770(i.op, vr[i.A], vr[i.B], i.A)
        BY <1>1, <1>2, <3>1, SelectingLanes
      <4>2. MaskOf(p, vr[0], vr[1]) = Cases770("vcmpgtsb", vr[0], vr[1], 0)
        BY <2>1, Zenon DEF MaskOf
      <4> QED
        BY <3>1, <4>1, <4>2
    <3>2. ASSUME NEW i, NEW junk, i.op = "vmaxsb", i.A = 0, i.B = 1
          PROVE  Lanes(i, junk) = MaximumOf(p, vr[0], vr[1])
      <4>1. Lanes(i, junk) = Cases258(i.op, vr[i.A], vr[i.B])
        BY <1>1, <1>2, <3>2, SelectingLanes
      <4>2. MaximumOf(p, vr[0], vr[1]) = Cases258("vmaxsb", vr[0], vr[1])
        BY <2>1, Zenon DEF MaximumOf
      <4> QED
        BY <3>2, <4>1, <4>2
    <3>3. SelectIs(p, "vcmpgtsb", "vmaxsb") /\ "vcmpgtsb" \in Greaters /\ "vmaxsb" \in Maxima
      BY <2>1, Zenon DEF SelectionsAre, Greaters, Maxima
    <3>4. Masks("vcmpgtsb") /\ Maximizes("vmaxsb")
      BY <3>1, <3>2, Zenon
    <3> HIDE DEF Masks, Maximizes
    <3> QED
      BY <3>3, <3>4, Zenon
  <2>2. CASE p = "select_uh"
    <3>1. ASSUME NEW i, NEW junk, i.op = "vcmpgtuh", i.A = 0, i.B = 1
          PROVE  Lanes(i, junk) = MaskOf(p, vr[0], vr[1])
      <4>1. Lanes(i, junk) = Cases514(i.op, vr[i.A], vr[i.B], i.A)
        BY <1>1, <1>2, <3>1, SelectingLanes
      <4>2. MaskOf(p, vr[0], vr[1]) = Cases514("vcmpgtuh", vr[0], vr[1], 0)
        BY <2>2, Zenon DEF MaskOf
      <4> QED
        BY <3>1, <4>1, <4>2
    <3>2. ASSUME NEW i, NEW junk, i.op = "vmaxuh", i.A = 0, i.B = 1
          PROVE  Lanes(i, junk) = MaximumOf(p, vr[0], vr[1])
      <4>1. Lanes(i, junk) = Cases64(i.op, vr[i.A], vr[i.B])
        BY <1>1, <1>2, <3>2, SelectingLanes
      <4>2. MaximumOf(p, vr[0], vr[1]) = Cases64("vmaxuh", vr[0], vr[1])
        BY <2>2, Zenon DEF MaximumOf
      <4> QED
        BY <3>2, <4>1, <4>2
    <3>3. SelectIs(p, "vcmpgtuh", "vmaxuh") /\ "vcmpgtuh" \in Greaters /\ "vmaxuh" \in Maxima
      BY <2>2, Zenon DEF SelectionsAre, Greaters, Maxima
    <3>4. Masks("vcmpgtuh") /\ Maximizes("vmaxuh")
      BY <3>1, <3>2, Zenon
    <3> HIDE DEF Masks, Maximizes
    <3> QED
      BY <3>3, <3>4, Zenon
  <2>3. CASE p = "select_sw"
    <3>1. ASSUME NEW i, NEW junk, i.op = "vcmpgtsw", i.A = 0, i.B = 1
          PROVE  Lanes(i, junk) = MaskOf(p, vr[0], vr[1])
      <4>1. Lanes(i, junk) = Cases770(i.op, vr[i.A], vr[i.B], i.A)
        BY <1>1, <1>2, <3>1, SelectingLanes
      <4>2. MaskOf(p, vr[0], vr[1]) = Cases770("vcmpgtsw", vr[0], vr[1], 0)
        BY <2>3, Zenon DEF MaskOf
      <4> QED
        BY <3>1, <4>1, <4>2
    <3>2. ASSUME NEW i, NEW junk, i.op = "vmaxsw", i.A = 0, i.B = 1
          PROVE  Lanes(i, junk) = MaximumOf(p, vr[0], vr[1])
      <4>1. Lanes(i, junk) = Cases386(i.op, vr[i.A], vr[i.B])
        BY <1>1, <1>2, <3>2, SelectingLanes
      <4>2. MaximumOf(p, vr[0], vr[1]) = Cases386("vmaxsw", vr[0], vr[1])
        BY <2>3, Zenon DEF MaximumOf
      <4> QED
        BY <3>2, <4>1, <4>2
    <3>3. SelectIs(p, "vcmpgtsw", "vmaxsw") /\ "vcmpgtsw" \in Greaters /\ "vmaxsw" \in Maxima
      BY <2>3, Zenon DEF SelectionsAre, Greaters, Maxima
    <3>4. Masks("vcmpgtsw") /\ Maximizes("vmaxsw")
      BY <3>1, <3>2, Zenon
    <3> HIDE DEF Masks, Maximizes
    <3> QED
      BY <3>3, <3>4, Zenon
  <2> QED
    BY <2>1, <2>2, <2>3, Zenon DEF Selections
<1>5. PICK gt \in Greaters, mx \in Maxima : SelectIs(p, gt, mx) /\ Masks(gt) /\ Maximizes(mx)
  BY <1>4, Zenon
<1> QED
  BY <1>1, <1>3, <1>5, Zenon DEF SelectIs

\* Every instruction of a selection keeps its invariant.
LEMMA SelectStep ==
  ASSUME BYTE = 8, SelectionsAre, TraceInv, SelectInv, prog \in Selections, Next
  PROVE  SelectInv'
<1> DEFINE P == Programs[prog]
           a == vr[0]
           b == vr[1]
<1>1. PICK i \in P[CIA], junk \in Junk : Step(i, junk)
  BY Zenon DEF Next
<1>2. CIA \in {0, 4, 8} /\ prog' = prog
  BY <1>1, SelectionIs, Zenon DEF Next, Running, Step
<1>3. DOMAIN vr = VRegs /\ a \in Bytes8 /\ b \in Bytes8 /\ {0, 1, 2, 3} \subseteq VRegs
  BY <1>2, SelectionIs, Zenon DEF SelectInv
<1>4. Low(0 + 4) = 4 /\ Low(4 + 4) = 8 /\ Low(8 + 4) = 12 /\ NIA = Low(CIA + 4)
  <2>1. 4 <= Top /\ 8 <= Top /\ 12 <= Top /\ 0 + 4 = 4 /\ 4 + 4 = 8 /\ 8 + 4 = 12
    BY SMT DEF Top
  <2>2. 4 \in Word /\ 8 \in Word /\ 12 \in Word
    BY <2>1, WordIs, SMT
  <2> QED
    BY <2>1, <2>2, LowOfWord, Zenon DEF NIA
<1>5. \/ UNCHANGED <<vr, CIA>>
      \/ vr' = [vr EXCEPT ![i.D] = Lanes(i, junk)] /\ CIA' = NIA
  <2>1. i.op \in Greaters \cup Maxima \cup {"vsel"}
    BY <1>1, <1>2, SelectionIs, Zenon
  <2>2. Step(i, junk)
    BY <1>1, Zenon
  <2> QED
    BY <2>1, <2>2, SelectingActions, Zenon
<1>6. CASE UNCHANGED <<vr, CIA>>
  BY <1>2, <1>6, Zenon DEF SelectInv
<1>7. CASE vr' = [vr EXCEPT ![i.D] = Lanes(i, junk)] /\ CIA' = NIA
  <2>0. 0 # 1 /\ 0 # 2 /\ 0 # 3 /\ 1 # 2 /\ 1 # 3 /\ 2 # 3 /\ 0 # 4 /\ 0 # 8 /\ 4 # 8
        /\ 12 # 0 /\ 12 # 4 /\ 12 # 8
    OBVIOUS
  <2>1. CASE CIA = 0
    <3>1. i.D = 2 /\ Lanes(i, junk) = MaskOf(prog, a, b)
      BY <1>1, <2>1, SelectionIs, Zenon
    <3>2. CIA' = 4
      BY <1>4, <1>7, <2>1, Zenon
    <3>3. DOMAIN vr' = VRegs /\ vr'[0] = a /\ vr'[1] = b /\ vr'[2] = MaskOf(prog, a, b)
      BY <1>3, <1>7, <2>0, <3>1, Zenon
    <3> QED
      BY <1>2, <1>3, <2>0, <3>2, <3>3, Zenon DEF SelectInv
  <2>2. CASE CIA = 4
    <3>1. i.D = 3 /\ Lanes(i, junk) = MaximumOf(prog, a, b)
      BY <1>1, <2>2, SelectionIs, Zenon
    <3>2. CIA' = 8 /\ vr[2] = MaskOf(prog, a, b)
      BY <1>4, <1>7, <2>2, Zenon DEF SelectInv
    <3>3. DOMAIN vr' = VRegs /\ vr'[0] = a /\ vr'[1] = b /\ vr'[2] = MaskOf(prog, a, b)
          /\ vr'[3] = MaximumOf(prog, a, b)
      BY <1>3, <1>7, <2>0, <3>1, <3>2, Zenon
    <3> QED
      BY <1>2, <1>3, <2>0, <3>2, <3>3, Zenon DEF SelectInv
  <2>3. CASE CIA = 8
    <3> DEFINE m == vr[2]
               x == vr[3]
    <3>1. i.D = 0 /\ Lanes(i, junk) = Cases36("vsel", b, a, m, 2, junk)
      BY <1>1, <2>3, SelectionIs, Zenon
    <3>2. CIA' = 12 /\ m = MaskOf(prog, a, b) /\ x = MaximumOf(prog, a, b)
      BY <1>4, <1>7, <2>3, Zenon DEF SelectInv
    <3>3. Chosen(m, x, a, b) /\ x = [k \in VecBytes |-> x[k]]
      BY <1>3, <3>2, MaximumIs, Zenon
    <3> HIDE DEF a, b, m, x
    <3>4. Lanes(i, junk) = x
      <4>1. a \in Bytes8 /\ b \in Bytes8
        BY <1>3
      <4>2. Cases36("vsel", b, a, m, 2, junk) = x
        BY <3>3, <4>1, SelectIsMaximum
      <4> QED
        BY <3>1, <4>2, Zenon
    <3>5. vr'[0] = x /\ vr'[3] = x
      BY <1>3, <1>7, <2>0, <3>1, <3>4, Zenon DEF x, a, b
    <3> QED
      BY <1>2, <2>0, <3>2, <3>5, Zenon DEF SelectInv, a, b
  <2> QED
    BY <1>2, <2>1, <2>2, <2>3, Zenon
<1> QED
  BY <1>5, <1>6, <1>7, Zenon

\* At the width of the code, a branch on a bit of the field that the comparison
\* before it wrote goes where the relation of the two registers says, whichever
\* field, comparison, direction and target it has, and whatever XER holds; and
\* the mask of a comparison of vectors selects the greater of each lane, whatever
\* the vectors hold, for signed bytes, halves and signed words.
THEOREM ChoiceTheorem ==
  ASSUME BYTE = 8, BranchIs(Programs["branch"]), SelectionsAre
  PROVE  Spec => []ChoiceFollowsCompare
<1>1. Init => BranchInv /\ EntryInv /\ SelectInv
  <2> SUFFICES ASSUME Init PROVE BranchInv /\ EntryInv /\ SelectInv
    OBVIOUS
  <2>1. 0 # 4 /\ 0 # 8 /\ 0 \in {0, 4} /\ 0 \in {0, 4, 8}
    OBVIOUS
  <2>2. BranchInv /\ EntryInv
    BY <2>1, ProgramsAssumption, Zenon DEF Init, BranchInv, EntryInv
  <2>3. ASSUME prog \in Selections PROVE vr \in [VRegs -> Bytes8]
    BY <2>3, Zenon DEF Init, Selections, SelectionsAre, SelectIs
  <2>4. ASSUME prog \in Selections PROVE DOMAIN vr = VRegs /\ vr[0] \in Bytes8 /\ vr[1] \in Bytes8
    BY <2>3, <2>4, SelectionIs, Zenon
  <2>5. CIA = 0
    BY Zenon DEF Init
  <2> QED
    BY <2>1, <2>2, <2>4, <2>5, Zenon DEF SelectInv
<1>2. TraceInv /\ WordsInv /\ EntryInv /\ BranchInv /\ [Next]_vars => BranchInv'
  <2> SUFFICES ASSUME TraceInv, WordsInv, EntryInv, BranchInv, [Next]_vars  PROVE BranchInv'
    OBVIOUS
  <2>1. CASE UNCHANGED vars
    BY <2>1, Zenon DEF vars, BranchInv, Less, Same
  <2>2. CASE Next /\ prog = "branch"
    BY <2>2, BranchStep, Zenon
  <2>3. CASE Next /\ prog # "branch"
    BY <2>3, Zenon DEF Next, Step, BranchInv
  <2> QED
    BY <2>1, <2>2, <2>3, Zenon
<1>3. TraceInv /\ SelectInv /\ [Next]_vars => SelectInv'
  <2> SUFFICES ASSUME TraceInv, SelectInv, [Next]_vars  PROVE SelectInv'
    OBVIOUS
  <2>1. CASE UNCHANGED vars
    BY <2>1, Zenon DEF vars, SelectInv
  <2>2. CASE Next /\ prog \in Selections
    BY <2>2, SelectStep, Zenon
  <2>3. CASE Next /\ prog \notin Selections
    BY <2>3, Zenon DEF Next, Step, SelectInv
  <2> QED
    BY <2>1, <2>2, <2>3, Zenon
<1>4. BranchInv /\ SelectInv => ChoiceFollowsCompare
  <2> SUFFICES ASSUME BranchInv, SelectInv, Ended PROVE ChoiceFollowsCompare
    BY Zenon DEF ChoiceFollowsCompare
  <2>1. ASSUME prog \in Selections PROVE vr[0] = vr[3]
    BY <2>1, SelectionIs, Zenon DEF SelectInv, Ended
  <2>2. prog \in {"select_sb", "select_uh", "select_sw"} => vr[0] = vr[3]
    BY <2>1, Zenon DEF Selections
  <2> QED
    BY <2>2, Zenon DEF BranchInv, ChoiceFollowsCompare, Less, Same, Ended, BranchIs
<1> QED
  BY <1>1, <1>2, <1>3, <1>4, TraceTheorem, WordsTheorem, EntryStep, PTL DEF Spec

-----------------------------------------------------------------------------
(* Copies through registers and memory, and through a field of a register. *)

\* The bytes of a word of bytes.
LEMMA BytesOfWord ==
  ASSUME BYTE = 8, NEW b, b[0] \in Byte, b[1] \in Byte, b[2] \in Byte, b[3] \in Byte
  PROVE  /\ ByteOf(OfBytes(b), 0) = b[0] /\ ByteOf(OfBytes(b), 1) = b[1]
         /\ ByteOf(OfBytes(b), 2) = b[2] /\ ByteOf(OfBytes(b), 3) = b[3]
<1> DEFINE b0 == b[0]
           b1 == b[1]
           b2 == b[2]
           b3 == b[3]
           w == b0 * 16777216 + b1 * 65536 + b2 * 256 + b3
<1>1. /\ b0 \in Int /\ 0 <= b0 /\ b0 <= 255 /\ b1 \in Int /\ 0 <= b1 /\ b1 <= 255
      /\ b2 \in Int /\ 0 <= b2 /\ b2 <= 255 /\ b3 \in Int /\ 0 <= b3 /\ b3 <= 255
  BY ByteIs, Zenon
<1>2. OfBytes(b) = w
  BY SMT DEF OfBytes
<1>3. /\ BYTE * (3 - 0) = 24 /\ BYTE * (3 - 1) = 16 /\ BYTE * (3 - 2) = 8 /\ BYTE * (3 - 3) = 0
      /\ 2 ^ BYTE = Lowest
  BY SMT DEF Lowest
<1> HIDE DEF b0, b1, b2, b3, w
<1>4. \A k : ByteOf(OfBytes(b), k) = (w \div 2 ^ (BYTE * (3 - k))) % Lowest
  BY <1>2, <1>3, Zenon DEF ByteOf
<1>5. /\ (w \div 2 ^ 24) % Lowest = b0 /\ (w \div 2 ^ 16) % Lowest = b1
      /\ (w \div 2 ^ 8) % Lowest = b2 /\ (w \div 2 ^ 0) % Lowest = b3
  BY <1>1, SMT DEF w, Lowest
<1>6. /\ ByteOf(OfBytes(b), 0) = b0 /\ ByteOf(OfBytes(b), 1) = b1
      /\ ByteOf(OfBytes(b), 2) = b2 /\ ByteOf(OfBytes(b), 3) = b3
  BY <1>3, <1>4, <1>5, Zenon
<1> QED
  BY <1>6, Zenon DEF b0, b1, b2, b3

\* A word is its bytes.
LEMMA WordOfBytes ==
  ASSUME BYTE = 8, NEW x \in Word, NEW b,
         b[0] = ByteOf(x, 0), b[1] = ByteOf(x, 1), b[2] = ByteOf(x, 2), b[3] = ByteOf(x, 3)
  PROVE  OfBytes(b) = x
<1>1. x \in Int /\ 0 <= x /\ x <= Top
  BY WordIs, Zenon
<1>2. /\ BYTE * (3 - 0) = 24 /\ BYTE * (3 - 1) = 16 /\ BYTE * (3 - 2) = 8 /\ BYTE * (3 - 3) = 0
      /\ 2 ^ BYTE = 256 /\ 2 ^ (3 * BYTE) = 16777216 /\ 2 ^ (2 * BYTE) = 65536
  BY SMT
<1>3. /\ b[0] = (x \div 2 ^ 24) % 256 /\ b[1] = (x \div 2 ^ 16) % 256
      /\ b[2] = (x \div 2 ^ 8) % 256 /\ b[3] = (x \div 2 ^ 0) % 256
  BY <1>2, SMT DEF ByteOf
<1>4. OfBytes(b) = b[0] * 16777216 + b[1] * 65536 + b[2] * 256 + b[3]
  BY <1>2, SMT DEF OfBytes
<1> QED
  BY <1>1, <1>3, <1>4, SMT DEF Top

\* Swapping the bytes of a word twice changes nothing.
LEMMA SwappedTwice ==
  ASSUME BYTE = 8, NEW x \in Word
  PROVE  pSwap4Bytes(pSwap4Bytes(x)) = x
<1> DEFINE b == [k \in 0 .. 3 |-> ByteOf(x, 3 - k)]
           y == OfBytes(b)
           c == [k \in 0 .. 3 |-> ByteOf(y, 3 - k)]
<1>1. /\ b[0] = ByteOf(x, 3) /\ b[1] = ByteOf(x, 2) /\ b[2] = ByteOf(x, 1) /\ b[3] = ByteOf(x, 0)
      /\ c[0] = ByteOf(y, 3) /\ c[1] = ByteOf(y, 2) /\ c[2] = ByteOf(y, 1) /\ c[3] = ByteOf(y, 0)
  <2>1. /\ 3 - 0 = 3 /\ 3 - 1 = 2 /\ 3 - 2 = 1 /\ 3 - 3 = 0
        /\ 0 \in 0 .. 3 /\ 1 \in 0 .. 3 /\ 2 \in 0 .. 3 /\ 3 \in 0 .. 3
    BY SMT
  <2> HIDE DEF y
  <2> QED
    BY <2>1, Zenon
<1>2. pSwap4Bytes(x) = y /\ pSwap4Bytes(y) = OfBytes(c)
  BY Zenon DEF pSwap4Bytes
<1> HIDE DEF b, c
<1>3. b[0] \in Byte /\ b[1] \in Byte /\ b[2] \in Byte /\ b[3] \in Byte
  <2>1. 0 \in 0 .. 3 /\ 1 \in 0 .. 3 /\ 2 \in 0 .. 3 /\ 3 \in 0 .. 3
    BY SMT
  <2> QED
    BY <1>1, <2>1, ByteOfIsByte, Zenon
<1>4. /\ ByteOf(y, 0) = b[0] /\ ByteOf(y, 1) = b[1] /\ ByteOf(y, 2) = b[2] /\ ByteOf(y, 3) = b[3]
  BY <1>3, BytesOfWord, Zenon
<1>5. /\ c[0] = ByteOf(x, 0) /\ c[1] = ByteOf(x, 1) /\ c[2] = ByteOf(x, 2) /\ c[3] = ByteOf(x, 3)
  BY <1>1, <1>4, Zenon
<1>6. OfBytes(c) = x
  BY <1>5, WordOfBytes, Zenon
<1> QED
  BY <1>2, <1>6, Zenon

\* The same of a half, and a half is its two bytes.
LEMMA HalvesSwapped ==
  ASSUME BYTE = 8, NEW h \in Half
  PROVE  /\ SwapHalf(SwapHalf(h)) = h
         /\ ByteOf(h, 2) * 2 ^ BYTE + ByteOf(h, 3) = h
<1>1. h \in Int /\ 0 <= h /\ h < Lower
  BY HalfIs, Zenon
<1>2. \A g : SwapHalf(g) = (g % Lowest) * Lowest + g \div Lowest
  BY Parts, Zenon DEF SwapHalf
<1>3. BYTE * (3 - 2) = 8 /\ BYTE * (3 - 3) = 0 /\ 2 ^ BYTE = 256 /\ 2 ^ 8 = 256 /\ 2 ^ 0 = 1
  BY SMT
<1> DEFINE s == (h % Lowest) * Lowest + h \div Lowest
<1>4. (s % Lowest) * Lowest + s \div Lowest = h
  BY <1>1, SMT DEF Lower, Lowest
<1>5. SwapHalf(SwapHalf(h)) = h
  <2> HIDE DEF s
  <2>1. SwapHalf(h) = s
    BY <1>2, Zenon DEF s
  <2> QED
    BY <1>2, <1>4, <2>1, Zenon
<1>6. ByteOf(h, 2) = (h \div 256) % 256 /\ ByteOf(h, 3) = (h \div 1) % 256
  BY <1>3, Zenon DEF ByteOf
<1>7. ((h \div 256) % 256) * 256 + ((h \div 1) % 256) = h
  <2>1. h < 65536
    BY <1>1, SMT DEF Lower
  <2>2. h \div 1 = h /\ (h \div 256) % 256 = h \div 256 /\ h % 256 = h - 256 * (h \div 256)
    <3>1. h = 1 * h + 0
      BY <1>1, SMT
    <3>2. h \div 1 = h
      BY <1>1, <3>1, DivIs, SMT
    <3>3. (h \div 256) \in Int /\ 0 <= h \div 256 /\ h \div 256 <= 255
      BY <1>1, <2>1, SMT
    <3>4. (h \div 256) % 256 = h \div 256
      BY <3>3, SMT
    <3>5. h % 256 = h - 256 * (h \div 256)
      BY <1>1, SMT
    <3> QED
      BY <3>2, <3>4, <3>5, Zenon
  <2> DEFINE q == h \div 256
             r == h % 256
             t == (h \div 1) % 256
             u == q % 256
  <2>3. q \in Int /\ r = h - 256 * q /\ q % 256 = q
    BY <1>1, <2>2, SMT
  <2> HIDE DEF q, r
  <2>4. t = r /\ u = q
    BY <2>2, <2>3, Zenon DEF r
  <2> HIDE DEF t, u
  <2>5. u * 256 + t = h
    BY <1>1, <2>3, <2>4, SMT
  <2> QED
    BY <2>5, Zenon DEF q, t, u
<1>8. ByteOf(h, 2) * 2 ^ BYTE + ByteOf(h, 3) = h
  <2> DEFINE f == ByteOf(h, 2)
             g == ByteOf(h, 3)
             e == 2 ^ BYTE
  <2>1. f = (h \div 256) % 256 /\ g = (h \div 1) % 256 /\ e = 256
    BY <1>3, <1>6, Zenon
  <2> HIDE DEF e, f, g
  <2>2. f * 256 + g = h
    <3> DEFINE m == (h \div 256) % 256
               n == (h \div 1) % 256
    <3>1. m * 256 + n = h /\ f = m /\ g = n
      BY <1>7, <2>1, Zenon
    <3> HIDE DEF m, n
    <3> QED
      BY <3>1, Zenon
  <2>3. f * e + g = h
    BY <2>1, <2>2, Zenon
  <2> QED
    BY <2>3, Zenon DEF e, f, g
<1> QED
  BY <1>5, <1>8, Zenon

\* The operations that copy.
MemoryCopies == {"stmw", "lmw", "lsw", "stsw", "stwbrx", "lwbrx", "sthbrx", "lhbrx"}
RegisterCopies == {"nor", "neg", "rlwimi", "rlwinm"}

\* The actions they are part of.
LEMMA CopyingActions ==
  ASSUME NEW i, i.op \in MemoryCopies \cup RegisterCopies, NEW junk, Step(i, junk)
  PROVE  /\ i.op = "stmw" => StoreMultiple(i)
         /\ i.op = "lmw" => LoadMultiple(i)
         /\ i.op = "lsw" => LoadString(i)
         /\ i.op = "stsw" => StoreString(i)
         /\ i.op \in {"stwbrx", "sthbrx"} => Store(i)
         /\ i.op \in {"lwbrx", "lhbrx"} => Load(i, junk)
         /\ i.op = "nor" => Logic(i) /\ mem' = mem
         /\ i.op = "neg" => Arithmetic(i) /\ mem' = mem
         /\ i.op \in {"rlwimi", "rlwinm"} => Rotate(i, junk) /\ mem' = mem
<1>1. ~ Branches(i, junk)
  BY Zenon DEF MemoryCopies, RegisterCopies, Branches, BranchConditional, Branch,
       BranchToRegister, MoveCRField, CRLogic, CROps, ReturnFromInterrupt, SystemCall, Synchronize
<1>2. ~ Vectors(i, junk)
  <2>1. i.op \notin LaneOps
    <3>1. CASE i.op \in {"stmw", "lmw", "lsw", "stsw"}
      BY <3>1, Zenon DEF LaneOps, Cases0Ops, Cases36Ops, Cases64Ops, Cases258Ops, Cases386Ops,
           Cases514Ops, Cases642Ops, Cases770Ops, Cases1024Ops, Cases1282Ops
    <3>2. CASE i.op \in {"stwbrx", "lwbrx", "sthbrx", "lhbrx"}
      BY <3>2, Zenon DEF LaneOps, Cases0Ops, Cases36Ops, Cases64Ops, Cases258Ops, Cases386Ops,
           Cases514Ops, Cases642Ops, Cases770Ops, Cases1024Ops, Cases1282Ops
    <3>3. CASE i.op \in RegisterCopies
      BY <3>3, Zenon DEF RegisterCopies, LaneOps, Cases0Ops, Cases36Ops, Cases64Ops, Cases258Ops,
           Cases386Ops, Cases514Ops, Cases642Ops, Cases770Ops, Cases1024Ops, Cases1282Ops
    <3> QED
      BY <3>1, <3>2, <3>3, Zenon DEF MemoryCopies
  <2>2. i.op \notin SaturatingOps /\ i.op \notin {"mfvscr", "mtvscr"}
    BY Zenon DEF MemoryCopies, RegisterCopies, SaturatingOps
  <2> QED
    BY <2>1, <2>2, Zenon DEF Vectors, VectorLanes, VectorSaturating, MoveVSCR, VectorOps
<1>3. CASE i.op \in MemoryCopies
  <2>1. ~ Integer(i, junk)
    <3>1. i.op \notin ArithmeticOps /\ i.op \notin ImmediateLogic \cup RegisterLogic
      BY <1>3, Zenon DEF MemoryCopies, ArithmeticOps, ImmediateLogic, RegisterLogic
    <3> QED
      BY <1>3, <3>1, Zenon DEF MemoryCopies, Integer, Arithmetic, Divide, Logic, Extend,
         ShiftRightAlgebraic, Rotate, Compare, Trap, MoveToCR, MoveXERToCR, MoveFrom, MoveTo, CacheOp
  <2>2. LoadsAndStores(i, junk)
    BY <1>1, <1>2, <2>1, Zenon DEF Step
  <2>3. /\ i.op \in Loads <=> i.op \in {"lwbrx", "lhbrx"}
        /\ i.op \in Stores <=> i.op \in {"stwbrx", "sthbrx"}
    BY <1>3, Zenon DEF MemoryCopies, Loads, Stores
  <2>4. i.op \notin RegisterCopies
    BY <1>3, Zenon DEF MemoryCopies, RegisterCopies
  <2> QED
    BY <1>3, <2>2, <2>3, <2>4, Zenon DEF MemoryCopies, RegisterCopies, LoadsAndStores, Load, Store,
       LoadReserved, StoreConditional, LoadMultiple, StoreMultiple, LoadString, StoreString
<1>4. CASE i.op \in RegisterCopies
  <2>1. ~ LoadsAndStores(i, junk)
    BY <1>4, Zenon DEF RegisterCopies, LoadsAndStores, Load, Store, Loads, Stores, LoadReserved,
         StoreConditional, LoadMultiple, StoreMultiple, LoadString, StoreString
  <2>2. Integer(i, junk)
    BY <1>1, <1>2, <2>1, Zenon DEF Step
  <2>3. /\ i.op \in ArithmeticOps <=> i.op = "neg"
        /\ i.op \in ImmediateLogic \cup RegisterLogic <=> i.op = "nor"
    BY <1>4, Zenon DEF RegisterCopies, ArithmeticOps, ImmediateLogic, RegisterLogic
  <2>4. i.op \notin MemoryCopies
    BY <1>4, Zenon DEF MemoryCopies, RegisterCopies
  <2>5. mem' = mem
    BY <2>2, Zenon DEF Integer
  <2>6. Arithmetic(i) \/ Logic(i) \/ Rotate(i, junk)
    BY <1>4, <2>2, Zenon DEF RegisterCopies, Integer, Divide, Extend, ShiftRightAlgebraic,
         Compare, Trap, MoveToCR, MoveXERToCR, MoveFrom, MoveTo, CacheOp
  <2>7. /\ Arithmetic(i) => i.op = "neg"
        /\ Logic(i) => i.op = "nor"
        /\ Rotate(i, junk) => i.op \in {"rlwimi", "rlwinm", "rlwnm"}
    BY <2>3, Zenon DEF Arithmetic, Logic, Rotate
  <2> QED
    BY <1>4, <2>4, <2>5, <2>6, <2>7, Zenon DEF MemoryCopies, RegisterCopies
<1> QED
  BY <1>3, <1>4, Zenon

\* The address in r1, without a displacement or indexed from 0.
LEMMA FromR1 ==
  ASSUME BYTE = 8, RegsInv, 1 \in Regs, NEW i, i.u = FALSE,
         \/ i.x = FALSE /\ i.A = 1 /\ i.SIMM = 0
         \/ i.x = TRUE /\ i.A = 0 /\ i.B = 1
  PROVE  EA(i) = gpr[1] /\ gpr[1] \in Word
<1> DEFINE a == gpr[1]
<1>1. a \in Word /\ a \in Int
  <2>1. a \in Word
    BY Zenon DEF RegsInv
  <2> QED
    BY <2>1, WordIs, Zenon
<1>2. EXTS(0) = 0
  <2> DEFINE top == 32768
             d == (0 \div top) % 2
  <2>1. 2 * BYTE - 1 = 15 /\ 2 ^ 15 = top /\ d # 1
    BY SMT
  <2> HIDE DEF top
  <2>2. 2 ^ (2 * BYTE - 1) = top
    BY <2>1, Zenon
  <2> QED
    BY <2>1, <2>2, Zenon DEF EXTS
<1>3. a + 0 = a /\ 0 + a = a /\ 1 # 0
  BY <1>1, SMT
<1>4. CASE i.x = FALSE /\ i.A = 1 /\ i.SIMM = 0
  <2>1. Base(i) = a
    BY <1>3, <1>4, Zenon DEF Base
  <2>2. EA(i) = Low(a + 0)
    BY <1>2, <1>4, <2>1, Zenon DEF EA
  <2> QED
    BY <1>1, <1>3, <2>2, LowOfWord, Zenon
<1>5. CASE i.x = TRUE /\ i.A = 0 /\ i.B = 1
  <2>1. Base(i) = 0
    BY <1>5, Zenon DEF Base
  <2>2. EA(i) = Low(0 + a)
    BY <1>5, <2>1, Zenon DEF EA
  <2> QED
    BY <1>1, <1>3, <2>2, LowOfWord, Zenon
<1> QED
  BY <1>1, <1>4, <1>5, Zenon

\* A transfer that completes is a whole one.
LEMMA WholeTransfer ==
  ASSUME NEW i, NEW n \in Nat, NEW done \in 0 .. n, Multiple(i, n, done), ret' = 0
  PROVE  done = n /\ CIA' = NIA /\ spr' = Updated(spr, [Outcome(i, 0) EXCEPT !.oe = FALSE])
<1>1. DSI # 0
  BY SMT DEF DSI
<1>2. ~ done < n
  BY <1>1, Zenon DEF Multiple, Fail
<1>3. done = n
  BY <1>2, SMT
<1> QED
  BY <1>2, <1>3, Zenon DEF Multiple, Complete, CompleteTo

\* All registers are stored, one after the other.
LEMMA Saves ==
  ASSUME BYTE = 8, WordsInv, NEW i, StoreMultiple(i), i.D = 0, NEW CONSTANT a \in Word,
         a = EA(i), ret' = 0
  PROVE  /\ gpr' = gpr /\ CIA' = NIA
         /\ \A r \in Regs : MemWord(a + 4 * r)' = gpr[r]
<1> DEFINE n == WordsFrom(i)
           done == Transferred(a, n, 4)
           b == [k \in 0 .. 4 * done - 1 |-> ByteOf(gpr[i.D + k \div 4], k % 4)]
<1>1. /\ mem' = MemPut(a, 4 * done, b)
      /\ Multiple(i, n, done) /\ gpr' = gpr
  BY Zenon DEF StoreMultiple
<1>2. n = NREG /\ n \in Nat
  BY ProcessorAssumption, SMT DEF WordsFrom
<1>3. done \in 0 .. n /\ \A k \in 0 .. done - 1 : a + 4 * k \in Nat /\ Mapped(a + 4 * k)
  <2> HIDE DEF n
  <2> QED
    BY <1>2, TransferredIs, Zenon
<1> HIDE DEF n, done
<1>4. done = n /\ CIA' = NIA
  BY <1>1, <1>2, <1>3, WholeTransfer, Zenon
<1>5. a \in Int
  BY WordIs, Zenon
<1>6. ASSUME NEW r \in Regs PROVE MemWord(a + 4 * r)' = gpr[r]
  <2>1. r \in Nat /\ r \in 0 .. done - 1
    BY <1>2, <1>4, SMT DEF Regs
  <2> DEFINE x == a + 4 * r
  <2>2. x \in Nat /\ Mapped(x)
    BY <1>3, <2>1, Zenon
  <2>3. ASSUME NEW k \in 0 .. 3
        PROVE  /\ x + k \in MemBytes /\ (x + k) - a \in 0 .. 4 * done - 1
               /\ (x + k) - a = 4 * r + k /\ i.D + (4 * r + k) \div 4 = r /\ (4 * r + k) % 4 = k
    <3>1. x + k \in MemBytes
      BY <2>2, ProcessorAssumption, SMT DEF Mapped, MemBytes
    <3>2. (x + k) - a = 4 * r + k
      BY <1>5, <2>1, SMT
    <3>3. 4 * r + k \in 0 .. 4 * done - 1
      BY <1>2, <1>4, <2>1, SMT
    <3>4. (4 * r + k) \div 4 = r /\ (4 * r + k) % 4 = k
      BY <2>1, SMT
    <3>5. i.D + r = r
      BY <2>1, SMT
    <3> QED
      BY <3>1, <3>2, <3>3, <3>4, <3>5, Zenon
  <2>4. ASSUME NEW k \in 0 .. 3
        PROVE  mem'[x + k] = ByteOf(gpr[r], k)
    <3>1. mem'[x + k] = b[(x + k) - a]
      <4> HIDE DEF x, b
      <4> QED
        BY <1>1, <2>3, Zenon DEF MemPut
    <3>2. b[(x + k) - a] = ByteOf(gpr[r], k)
      <4>1. 4 * r + k \in 0 .. 4 * done - 1
        BY <2>3, Zenon
      <4>2. b[4 * r + k] = ByteOf(gpr[i.D + (4 * r + k) \div 4], (4 * r + k) % 4)
        BY <4>1, Zenon
      <4>3. b[4 * r + k] = ByteOf(gpr[r], k)
        BY <2>3, <4>2, Zenon
      <4> HIDE DEF b, x
      <4> QED
        BY <2>3, <4>3, Zenon
    <3> QED
      BY <3>1, <3>2, Zenon
  <2> DEFINE m == [k \in 0 .. 3 |-> mem'[x + k]]
  <2>5. MemWord(a + 4 * r)' = OfBytes(m)
    BY Zenon DEF MemWord
  <2>6. /\ m[0] = ByteOf(gpr[r], 0) /\ m[1] = ByteOf(gpr[r], 1)
        /\ m[2] = ByteOf(gpr[r], 2) /\ m[3] = ByteOf(gpr[r], 3)
    <3>1. 0 \in 0 .. 3 /\ 1 \in 0 .. 3 /\ 2 \in 0 .. 3 /\ 3 \in 0 .. 3
      BY SMT
    <3> HIDE DEF x
    <3> QED
      BY <2>4, <3>1, Zenon
  <2> HIDE DEF m
  <2>7. gpr[r] \in Word
    BY Zenon DEF WordsInv, RegsInv
  <2>8. OfBytes(m) = gpr[r]
    BY <2>6, <2>7, WordOfBytes, Zenon
  <2> QED
    BY <2>5, <2>8, Zenon
<1> QED
  BY <1>1, <1>4, <1>6, Zenon

\* And all are loaded again.
LEMMA Restores ==
  ASSUME BYTE = 8, NEW i, LoadMultiple(i), i.D = 0, EA(i) \in Word, ret' = 0
  PROVE  gpr' = [r \in Regs |-> MemWord(EA(i) + 4 * r)] /\ CIA' = NIA
<1> DEFINE a == EA(i)
           n == WordsFrom(i)
           done == Transferred(a, n, 4)
<1>1. /\ gpr' = [r \in Regs |-> IF r - i.D \in 0 .. done - 1
                                  THEN MemWord(a + 4 * (r - i.D)) ELSE gpr[r]]
      /\ Multiple(i, n, done)
  BY Zenon DEF LoadMultiple
<1>2. n = NREG /\ n \in Nat
  BY ProcessorAssumption, SMT DEF WordsFrom
<1>3. done \in 0 .. n
  <2> HIDE DEF n, a
  <2>1. a \in Word
    BY Zenon DEF a
  <2> QED
    BY <1>2, <2>1, TransferredIs, Zenon
<1> HIDE DEF n, done, a
<1>4. done = n /\ CIA' = NIA
  BY <1>1, <1>2, <1>3, WholeTransfer, Zenon
<1>5. \A r \in Regs : r - i.D \in 0 .. done - 1 /\ r - i.D = r
  BY <1>2, <1>4, SMT DEF Regs
<1>6. gpr' = [r \in Regs |-> MemWord(a + 4 * r)]
  BY <1>1, <1>5, Zenon
<1> QED
  BY <1>4, <1>6, Zenon DEF a

\* The addresses of a short program.
LEMMA Places ==
  ASSUME BYTE = 8
  PROVE  /\ Low(0 + 4) = 4 /\ Low(4 + 4) = 8 /\ Low(8 + 4) = 12 /\ Low(12 + 4) = 16
         /\ NIA = Low(CIA + 4)
<1>1. 4 <= Top /\ 8 <= Top /\ 12 <= Top /\ 16 <= Top
  BY SMT DEF Top
<1>2. 0 + 4 = 4 /\ 4 + 4 = 8 /\ 8 + 4 = 12 /\ 12 + 4 = 16
  BY SMT
<1>3. 4 \in Word /\ 8 \in Word /\ 12 \in Word /\ 16 \in Word
  BY <1>1, WordIs, SMT
<1> QED
  BY <1>2, <1>3, LowOfWord, Zenon DEF NIA

\* The registers stored at the address in r1, others changed, and all loaded.
SaveIs(P) ==
  /\ 1 \in Regs
  /\ DOMAIN P = {0, 4, 8, 12}
  /\ \A i \in P[0]  : i.op = "stmw" /\ i.D = 0 /\ i.A = 1 /\ i.SIMM = 0 /\ i.x = FALSE /\ i.u = FALSE
  /\ \A i \in P[4] \cup P[8] : (i.op = "nor" /\ i.A # 1) \/ (i.op = "neg" /\ i.D # 1)
  /\ \A i \in P[12] : i.op = "lmw" /\ i.D = 0 /\ i.A = 1 /\ i.SIMM = 0 /\ i.x = FALSE /\ i.u = FALSE

\* The inductive invariant: the registers are in memory.
SaveInv ==
  prog = "save" /\ ret = 0 =>
    /\ CIA = 0 => gpr = entry.gpr
    /\ CIA \in {4, 8, 12} => /\ gpr[1] = entry.gpr[1]
                             /\ \A r \in Regs : MemWord(entry.gpr[1] + 4 * r) = entry.gpr[r]
    /\ CIA \notin {0, 4, 8, 12} => gpr = entry.gpr

\* Every instruction keeps it.
LEMMA SaveStep ==
  ASSUME BYTE = 8, SaveIs(Programs["save"]), WordsInv, EntryInv, SaveInv, prog = "save", Next
  PROVE  SaveInv'
<1> DEFINE P == Programs["save"]
<1>1. PICK i \in P[CIA], junk \in Junk : Step(i, junk)
  BY Zenon DEF Next
<1>2. CIA \in {0, 4, 8, 12} /\ prog' = prog /\ entry' = entry /\ ret = 0
  BY <1>1, Zenon DEF Next, Running, SaveIs, Step
<1>3. SUFFICES ASSUME ret' = 0 PROVE SaveInv'
  BY Zenon DEF SaveInv
<1>4. RegsInv /\ 1 \in Regs
  BY Zenon DEF WordsInv, SaveIs
<1>5. entry.gpr \in [Regs -> Word]
  BY ProgramsAssumption, Zenon DEF EntryInv
<1>6. /\ 0 # 4 /\ 0 # 8 /\ 0 # 12 /\ 4 # 8 /\ 4 # 12 /\ 8 # 12
      /\ 16 # 0 /\ 16 # 4 /\ 16 # 8 /\ 16 # 12
  OBVIOUS
<1>7. CASE CIA = 0
  <2>1. i.op = "stmw" /\ i.D = 0 /\ i.A = 1 /\ i.SIMM = 0 /\ i.x = FALSE /\ i.u = FALSE
    BY <1>1, <1>7, Zenon DEF SaveIs
  <2>2. StoreMultiple(i)
    BY <1>1, <2>1, CopyingActions, Zenon DEF MemoryCopies
  <2>3. gpr = entry.gpr
    BY <1>2, <1>7, Zenon DEF SaveInv
  <2>4. EA(i) = entry.gpr[1] /\ entry.gpr[1] \in Word
    BY <1>4, <2>1, <2>3, FromR1, Zenon
  <2>5. PICK a \in Word : a = entry.gpr[1]
    BY <2>4, Zenon
  <2>6. /\ gpr' = gpr /\ CIA' = NIA
        /\ \A r \in Regs : MemWord(a + 4 * r)' = gpr[r]
    BY <2>1, <2>2, <2>4, <2>5, <1>3, Saves, Zenon
  <2>7. CIA' = 4
    BY <1>7, <2>6, Places, Zenon
  <2>8. \A r \in Regs : MemWord(entry.gpr[1] + 4 * r)' = entry.gpr[r]
    BY <1>2, <2>3, <2>5, <2>6, Zenon DEF MemWord
  <2> QED
    BY <1>2, <1>6, <2>3, <2>6, <2>7, <2>8, Zenon DEF SaveInv
<1>8. CASE CIA \in {4, 8}
  <2>1. (i.op = "nor" /\ i.A # 1) \/ (i.op = "neg" /\ i.D # 1)
    BY <1>1, <1>8, Zenon DEF SaveIs
  <2>2. ((Logic(i) /\ i.A # 1) \/ (Arithmetic(i) /\ i.D # 1)) /\ mem' = mem
    BY <1>1, <2>1, CopyingActions, Zenon DEF RegisterCopies
  <2>3. gpr'[1] = gpr[1] /\ CIA' = NIA
    <3>1. 1 \in DOMAIN gpr
      BY <1>4, Zenon DEF RegsInv
    <3> QED
      BY <2>2, <3>1, Zenon DEF Logic, Arithmetic, Complete, CompleteTo
  <2>4. CIA' = 8 \/ CIA' = 12
    BY <1>8, <2>3, Places, Zenon
  <2>5. /\ gpr[1] = entry.gpr[1]
        /\ \A r \in Regs : MemWord(entry.gpr[1] + 4 * r) = entry.gpr[r]
    BY <1>2, <1>8, Zenon DEF SaveInv
  <2>6. \A r \in Regs : MemWord(entry.gpr[1] + 4 * r)' = entry.gpr[r]
    BY <1>2, <2>2, <2>5, Zenon DEF MemWord
  <2> QED
    BY <1>2, <1>6, <2>3, <2>4, <2>5, <2>6, Zenon DEF SaveInv
<1>9. CASE CIA = 12
  <2>1. i.op = "lmw" /\ i.D = 0 /\ i.A = 1 /\ i.SIMM = 0 /\ i.x = FALSE /\ i.u = FALSE
    BY <1>1, <1>9, Zenon DEF SaveIs
  <2>2. LoadMultiple(i)
    BY <1>1, <2>1, CopyingActions, Zenon DEF MemoryCopies
  <2>3. /\ gpr[1] = entry.gpr[1]
        /\ \A r \in Regs : MemWord(entry.gpr[1] + 4 * r) = entry.gpr[r]
    BY <1>2, <1>9, Zenon DEF SaveInv
  <2>4. EA(i) = entry.gpr[1] /\ EA(i) \in Word
    BY <1>4, <2>1, <2>3, FromR1, Zenon
  <2>5. gpr' = [r \in Regs |-> MemWord(EA(i) + 4 * r)] /\ CIA' = NIA
    BY <2>1, <2>2, <2>4, <1>3, Restores, Zenon
  <2>6. gpr' = entry.gpr
    BY <1>5, <2>3, <2>4, <2>5, Zenon
  <2>7. CIA' = 16
    BY <1>9, <2>5, Places, Zenon
  <2> QED
    BY <1>2, <1>6, <2>6, <2>7, Zenon DEF SaveInv
<1> QED
  BY <1>2, <1>7, <1>8, <1>9, Zenon

\* A word and a half stored with their bytes reversed are in memory that way.
LEMMA StoresReversed ==
  ASSUME BYTE = 8, WordsInv, NEW i, Store(i), i.u = FALSE, ret' = 0, gpr[i.D] \in Word,
         NEW CONSTANT a \in Nat, a = EA(i)
  PROVE  /\ gpr' = gpr /\ CIA' = NIA
         /\ i.op = "stwbrx" => MemWord(a)' = pSwap4Bytes(gpr[i.D])
         /\ i.op = "sthbrx" => MemHalf(a)' = SwapHalf(gpr[i.D] % 2 ^ (2 * BYTE))
<1> DEFINE x == gpr[i.D]
           b == Stored(i, x)
<1>1. DSI # 0
  BY SMT DEF DSI
<1>2. /\ Mapped(a) /\ mem' = MemPut(a, Cardinality(DOMAIN b), b)
      /\ gpr' = gpr /\ CIA' = NIA
  BY <1>1, Zenon DEF Store, Fail, WriteBack, Complete, CompleteTo
<1>3. Cardinality(0 .. 3) = 4 /\ Cardinality(0 .. 1) = 2
  <2>1. 0 \in Int /\ 1 \in Int /\ 3 \in Int
    OBVIOUS
  <2>2. /\ Cardinality(0 .. 3) = (IF 0 > 3 THEN 0 ELSE 3 - 0 + 1)
        /\ Cardinality(0 .. 1) = (IF 0 > 1 THEN 0 ELSE 1 - 0 + 1)
    BY <2>1, FS_Interval, Zenon
  <2> QED
    BY <2>2, SMT
<1>4. ASSUME NEW k \in 0 .. 3, NEW n \in {2, 4}, k < n, NEW c, mem' = MemPut(a, n, c)
      PROVE  mem'[a + k] = c[k]
  <2>1. a + k \in MemBytes
    BY <1>2, ProcessorAssumption, SMT DEF Mapped, MemBytes
  <2>2. (a + k) - a = k /\ k \in 0 .. n - 1
    BY <1>4, SMT
  <2> QED
    BY <1>4, <2>1, <2>2, Zenon DEF MemPut
<1>5. 0 \in 0 .. 3 /\ 1 \in 0 .. 3 /\ 2 \in 0 .. 3 /\ 3 \in 0 .. 3 /\ 0 \in 0 .. 1 /\ 1 \in 0 .. 1
      /\ 0 < 4 /\ 1 < 4 /\ 2 < 4 /\ 3 < 4 /\ 0 < 2 /\ 1 < 2 /\ a + 0 = a
      /\ 2 + 0 = 2 /\ 2 + 1 = 3
  BY SMT
<1>6. CASE i.op = "stwbrx"
  <2> DEFINE y == pSwap4Bytes(x)
             w == [k \in 0 .. 3 |-> ByteOf(y, k)]
             m == [k \in 0 .. 3 |-> mem'[a + k]]
  <2>1. b = w
    BY <1>6, Zenon DEF Stored, WordBytes
  <2>2. mem' = MemPut(a, 4, w)
    <3> HIDE DEF b, y
    <3>1. DOMAIN w = 0 .. 3
      BY Zenon
    <3> HIDE DEF w
    <3> QED
      BY <1>2, <1>3, <2>1, <3>1, Zenon
  <2>3. /\ w[0] = ByteOf(y, 0) /\ w[1] = ByteOf(y, 1) /\ w[2] = ByteOf(y, 2) /\ w[3] = ByteOf(y, 3)
        /\ m[0] = mem'[a + 0] /\ m[1] = mem'[a + 1] /\ m[2] = mem'[a + 2] /\ m[3] = mem'[a + 3]
    <3> HIDE DEF y
    <3> QED
      BY <1>5, Zenon
  <2>4. MemWord(a)' = OfBytes(m)
    BY Zenon DEF MemWord
  <2> HIDE DEF w, m
  <2>5. mem'[a + 0] = w[0] /\ mem'[a + 1] = w[1] /\ mem'[a + 2] = w[2] /\ mem'[a + 3] = w[3]
    BY <1>4, <1>5, <2>2, Zenon
  <2>6. y \in Word
    BY SwappedIsWord, Zenon
  <2> HIDE DEF y
  <2>7. OfBytes(m) = y
    BY <2>3, <2>5, <2>6, WordOfBytes, Zenon
  <2>8. i.op # "sthbrx"
    BY <1>6, Zenon
  <2> QED
    BY <1>2, <2>4, <2>7, <2>8, Zenon DEF y
<1>7. CASE i.op = "sthbrx"
  <2> DEFINE h == x % 2 ^ (2 * BYTE)
             y == SwapHalf(h)
             w == [k \in 0 .. 1 |-> ByteOf(y, 2 + k)]
  <2>1. b = w
    BY <1>7, Zenon DEF Stored, HalfBytes
  <2>2. mem' = MemPut(a, 2, w)
    <3> HIDE DEF b, y
    <3>1. DOMAIN w = 0 .. 1
      BY Zenon
    <3> HIDE DEF w
    <3> QED
      BY <1>2, <1>3, <2>1, <3>1, Zenon
  <2>3. w[0] = ByteOf(y, 2) /\ w[1] = ByteOf(y, 3)
    <3> HIDE DEF y
    <3> QED
      BY <1>5, Zenon
  <2>4. MemHalf(a)' = mem'[a] * 2 ^ BYTE + mem'[a + 1]
    BY Zenon DEF MemHalf
  <2> HIDE DEF w
  <2>5. mem'[a] = w[0] /\ mem'[a + 1] = w[1]
    BY <1>4, <1>5, <2>2, Zenon
  <2>6. y \in Half
    <3>1. x \in Int
      BY WordIs, Zenon
    <3>2. x % Lower \in Int /\ 0 <= x % Lower /\ x % Lower < Lower
      <4> HIDE DEF x
      <4> QED
        BY <3>1, SMT DEF Lower
    <3>3. h = x % Lower
      BY Parts, Zenon
    <3>4. h \in Half
      BY <3>2, <3>3, HalfIs, Zenon
    <3> HIDE DEF h
    <3> QED
      BY <3>4, SwapHalfIsHalf, Zenon
  <2> HIDE DEF y
  <2>7. ByteOf(y, 2) * 2 ^ BYTE + ByteOf(y, 3) = y
    BY <2>6, HalvesSwapped, Zenon
  <2>8. MemHalf(a)' = y
    BY <2>3, <2>4, <2>5, <2>7, Zenon
  <2>9. i.op # "stwbrx"
    BY <1>7, Zenon
  <2> QED
    BY <1>2, <2>8, <2>9, Zenon DEF y
<1>8. CASE i.op \notin {"stwbrx", "sthbrx"}
  BY <1>2, <1>8, Zenon
<1> QED
  BY <1>6, <1>7, <1>8, Zenon

\* A load completes with what it reads.
LEMMA LoadsReversed ==
  ASSUME NEW i, NEW junk, Load(i, junk), i.u = FALSE, ret' = 0
  PROVE  /\ Mapped(EA(i)) /\ CIA' = NIA
         /\ i.op = "lwbrx" => gpr' = [gpr EXCEPT ![i.D] = pSwap4Bytes(MemWord(EA(i)))]
         /\ i.op = "lhbrx" => gpr' = [gpr EXCEPT ![i.D] = SwapHalf(MemHalf(EA(i)))]
<1>1. DSI # 0
  BY SMT DEF DSI
<1>2. /\ Mapped(EA(i)) /\ CIA' = NIA
      /\ gpr' = [gpr EXCEPT ![i.D] = Loaded(i, EA(i), junk)]
  BY <1>1, Zenon DEF Load, Fail, WriteBack, Complete, CompleteTo
<1>3. /\ i.op = "lwbrx" => Loaded(i, EA(i), junk) = pSwap4Bytes(MemWord(EA(i)))
      /\ i.op = "lhbrx" => Loaded(i, EA(i), junk) = SwapHalf(MemHalf(EA(i)))
  BY Zenon DEF Loaded
<1> QED
  BY <1>2, <1>3, Zenon

\* A word and its lower half stored and loaded again, their bytes reversed both times.
SwapIs(P) ==
  /\ {0, 1, 2, 3} \subseteq Regs
  /\ DOMAIN P = {0, 4, 8, 12}
  /\ \A i \in P[0]  : i.op = "stwbrx" /\ i.D = 2
  /\ \A i \in P[4]  : i.op = "lwbrx" /\ i.D = 3
  /\ \A i \in P[8]  : i.op = "sthbrx" /\ i.D = 2
  /\ \A i \in P[12] : i.op = "lhbrx" /\ i.D = 0
  /\ \A i \in UNION {P[a] : a \in DOMAIN P} : i.A = 0 /\ i.B = 1 /\ i.x = TRUE /\ i.u = FALSE

\* The lower half of a word.
LowerHalf(x) == x % 2 ^ (2 * BYTE)

\* The inductive invariant: what is in memory is the register reversed.
SwapInv ==
  prog = "swap" /\ ret = 0 =>
    /\ CIA = 4 => MemWord(gpr[1]) = pSwap4Bytes(gpr[2])
    /\ CIA = 8 => gpr[3] = gpr[2]
    /\ CIA = 12 => gpr[3] = gpr[2] /\ MemHalf(gpr[1]) = SwapHalf(LowerHalf(gpr[2]))
    /\ CIA \notin {0, 4, 8, 12} => gpr[3] = gpr[2] /\ gpr[0] = LowerHalf(gpr[2])

\* Every instruction keeps it.
LEMMA SwapStep ==
  ASSUME BYTE = 8, SwapIs(Programs["swap"]), WordsInv, SwapInv, prog = "swap", Next
  PROVE  SwapInv'
<1> DEFINE P == Programs["swap"]
<1>1. PICK i \in P[CIA], junk \in Junk : Step(i, junk)
  BY Zenon DEF Next
<1>2. CIA \in {0, 4, 8, 12} /\ prog' = prog /\ ret = 0
  BY <1>1, Zenon DEF Next, Running, SwapIs, Step
<1>3. SUFFICES ASSUME ret' = 0 PROVE SwapInv'
  BY Zenon DEF SwapInv
<1>4. /\ RegsInv /\ 0 \in Regs /\ 1 \in Regs /\ 2 \in Regs /\ 3 \in Regs
      /\ gpr[1] \in Word /\ gpr[2] \in Word
      /\ 0 \in DOMAIN gpr /\ 3 \in DOMAIN gpr
  <2>1. RegsInv /\ 0 \in Regs /\ 1 \in Regs /\ 2 \in Regs /\ 3 \in Regs
    BY Zenon DEF WordsInv, SwapIs
  <2> QED
    BY <2>1, Zenon DEF RegsInv
<1>5. i.A = 0 /\ i.B = 1 /\ i.x = TRUE /\ i.u = FALSE
  BY <1>1, <1>2, Zenon DEF SwapIs
<1>6. EA(i) = gpr[1]
  BY <1>4, <1>5, FromR1, Zenon
<1>7. PICK a \in Nat : a = gpr[1]
  <2>1. gpr[1] \in Nat
    BY <1>4, WordIs, SMT
  <2> QED
    BY <2>1, Zenon
<1>8. /\ 0 # 4 /\ 0 # 8 /\ 0 # 12 /\ 4 # 8 /\ 4 # 12 /\ 8 # 12
      /\ 16 # 0 /\ 16 # 4 /\ 16 # 8 /\ 16 # 12
      /\ 0 # 1 /\ 0 # 2 /\ 0 # 3 /\ 1 # 2 /\ 1 # 3 /\ 2 # 3
  OBVIOUS
<1>9. /\ CIA' = NIA => /\ CIA = 0 => CIA' = 4
                       /\ CIA = 4 => CIA' = 8
                       /\ CIA = 8 => CIA' = 12
                       /\ CIA = 12 => CIA' = 16
  BY Places, Zenon
<1>10. CASE CIA = 0
  <2>1. i.op = "stwbrx" /\ i.D = 2
    BY <1>1, <1>10, Zenon DEF SwapIs
  <2>2. Store(i)
    BY <1>1, <2>1, CopyingActions, Zenon DEF MemoryCopies
  <2>3. gpr' = gpr /\ CIA' = NIA /\ MemWord(a)' = pSwap4Bytes(gpr[i.D])
    <3>1. gpr[i.D] \in Word
      BY <1>4, <2>1, Zenon
    <3>2. a = EA(i)
      BY <1>6, <1>7, Zenon
    <3> QED
      BY <1>3, <1>5, <2>1, <2>2, <3>1, <3>2, StoresReversed, Zenon
  <2>4. MemWord(gpr[1])' = pSwap4Bytes(gpr[2])'
    <3>1. MemWord(gpr[1])' = MemWord(a)'
      BY <1>7, <2>3, Zenon DEF MemWord
    <3>2. pSwap4Bytes(gpr[2])' = pSwap4Bytes(gpr[2])
      BY <2>3, Zenon DEF pSwap4Bytes
    <3> QED
      BY <2>1, <2>3, <3>1, <3>2, Zenon
  <2>5. CIA' = 4
    BY <1>9, <1>10, <2>3, Zenon
  <2> QED
    BY <1>8, <2>4, <2>5, Zenon DEF SwapInv
<1>11. CASE CIA = 4
  <2>1. i.op = "lwbrx" /\ i.D = 3
    BY <1>1, <1>11, Zenon DEF SwapIs
  <2>2. Load(i, junk)
    BY <1>1, <2>1, CopyingActions, Zenon DEF MemoryCopies
  <2>3. CIA' = NIA /\ gpr' = [gpr EXCEPT ![3] = pSwap4Bytes(MemWord(gpr[1]))]
    <3>1. CIA' = NIA /\ gpr' = [gpr EXCEPT ![i.D] = pSwap4Bytes(MemWord(EA(i)))]
      BY <1>3, <1>5, <2>1, <2>2, LoadsReversed, Zenon
    <3> QED
      BY <1>6, <2>1, <3>1
  <2>4. MemWord(gpr[1]) = pSwap4Bytes(gpr[2])
    BY <1>2, <1>8, <1>11, Zenon DEF SwapInv
  <2>5. gpr'[3] = gpr[2] /\ gpr'[2] = gpr[2]
    <3>1. pSwap4Bytes(MemWord(gpr[1])) = gpr[2]
      BY <1>4, <2>4, SwappedTwice, Zenon
    <3> QED
      BY <1>4, <1>8, <2>3, <3>1
  <2>6. CIA' = 8
    BY <1>9, <1>11, <2>3, Zenon
  <2> QED
    BY <1>8, <2>5, <2>6, Zenon DEF SwapInv
<1>12. CASE CIA = 8
  <2>1. i.op = "sthbrx" /\ i.D = 2
    BY <1>1, <1>12, Zenon DEF SwapIs
  <2>2. Store(i)
    BY <1>1, <2>1, CopyingActions, Zenon DEF MemoryCopies
  <2>3. gpr' = gpr /\ CIA' = NIA /\ MemHalf(a)' = SwapHalf(gpr[i.D] % 2 ^ (2 * BYTE))
    <3>1. gpr[i.D] \in Word
      BY <1>4, <2>1, Zenon
    <3>2. a = EA(i)
      BY <1>6, <1>7, Zenon
    <3> QED
      BY <1>3, <1>5, <2>1, <2>2, <3>1, <3>2, StoresReversed, Zenon
  <2>4. MemHalf(gpr[1])' = SwapHalf(LowerHalf(gpr[2]))'
    <3>1. MemHalf(gpr[1])' = MemHalf(a)'
      BY <1>7, <2>3, Zenon DEF MemHalf
    <3>2. SwapHalf(LowerHalf(gpr[2]))' = SwapHalf(LowerHalf(gpr[2]))
      BY <2>3, Zenon DEF SwapHalf, LowerHalf
    <3>3. SwapHalf(LowerHalf(gpr[2])) = MemHalf(a)'
      BY <2>1, <2>3, Zenon DEF LowerHalf
    <3> QED
      BY <3>1, <3>2, <3>3, Zenon
  <2>5. CIA' = 12
    BY <1>9, <1>12, <2>3, Zenon
  <2>6. gpr[3] = gpr[2]
    BY <1>2, <1>8, <1>12, Zenon DEF SwapInv
  <2> QED
    BY <1>8, <2>3, <2>4, <2>5, <2>6, Zenon DEF SwapInv
<1>13. CASE CIA = 12
  <2>1. i.op = "lhbrx" /\ i.D = 0
    BY <1>1, <1>13, Zenon DEF SwapIs
  <2>2. Load(i, junk)
    BY <1>1, <2>1, CopyingActions, Zenon DEF MemoryCopies
  <2>3. CIA' = NIA /\ gpr' = [gpr EXCEPT ![0] = SwapHalf(MemHalf(gpr[1]))]
    <3>1. CIA' = NIA /\ gpr' = [gpr EXCEPT ![i.D] = SwapHalf(MemHalf(EA(i)))]
      BY <1>3, <1>5, <2>1, <2>2, LoadsReversed, Zenon
    <3> QED
      BY <1>6, <2>1, <3>1
  <2>4. gpr[3] = gpr[2] /\ MemHalf(gpr[1]) = SwapHalf(LowerHalf(gpr[2]))
    BY <1>2, <1>8, <1>13, Zenon DEF SwapInv
  <2>5. LowerHalf(gpr[2]) \in Half
    <3> DEFINE x == gpr[2]
    <3>1. x \in Int
      BY <1>4, WordIs, Zenon
    <3> HIDE DEF x
    <3>2. x % Lower \in Int /\ 0 <= x % Lower /\ x % Lower < Lower
      BY <3>1, SMT DEF Lower
    <3>3. LowerHalf(x) = x % Lower
      BY Parts, Zenon DEF LowerHalf
    <3>4. LowerHalf(x) \in Half
      BY <3>2, <3>3, HalfIs, Zenon
    <3> QED
      BY <3>4, Zenon DEF x
  <2>6. gpr'[3] = gpr'[2] /\ gpr'[0] = LowerHalf(gpr[2]) /\ gpr'[2] = gpr[2]
    <3>1. SwapHalf(MemHalf(gpr[1])) = LowerHalf(gpr[2])
      BY <2>4, <2>5, HalvesSwapped, Zenon
    <3> QED
      BY <1>4, <1>8, <2>3, <2>4, <3>1
  <2>7. gpr'[0] = LowerHalf(gpr[2])'
    BY <2>6, Zenon DEF LowerHalf
  <2>8. CIA' = 16
    BY <1>9, <1>13, <2>3, Zenon
  <2> QED
    BY <1>8, <2>6, <2>7, <2>8, Zenon DEF SwapInv
<1> QED
  BY <1>2, <1>10, <1>11, <1>12, <1>13, Zenon

\* Two numbers below n, counted on from the same one around n, end at the same one
\* only when they are equal.
LEMMA AroundOnce ==
  ASSUME NEW n \in Nat, n > 0, NEW d \in 0 .. n - 1, NEW p \in 0 .. n - 1, NEW q \in 0 .. n - 1,
         (d + p) % n = (d + q) % n
  PROVE  p = q
<1>1. ASSUME NEW x \in 0 .. n - 1
      PROVE  (d + x) % n = IF d + x < n THEN d + x ELSE d + x - n
  <2> DEFINE y == d + x
  <2>1. y \in Int /\ 0 <= y /\ y < n + n
    BY SMT
  <2> HIDE DEF y
  <2>2. CASE y < n
    <3>1. y % n = y
      BY <2>1, <2>2, SMT
    <3> QED
      BY <2>2, <3>1, Zenon DEF y
  <2>3. CASE ~ (y < n)
    <3>1. y % n = y - n
      BY <2>1, <2>3, SMT
    <3> QED
      BY <2>3, <3>1 DEF y
  <2> QED
    BY <2>2, <2>3, Zenon
<1> DEFINE u == (d + p) % n
           v == (d + q) % n
<1>2. u = v /\ u = (IF d + p < n THEN d + p ELSE d + p - n)
      /\ v = (IF d + q < n THEN d + q ELSE d + q - n)
  BY <1>1, Zenon
<1> HIDE DEF u, v
<1> QED
  BY <1>2, SMT

\* Each byte of a string that is not longer than the registers has a place of its own.
LEMMA StringPlaces ==
  ASSUME NEW i, i.D \in Regs, NEW k \in 0 .. MaxString - 1, NEW l \in 0 .. MaxString - 1,
         StringReg(i, k) = StringReg(i, l), k % 4 = l % 4
  PROVE  k = l
<1>1. NREG \in Nat /\ NREG > 0 /\ i.D \in 0 .. NREG - 1
  BY ProcessorAssumption, SMT DEF Regs
<1>2. ASSUME NEW m \in 0 .. 4 * NREG - 1
      PROVE  m \div 4 \in 0 .. NREG - 1 /\ m % 4 = m - 4 * (m \div 4) /\ m \in Int
  <2>1. m \in Int /\ 0 <= m /\ m < 4 * NREG
    BY <1>1, SMT
  <2>2. m \div 4 \in Int /\ 0 <= m \div 4 /\ m \div 4 < NREG
    BY <1>1, <2>1, SMT
  <2>3. m % 4 = m - 4 * (m \div 4)
    BY <2>1, SMT
  <2> QED
    BY <1>1, <2>1, <2>2, <2>3, SMT
<1>3. k \in 0 .. 4 * NREG - 1 /\ l \in 0 .. 4 * NREG - 1
  BY Zenon DEF MaxString
<1>4. (i.D + k \div 4) % NREG = (i.D + l \div 4) % NREG
  BY Zenon DEF StringReg
<1>5. k \div 4 \in 0 .. NREG - 1 /\ l \div 4 \in 0 .. NREG - 1
  BY <1>2, <1>3, Zenon
<1> DEFINE p == k \div 4
           q == l \div 4
           d == i.D
<1> HIDE DEF p, q, d
<1>6. p = q
  <2>1. p \in 0 .. NREG - 1 /\ q \in 0 .. NREG - 1 /\ d \in 0 .. NREG - 1 /\ (d + p) % NREG = (d + q) % NREG
    BY <1>1, <1>4, <1>5, Zenon DEF p, q, d
  <2> QED
    BY <1>1, <2>1, AroundOnce, Zenon
<1>7. k % 4 = k - 4 * p /\ l % 4 = l - 4 * q /\ k \in Int /\ l \in Int /\ p \in Int
  <2>1. k % 4 = k - 4 * p /\ l % 4 = l - 4 * q /\ k \in Int /\ l \in Int
    BY <1>2, <1>3, Zenon DEF p, q
  <2>2. p \in Int
    BY <1>1, <1>5, SMT DEF p
  <2> QED
    BY <2>1, <2>2, Zenon
<1> QED
  BY <1>6, <1>7, SMT

\* A transfer leaves the byte count alone.
LEMMA XERKept ==
  ASSUME NEW s, DOMAIN s = SPRs, NEW i
  PROVE  Updated(s, [Outcome(i, 0) EXCEPT !.oe = FALSE])["XER"] = s["XER"]
<1> DEFINE o == [Outcome(i, 0) EXCEPT !.oe = FALSE]
           t == IF o.rc THEN CR_put(s, 0, Recorded(o.ac, s)) ELSE s
<1>1. o.vrc = FALSE /\ o.sat = FALSE /\ o.oe = FALSE /\ o.setCA = FALSE
  BY Zenon DEF Outcome
<1>2. Updated(s, o) = t
  <2> HIDE DEF o
  <2> QED
    BY <1>1, Zenon DEF Updated
<1> HIDE DEF o
<1>3. t["XER"] = s["XER"]
  BY Zenon DEF CR_put, SPRs
<1> QED
  BY <1>2, <1>3, Zenon DEF o

\* The address of the indexed string forms.
LEMMA StringBase ==
  ASSUME BYTE = 8, RegsInv, 1 \in Regs, NEW i, i.u = FALSE, i.A = 0 \/ i.A = 1
  PROVE  /\ i.A = 0 => Base(i) = 0
         /\ i.A = 1 => Base(i) = gpr[1]
         /\ Base(i) \in Word /\ Base(i) \in Int
<1>1. 0 \in Word /\ 1 # 0
  BY TopIs, Widths, SMT
<1>2. Base(i) = 0 \/ Base(i) = gpr[1]
  BY Zenon DEF Base
<1>3. Base(i) \in Word
  BY <1>1, <1>2, Zenon DEF RegsInv
<1>4. Base(i) \in Int
  BY <1>3, WordIs, Zenon
<1> QED
  BY <1>1, <1>3, <1>4, Zenon DEF Base

\* A whole string transferred: the bytes it lies on are mapped.
LEMMA WholeString ==
  ASSUME BYTE = 8, RegsInv, NEW i, NEW CONSTANT a \in Word, NEW CONSTANT n \in Nat,
         Multiple(i, n, Transferred(a, n, 1)), ret' = 0
  PROVE  /\ Transferred(a, n, 1) = n /\ CIA' = NIA /\ ByteCount(spr') = ByteCount(spr)
         /\ \A k \in 0 .. n - 1 : a + k \in Nat /\ Mapped(a + k) /\ a + k \in MemBytes
<1> DEFINE done == Transferred(a, n, 1)
<1>1. done \in 0 .. n /\ \A k \in 0 .. done - 1 : a + 1 * k \in Nat /\ Mapped(a + 1 * k)
  BY TransferredIs, Zenon
<1> HIDE DEF done
<1>2. /\ done = n /\ CIA' = NIA /\ spr' = Updated(spr, [Outcome(i, 0) EXCEPT !.oe = FALSE])
  <2>1. Multiple(i, n, done)
    BY Zenon DEF done
  <2> QED
    BY <1>1, <2>1, WholeTransfer, Zenon
<1>3. DOMAIN spr = SPRs
  BY Zenon DEF RegsInv, SpecialRegisters
<1>4. spr'["XER"] = spr["XER"]
  BY <1>2, <1>3, XERKept, Zenon
<1>5. ASSUME NEW k \in 0 .. n - 1
      PROVE  a + k \in Nat /\ Mapped(a + k) /\ a + k \in MemBytes
  <2>1. 1 * k = k
    BY SMT
  <2>2. a + k \in Nat /\ Mapped(a + k)
    BY <1>1, <1>2, <2>1, Zenon
  <2> QED
    BY <2>2, ProcessorAssumption, SMT DEF Mapped, MemBytes
<1> QED
  BY <1>2, <1>4, <1>5, Zenon DEF ByteCount, done

\* A string loaded: each of its bytes is in its place of its register.
LEMMA LoadsString ==
  ASSUME BYTE = 8, WordsInv, NEW i, LoadString(i), i.x = TRUE, i.D \in Regs,
         NEW CONSTANT a \in Word, a = Base(i), a \in Int,
         NEW CONSTANT n \in Nat, n = ByteCount(spr), n <= MaxString, ret' = 0
  PROVE  /\ mem' = mem /\ CIA' = NIA /\ ByteCount(spr') = n
         /\ \A k \in 0 .. n - 1 : ByteOf(gpr[StringReg(i, k)], k % 4)' = mem[a + k]
<1> DEFINE at(r) == {k \in 0 .. n - 1 : StringReg(i, k) = r}
           ks(r, p) == {k \in at(r) : k % 4 = p}
           byte(r, p) == IF ks(r, p) = {} THEN 0 ELSE mem[a + Max(ks(r, p))]
           b(r) == [p \in 0 .. 3 |-> byte(r, p)]
<1>1. RegsInv /\ MemTyped
  BY Zenon DEF WordsInv
<1>2. Base(i) = a /\ StringLength(i) = n
  BY Zenon DEF StringLength
<1>3. Multiple(i, n, Transferred(a, n, 1)) /\ mem' = mem
  BY <1>2, Zenon DEF LoadString
<1>4. /\ Transferred(a, n, 1) = n /\ CIA' = NIA /\ ByteCount(spr') = n
      /\ \A k \in 0 .. n - 1 : a + k \in Nat /\ Mapped(a + k) /\ a + k \in MemBytes
  BY <1>1, <1>3, WholeString, Zenon
<1>5. gpr' = [r \in Regs |-> IF at(r) = {} THEN gpr[r] ELSE OfBytes(b(r))]
  BY <1>2, <1>4, Zenon DEF LoadString
<1>6. ASSUME NEW r \in Regs, NEW p \in 0 .. 3
      PROVE  byte(r, p) \in Byte
  <2>1. CASE ks(r, p) = {}
    <3>1. 0 \in Byte
      BY ByteIs, SMT
    <3> QED
      BY <2>1, <3>1, Zenon
  <2>2. CASE ks(r, p) # {}
    <3>1. ks(r, p) \in SUBSET (0 .. n - 1)
      BY Zenon
    <3> DEFINE k == Max(ks(r, p))
    <3>2. k \in 0 .. n - 1
      <4> HIDE DEF ks
      <4>1. k \in ks(r, p)
        BY <2>2, <3>1, LastIs, Zenon
      <4> QED
        BY <3>1, <4>1, Zenon
    <3> HIDE DEF k
    <3>3. MemByte(a + k) \in Byte
      BY <1>1, <1>4, <3>2, MemIs, Zenon
    <3> QED
      BY <2>2, <3>3, Zenon DEF MemByte, k
  <2> QED
    BY <2>1, <2>2, Zenon
<1>7. ASSUME NEW k \in 0 .. n - 1
      PROVE  /\ StringReg(i, k) \in Regs /\ k % 4 \in 0 .. 3
             /\ at(StringReg(i, k)) # {} /\ byte(StringReg(i, k), k % 4) = mem[a + k]
  <2> DEFINE r == StringReg(i, k)
             p == k % 4
             s == ks(r, p)
  <2>1. k \in Nat /\ p \in 0 .. 3
    BY SMT
  <2>2. r \in Regs
    BY <2>1, StringRegIs, Zenon
  <2>3. k \in at(r) /\ k \in s
    BY Zenon
  <2>4. ASSUME NEW l \in s PROVE l = k
    <3>1. l \in 0 .. n - 1 /\ StringReg(i, l) = StringReg(i, k) /\ l % 4 = k % 4
      BY <2>4, Zenon
    <3>2. \A m \in 0 .. n - 1 : m \in 0 .. MaxString - 1
      <4>1. MaxString \in Nat
        BY ProcessorAssumption, SMT DEF MaxString
      <4> QED
        BY <4>1, SMT
    <3> QED
      BY <3>1, <3>2, StringPlaces, Zenon
  <2>5. Max(s) = k
    <3>1. s \in SUBSET (0 .. n - 1) /\ s # {}
      BY <2>3, Zenon
    <3> HIDE DEF s
    <3>2. Max(s) \in s
      BY <3>1, LastIs, Zenon
    <3> QED
      BY <2>4, <3>2, Zenon
  <2> HIDE DEF r, p, at
  <2>6. byte(r, p) = mem[a + k]
    BY <2>3, <2>5, Zenon
  <2> QED
    BY <2>1, <2>2, <2>3, <2>6, Zenon DEF r, p
<1> HIDE DEF byte, at, ks
<1>8. ASSUME NEW k \in 0 .. n - 1
      PROVE  ByteOf(gpr[StringReg(i, k)], k % 4)' = mem[a + k]
  <2> DEFINE r == StringReg(i, k)
             p == k % 4
             c == b(r)
  <2>1. r \in Regs /\ p \in 0 .. 3 /\ at(r) # {} /\ byte(r, p) = mem[a + k]
    BY <1>7, Zenon
  <2>2. StringReg(i, k)' = r
    BY Zenon DEF StringReg
  <2> HIDE DEF r, p
  <2>3. gpr'[r] = OfBytes(c)
    BY <1>5, <2>1, Zenon
  <2>4. \A q \in 0 .. 3 : c[q] \in Byte /\ c[q] = byte(r, q)
    BY <1>6, <2>1, Zenon
  <2> HIDE DEF c
  <2>5. 0 \in 0 .. 3 /\ 1 \in 0 .. 3 /\ 2 \in 0 .. 3 /\ 3 \in 0 .. 3
        /\ (p = 0 \/ p = 1 \/ p = 2 \/ p = 3)
    BY <2>1, SMT
  <2>6. ByteOf(OfBytes(c), p) = c[p]
    BY <2>4, <2>5, BytesOfWord, Zenon
  <2>7. ByteOf(gpr'[r], p) = mem[a + k]
    BY <2>1, <2>3, <2>4, <2>6, Zenon
  <2>8. ByteOf(gpr[StringReg(i, k)], k % 4)' = ByteOf(gpr'[StringReg(i, k)'], k % 4)
    BY Zenon DEF ByteOf
  <2> QED
    BY <2>2, <2>7, <2>8, Zenon DEF p
<1> QED
  BY <1>3, <1>4, <1>8, Zenon

\* A string stored: the bytes of the registers are in memory, and nothing else is new.
LEMMA StoresString ==
  ASSUME BYTE = 8, WordsInv, NEW i, StoreString(i), i.x = TRUE,
         NEW CONSTANT a \in Word, a = Base(i), a \in Int,
         NEW CONSTANT n \in Nat, n = ByteCount(spr), ret' = 0
  PROVE  /\ CIA' = NIA
         /\ \A m \in MemBytes : mem'[m] = IF m - a \in 0 .. n - 1
                                            THEN ByteOf(gpr[StringReg(i, m - a)], (m - a) % 4)
                                            ELSE mem[m]
<1> DEFINE b == [k \in 0 .. n - 1 |-> ByteOf(gpr[StringReg(i, k)], k % 4)]
<1>1. RegsInv
  BY Zenon DEF WordsInv
<1>2. Base(i) = a /\ StringLength(i) = n
  BY Zenon DEF StringLength
<1>3. Multiple(i, n, Transferred(a, n, 1))
  BY <1>2, Zenon DEF StoreString
<1>4. Transferred(a, n, 1) = n /\ CIA' = NIA
  BY <1>1, <1>3, WholeString, Zenon
<1>5. mem' = MemPut(a, n, b)
  BY <1>2, <1>4, Zenon DEF StoreString
<1>6. \A m \in MemBytes : mem'[m] = IF m - a \in 0 .. n - 1 THEN b[m - a] ELSE mem[m]
  BY <1>5, Zenon DEF MemPut
<1>7. \A k \in 0 .. n - 1 : b[k] = ByteOf(gpr[StringReg(i, k)], k % 4)
  BY Zenon
<1> HIDE DEF b
<1> QED
  BY <1>4, <1>6, <1>7, Zenon

\* A string loaded from the address in r1 into r2 and on, and stored at 0.
CopyIs(P) ==
  /\ {1, 2} \subseteq Regs
  /\ DOMAIN P = {0, 4}
  /\ \A i \in P[0] : i.op = "lsw" /\ i.D = 2 /\ i.A = 1 /\ i.x = TRUE /\ i.u = FALSE
  /\ \A i \in P[4] : i.op = "stsw" /\ i.D = 2 /\ i.A = 0 /\ i.x = TRUE /\ i.u = FALSE

\* The inductive invariant: byte k of the string is byte k % 4 of its register.
InRegister(k) == ByteOf(gpr[(2 + k \div 4) % NREG], k % 4)

CopyInv ==
  prog = "copy" /\ ret = 0 =>
    LET n == ByteCount(entry.spr)
    IN  /\ CIA \in {0, 4} => mem = entry.mem /\ ByteCount(spr) = n
        /\ CIA = 0 => gpr = entry.gpr
        /\ CIA = 4 => \A k \in 0 .. n - 1 : InRegister(k) = mem[entry.gpr[1] + k]
        /\ CIA \notin {0, 4} => \A k \in 0 .. MEM - 1 :
             mem[k] = entry.mem[IF k < n THEN entry.gpr[1] + k ELSE k]

\* Every instruction keeps it.
LEMMA CopyStep ==
  ASSUME BYTE = 8, CopyIs(Programs["copy"]), WordsInv, EntryInv, CopyInv, prog = "copy", Next
  PROVE  CopyInv'
<1> DEFINE P == Programs["copy"]
<1>1. PICK i \in P[CIA], junk \in Junk : Step(i, junk)
  BY Zenon DEF Next
<1>2. CIA \in {0, 4} /\ prog' = prog /\ entry' = entry /\ ret = 0
  BY <1>1, Zenon DEF Next, Running, CopyIs, Step
<1>3. SUFFICES ASSUME ret' = 0 PROVE CopyInv'
  BY Zenon DEF CopyInv
<1>4. RegsInv /\ 1 \in Regs /\ 2 \in Regs
  BY Zenon DEF WordsInv, CopyIs
<1>5. PICK n \in Nat : n = ByteCount(spr) /\ n = ByteCount(entry.spr) /\ n <= MaxString
  <2>1. ByteCount(spr) = ByteCount(entry.spr)
    BY <1>2, Zenon DEF CopyInv
  <2>2. ByteCount(spr) \in Nat /\ ByteCount(spr) <= MaxString
    BY <1>4, ByteCountIs, Zenon DEF RegsInv
  <2> QED
    BY <2>1, <2>2, Zenon
<1>6. mem = entry.mem /\ entry.gpr[1] \in Word
  <2>1. entry.gpr \in [Regs -> Word]
    BY ProgramsAssumption, Zenon DEF EntryInv
  <2> QED
    BY <1>2, <1>4, <2>1, Zenon DEF CopyInv
<1>7. ByteCount(entry.spr)' = n
  BY <1>2, <1>5, Zenon DEF ByteCount
<1>8. 0 # 4 /\ 4 # 8 /\ 0 # 8
  OBVIOUS
<1>9. CASE CIA = 0
  <2>1. i.op = "lsw" /\ i.D = 2 /\ i.A = 1 /\ i.x = TRUE /\ i.u = FALSE
    BY <1>1, <1>9, Zenon DEF CopyIs
  <2>2. LoadString(i)
    BY <1>1, <2>1, CopyingActions, Zenon DEF MemoryCopies
  <2>3. gpr = entry.gpr
    BY <1>2, <1>9, Zenon DEF CopyInv
  <2>4. PICK a \in Word : a = entry.gpr[1]
    BY <1>6, Zenon
  <2>5. a = Base(i) /\ a \in Int
    BY <1>4, <2>1, <2>3, <2>4, StringBase, Zenon
  <2>6. i.D \in Regs
    BY <1>4, <2>1, Zenon
  <2>7. /\ mem' = mem /\ CIA' = NIA /\ ByteCount(spr') = n
        /\ \A k \in 0 .. n - 1 : ByteOf(gpr[StringReg(i, k)], k % 4)' = mem[a + k]
    BY <1>3, <1>5, <2>1, <2>2, <2>5, <2>6, LoadsString, Zenon
  <2>8. ASSUME NEW k \in 0 .. n - 1
        PROVE  InRegister(k)' = mem'[entry'.gpr[1] + k]
    <3>1. InRegister(k)' = ByteOf(gpr[StringReg(i, k)], k % 4)'
      BY <2>1, Zenon DEF InRegister, StringReg
    <3> QED
      BY <1>2, <2>4, <2>7, <3>1, Zenon
  <2>9. CIA' = 4
    BY <1>9, <2>7, Places, Zenon
  <2>10. mem' = entry'.mem /\ ByteCount(spr)' = n
    BY <1>2, <1>6, <2>7, Zenon DEF ByteCount
  <2> QED
    BY <1>7, <1>8, <2>8, <2>9, <2>10, Zenon DEF CopyInv
<1>10. CASE CIA = 4
  <2>1. i.op = "stsw" /\ i.D = 2 /\ i.A = 0 /\ i.x = TRUE /\ i.u = FALSE
    BY <1>1, <1>10, Zenon DEF CopyIs
  <2>2. StoreString(i)
    BY <1>1, <2>1, CopyingActions, Zenon DEF MemoryCopies
  <2>3. Base(i) = 0 /\ 0 \in Word /\ 0 \in Int
    BY <1>4, <2>1, StringBase, Zenon
  <2>4. /\ CIA' = NIA
        /\ \A m \in MemBytes : mem'[m] = IF m - 0 \in 0 .. n - 1
                                           THEN ByteOf(gpr[StringReg(i, m - 0)], (m - 0) % 4)
                                           ELSE mem[m]
    BY <1>3, <1>5, <2>1, <2>2, <2>3, StoresString, Zenon
  <2>5. \A k \in 0 .. n - 1 : InRegister(k) = mem[entry.gpr[1] + k]
    BY <1>2, <1>5, <1>10, Zenon DEF CopyInv
  <2>6. ASSUME NEW k \in 0 .. MEM - 1
        PROVE  mem'[k] = entry.mem[IF k < n THEN entry.gpr[1] + k ELSE k]
    <3>1. k \in MemBytes /\ k - 0 = k /\ (k \in 0 .. n - 1 <=> k < n)
      BY ProcessorAssumption, SMT DEF MemBytes
    <3>2. mem'[k] = IF k \in 0 .. n - 1 THEN ByteOf(gpr[StringReg(i, k)], k % 4) ELSE mem[k]
      BY <2>4, <3>1
    <3>3. InRegister(k) = ByteOf(gpr[StringReg(i, k)], k % 4)
      BY <2>1, Zenon DEF InRegister, StringReg
    <3>4. CASE k < n
      BY <1>6, <2>5, <3>1, <3>2, <3>3, <3>4, Zenon
    <3>5. CASE ~ (k < n)
      BY <1>6, <3>1, <3>2, <3>5, Zenon
    <3> QED
      BY <3>4, <3>5, Zenon
  <2>7. CIA' = 8
    BY <1>10, <2>4, Places, Zenon
  <2> QED
    BY <1>2, <1>7, <1>8, <2>6, <2>7, Zenon DEF CopyInv
<1> QED
  BY <1>2, <1>9, <1>10, Zenon

-----------------------------------------------------------------------------
(* Shifts and rotations by any amount, as moves of the bits of a word.     *)

\* A product of numbers that are not negative is none that is.
LEMMA Product ==
  ASSUME NEW x \in Int, 0 <= x, NEW y \in Int, 0 <= y
  PROVE  x * y \in Int /\ 0 <= x * y /\ (0 < x /\ 0 < y => 0 < x * y)
<1>1. x * y \in Int /\ y * 0 <= y * x /\ y * 0 = 0 /\ y * x = x * y
  <2>1. 0 < y => y * 0 <= y * x
    BY Least, SMT
  <2> QED
    BY <2>1, SMT
<1>2. ASSUME 0 < x, 0 < y PROVE 0 < x * y
  <2>1. y * 1 <= y * x
    BY <1>2, Least, SMT
  <2> QED
    BY <1>2, <2>1, SMT
<1> QED
  BY <1>1, <1>2, SMT

\* A quotient of a quotient is the quotient by the product.
LEMMA DividedTwice ==
  ASSUME NEW x \in Int, NEW p \in Int, p > 0, NEW d \in Int, d > 0
  PROVE  (x \div p) \div d = x \div (p * d)
<1> DEFINE g == x \div p
           r == x - p * g
           q == g \div d
           t == g - d * q
<1>1. g \in Int /\ p * g <= x /\ x < p * (g + 1)
  BY SMT
<1> HIDE DEF g
<1>2. r \in Int /\ 0 <= r /\ r < p /\ x = p * g + r
  <2>1. p * (g + 1) = p * g + p
    BY <1>1, SMT
  <2> QED
    BY <1>1, <2>1, SMT
<1> HIDE DEF r
<1>3. q \in Int /\ t \in Int /\ 0 <= t /\ t <= d - 1 /\ g = d * q + t
  <2>1. q \in Int /\ d * q <= g /\ g < d * (q + 1)
    BY <1>1, SMT
  <2> HIDE DEF q
  <2>2. d * (q + 1) = d * q + d
    BY <2>1, SMT
  <2> QED
    BY <1>1, <2>1, <2>2, SMT
<1> HIDE DEF q, t
<1>4. /\ p * t \in Int /\ 0 <= p * t /\ p * t <= p * (d - 1) /\ p * d > 0 /\ p * d \in Int
      /\ p * (d - 1) = p * d - p
  <2>1. p * t <= p * (d - 1)
    BY <1>3, Least, SMT
  <2> QED
    BY <1>3, <2>1, Product, SMT
<1> DEFINE m == p * t + r
           k == p * d
<1>5. m \in Int /\ 0 <= m /\ m < k
  BY <1>2, <1>4, SMT
<1>6. x = k * q + m
  <2>1. p * (d * q + t) = (p * d) * q + p * t
    BY <1>3, SMT
  <2> QED
    BY <1>2, <1>3, <1>4, <2>1, SMT
<1>7. x \div k = q
  <2> HIDE DEF m
  <2>1. k \in Int /\ k > 0
    BY <1>4, Zenon
  <2> HIDE DEF k
  <2> QED
    BY <1>3, <1>5, <1>6, <2>1, DivIs, Zenon
<1> QED
  BY <1>7, Zenon DEF q, g, k

\* The digit of a number at p is that of its remainder by a multiple of 2 * p.
LEMMA DigitOfRest ==
  ASSUME NEW z \in Int, 0 <= z, NEW p \in Int, p > 0, NEW s \in Int, s > 0
  PROVE  ((z % (p * (2 * s))) \div p) % 2 = (z \div p) % 2
<1> DEFINE n == p * (2 * s)
           q == z \div n
           r == z % n
           w == r \div p
           t == r - p * w
<1>1. n \in Int /\ n > 0
  BY Product, SMT
<1>2. q \in Int /\ r \in Int /\ 0 <= r /\ r = z - n * q
  <2> HIDE DEF n
  <2> QED
    BY <1>1, SMT
<1> HIDE DEF q, r
<1>3. w \in Int /\ t \in Int /\ 0 <= t /\ t < p /\ r = p * w + t
  <2>1. w \in Int /\ p * w <= r /\ r < p * (w + 1)
    BY <1>2, SMT
  <2> HIDE DEF w
  <2>2. p * (w + 1) = p * w + p
    BY <2>1, SMT
  <2> QED
    BY <1>2, <2>1, <2>2, SMT
<1> HIDE DEF w, t
<1> DEFINE e == s * q
<1>4. e \in Int /\ z = p * (2 * e + w) + t
  <2>1. n * q = p * (2 * e)
    BY <1>2, SMT
  <2>2. p * (2 * e + w) = p * (2 * e) + p * w
    BY <1>2, <1>3, SMT
  <2> QED
    BY <1>2, <1>3, <2>1, <2>2, SMT
<1> HIDE DEF e, n
<1> DEFINE v == 2 * e + w
<1>5. v \in Int /\ z = p * v + t /\ v % 2 = w % 2
  BY <1>3, <1>4, SMT
<1> HIDE DEF v
<1>6. z \div p = v
  BY <1>3, <1>5, DivIs, SMT
<1> QED
  BY <1>5, <1>6, Zenon DEF w, r, n

\* A multiple of a number has the digits of that number, and zeroes below them.
LEMMA DigitOfMultiple ==
  ASSUME NEW y \in Int, 0 <= y, NEW p \in Int, p > 0, NEW s \in Int, s > 0
  PROVE  /\ (y * s) \div (p * s) = y \div p
         /\ ((y * (2 * (p * s))) \div p) % 2 = 0
<1> DEFINE q == y \div p
           r == y - p * q
<1>1. q \in Int /\ r \in Int /\ 0 <= r /\ r < p /\ y = p * q + r
  <2>1. q \in Int /\ p * q <= y /\ y < p * (q + 1)
    BY SMT
  <2> HIDE DEF q
  <2>2. p * (q + 1) = p * q + p
    BY <2>1, SMT
  <2> QED
    BY <2>1, <2>2, SMT
<1> HIDE DEF q, r
<1>2. (y * s) \div (p * s) = q
  <2> DEFINE m == y * s
             k == p * s
             u == r * s
  <2>1. m \in Int /\ k \in Int /\ k > 0 /\ u \in Int /\ 0 <= u
    BY <1>1, Product, SMT
  <2>2. m = k * q + u
    BY <1>1, SMT
  <2>3. u < k
    <3>1. (p - r) * s > 0 /\ (p - r) * s = p * s - r * s
      BY <1>1, Product, SMT
    <3> QED
      BY <1>1, <3>1, SMT
  <2> HIDE DEF m, k, u
  <2>4. m \div k = q
    BY <1>1, <2>1, <2>2, <2>3, DivIs, Zenon
  <2> QED
    BY <2>4, Zenon DEF m, k
<1>3. ((y * (2 * (p * s))) \div p) % 2 = 0
  <2> DEFINE v == 2 * (y * s)
             m == y * (2 * (p * s))
  <2>1. v \in Int /\ m \in Int /\ m = p * v + 0 /\ v % 2 = 0
    <3> DEFINE e == y * s
    <3>1. e \in Int /\ m = p * (2 * e)
      BY SMT
    <3> HIDE DEF e, m
    <3>2. (2 * e) % 2 = 0 /\ 2 * e \in Int
      BY <3>1, SMT
    <3> DEFINE f == 2 * e
    <3> HIDE DEF f
    <3>3. f \in Int /\ m = p * f /\ f % 2 = 0
      BY <3>1, <3>2, Zenon DEF f
    <3>4. m \in Int /\ m = p * f + 0
      BY <3>3, SMT
    <3> QED
      BY <3>3, <3>4, Zenon DEF e, f
  <2> HIDE DEF v, m
  <2>2. m \div p = v
    BY <2>1, DivIs, SMT
  <2> QED
    BY <2>1, <2>2, Zenon DEF m
<1> QED
  BY <1>2, <1>3, Zenon DEF q

\* The powers of two up to the width of a word.
Power == [k \in 0 .. 32 |-> 2 ^ k]

\* Each is twice the one before.
LEMMA PowersDouble ==
  ASSUME NEW k \in 0 .. 31
  PROVE  Power[k + 1] = 2 * Power[k]
<1> DEFINE q == 31 - k
           r == 31 - (k + 1)
<1>1. CASE k = 31
  <2>1. 2 ^ 32 = 2 * 2 ^ 31 /\ 31 + 1 = 32 /\ 31 \in 0 .. 32 /\ 32 \in 0 .. 32
    BY SMT
  <2> QED
    BY <1>1, <2>1, Zenon DEF Power
<1>2. CASE k # 31
  <2>1. /\ q \in 1 .. 31 /\ r \in 0 .. 30 /\ r = q - 1 /\ 31 - q = k /\ 31 - r = k + 1
        /\ k \in 0 .. 32 /\ k + 1 \in 0 .. 32 /\ q \in 0 .. 31 /\ r \in 0 .. 31
    BY <1>2, SMT
  <2>2. Power[k] = Worth[q] /\ Power[k + 1] = Worth[r]
    <3> HIDE DEF q, r
    <3> QED
      BY <2>1, Zenon DEF Power, Worth
  <2> HIDE DEF q, r
  <2>3. Worth[q - 1] = 2 * Worth[q]
    BY <2>1, Worths, SMT
  <2> QED
    BY <2>1, <2>2, <2>3, Zenon
<1> QED
  BY <1>1, <1>2, Zenon

\* The power of a sum.
LEMMA PowerOfSum ==
  ASSUME NEW a \in 0 .. 32, NEW b \in 0 .. 32, a + b <= 32
  PROVE  2 ^ (a + b) = 2 ^ a * 2 ^ b
<1> DEFINE K == {c \in 0 .. b : Power[a + c] = Power[a] * Power[c]}
<1>1. \A c \in 0 .. 32 : Power[c] \in Int /\ Power[c] = 2 ^ c
  <2>1. ASSUME NEW c \in 0 .. 32 PROVE Power[c] \in Int /\ Power[c] = 2 ^ c
    <3> DEFINE p == 2 ^ c
    <3>1. p \in Nat
      BY PowerIs, Zenon
    <3> HIDE DEF p
    <3>2. p \in Int
      BY <3>1, SMT
    <3> QED
      BY <3>2, Zenon DEF Power, p
  <2> QED
    BY <2>1, Zenon
<1>2. 0 \in K
  <2>1. Power[0] = 1
    <3>1. 2 ^ 0 = 1 /\ 0 \in 0 .. 32
      BY SMT
    <3> QED
      BY <3>1, Zenon DEF Power
  <2>2. a + 0 = a /\ 0 \in 0 .. b /\ Power[a] = Power[a] * 1
    BY <1>1, SMT
  <2> QED
    BY <2>1, <2>2, Zenon
<1>3. ASSUME NEW c \in 0 .. b - 1, c \in K
      PROVE  c + 1 \in K
  <2>1. /\ c \in 0 .. 31 /\ a + c \in 0 .. 31 /\ c \in 0 .. 32 /\ c + 1 \in 0 .. b
        /\ a + (c + 1) = (a + c) + 1
    BY SMT
  <2>2. Power[c + 1] = 2 * Power[c] /\ Power[(a + c) + 1] = 2 * Power[a + c]
    BY <2>1, PowersDouble, Zenon
  <2>3. Power[a + c] = Power[a] * Power[c]
    BY <1>3, Zenon
  <2> DEFINE x == Power[a]
             y == Power[c]
             z == Power[a + c]
  <2>4. x \in Int /\ y \in Int /\ z = x * y
    BY <1>1, <2>1, <2>3, Zenon
  <2> HIDE DEF x, y, z
  <2>5. 2 * z = x * (2 * y)
    BY <2>4, SMT
  <2>6. Power[a + (c + 1)] = Power[a] * Power[c + 1]
    BY <2>1, <2>2, <2>5, Zenon DEF x, y, z
  <2> QED
    BY <2>1, <2>6, Zenon
<1>4. b \in K
  <2> HIDE DEF K
  <2>1. \A c \in 0 .. b : c \in K
    BY <1>2, <1>3, Steps, SMT
  <2> QED
    BY <2>1, SMT
<1>5. Power[a + b] = Power[a] * Power[b] /\ a + b \in 0 .. 32
  <2>1. a + b \in 0 .. 32
    BY SMT
  <2> QED
    BY <1>4, <2>1, Zenon
<1> QED
  BY <1>1, <1>5, Zenon

\* The places of a word, by their digits.
LEMMA PlaceIs ==
  ASSUME BYTE = 8, NEW x, NEW j
  PROVE  j \in BitsOf(x) <=> j \in 0 .. 31 /\ (x \div 2 ^ (31 - j)) % 2 = 1
BY Widths, Zenon DEF BitsOf

\* What splits a word at a place, and at an amount of a shift.
LEMMA Splits ==
  ASSUME NEW j \in 0 .. 31
  PROVE  /\ 2 ^ 32 = 2 ^ (31 - j) * (2 * 2 ^ j)
         /\ 2 ^ 32 = 2 ^ (j + 1) * 2 ^ (31 - j)
<1>1. /\ 31 - j \in 0 .. 32 /\ j + 1 \in 0 .. 32 /\ j \in 0 .. 32 /\ 1 \in 0 .. 32
      /\ (31 - j) + (j + 1) = 32 /\ (j + 1) + (31 - j) = 32 /\ 1 + j = j + 1 /\ 2 ^ 1 = 2
      /\ (31 - j) + (j + 1) <= 32 /\ (j + 1) + (31 - j) <= 32 /\ 1 + j <= 32
  BY SMT
<1>2. 2 ^ 32 = 2 ^ (31 - j) * 2 ^ (j + 1) /\ 2 ^ 32 = 2 ^ (j + 1) * 2 ^ (31 - j)
  <2>1. 2 ^ ((31 - j) + (j + 1)) = 2 ^ (31 - j) * 2 ^ (j + 1)
    BY <1>1, PowerOfSum, Zenon
  <2>2. 2 ^ ((j + 1) + (31 - j)) = 2 ^ (j + 1) * 2 ^ (31 - j)
    BY <1>1, PowerOfSum, Zenon
  <2> QED
    BY <1>1, <2>1, <2>2, Zenon
<1>3. 2 ^ (1 + j) = 2 ^ 1 * 2 ^ j
  BY <1>1, PowerOfSum, Zenon
<1> QED
  BY <1>1, <1>2, <1>3, Zenon

\* The places of a word shifted to the left.
LEMMA LeftBits ==
  ASSUME BYTE = 8, NEW x \in Word, NEW n \in 0 .. 31, NEW j
  PROVE  j \in BitsOf(ShiftLeft(x, n)) <=> j \in 0 .. 31 /\ j + n \in BitsOf(x)
<1> SUFFICES ASSUME j \in 0 .. 31
             PROVE  j \in BitsOf(ShiftLeft(x, n)) <=> j + n \in BitsOf(x)
  BY PlaceIs, Zenon
<1> DEFINE p == 2 ^ (31 - j)
           s == 2 ^ j
           t == 2 ^ n
           y == x * t
<1>1. x \in Int /\ 0 <= x /\ n \in 0 .. 32 /\ 31 - j \in 0 .. 32 /\ j \in 0 .. 32
  <2>1. x \in Int /\ 0 <= x
    BY WordIs, Zenon
  <2> QED
    BY <2>1, SMT
<1>2. p \in Nat /\ p > 0 /\ s \in Nat /\ s > 0 /\ t \in Nat /\ t > 0
  BY <1>1, PowerIs, Zenon
<1>3. p \in Int /\ s \in Int /\ t \in Int
  <2> HIDE DEF p, s, t
  <2> QED
    BY <1>2, SMT
<1>4. ShiftLeft(x, n) = y % (p * (2 * s))
  BY Splits, Widths, Zenon DEF ShiftLeft, Low
<1>5. y \in Int /\ 0 <= y
  <2> HIDE DEF t
  <2> QED
    BY <1>1, <1>2, <1>3, Product, SMT
<1>6. j \in BitsOf(ShiftLeft(x, n)) <=> (y \div p) % 2 = 1
  <2>1. ((y % (p * (2 * s))) \div p) % 2 = (y \div p) % 2
    <3> HIDE DEF p, s, y
    <3> QED
      BY <1>2, <1>3, <1>5, DigitOfRest, Zenon
  <2>2. j \in BitsOf(ShiftLeft(x, n)) <=> (ShiftLeft(x, n) \div p) % 2 = 1
    BY PlaceIs, Zenon
  <2> HIDE DEF p, s, y
  <2> QED
    BY <1>4, <2>1, <2>2, Zenon
<1>7. CASE j + n \in 0 .. 31
  <2> DEFINE q == 2 ^ (31 - (j + n))
  <2>1. /\ 31 - (j + n) \in 0 .. 32 /\ (31 - (j + n)) + n = 31 - j
        /\ (31 - (j + n)) + n <= 32
    BY <1>7, SMT
  <2>2. p = q * t
    BY <1>1, <2>1, PowerOfSum, Zenon
  <2>3. q \in Nat /\ q > 0
    BY <2>1, PowerIs, Zenon
  <2>4. j + n \in BitsOf(x) <=> (x \div q) % 2 = 1
    BY <1>7, PlaceIs, Zenon
  <2> HIDE DEF p, q, t
  <2>5. q \in Int
    BY <2>3, SMT
  <2>6. (x * t) \div (q * t) = x \div q
    BY <1>1, <1>2, <1>3, <2>3, <2>5, DigitOfMultiple, Zenon
  <2> QED
    BY <1>6, <2>2, <2>4, <2>6, Zenon
<1>8. CASE j + n \notin 0 .. 31
  <2> DEFINE m == n - (32 - j)
             e == 2 ^ m
  <2>1. /\ m \in 0 .. 32 /\ 32 - j \in 0 .. 32 /\ (32 - j) + m = n /\ (32 - j) + m <= 32
        /\ 1 + (31 - j) = 32 - j /\ 1 \in 0 .. 32 /\ 1 + (31 - j) <= 32 /\ 2 ^ 1 = 2
    BY <1>8, SMT
  <2>2. t = 2 ^ (32 - j) * e
    <3> HIDE DEF m
    <3> QED
      BY <2>1, PowerOfSum, Zenon
  <2>3. 2 ^ (32 - j) = 2 * p
    BY <1>1, <2>1, PowerOfSum, Zenon
  <2>4. e \in Nat /\ e > 0
    <3> HIDE DEF m
    <3> QED
      BY <2>1, PowerIs, Zenon
  <2>5. j + n \notin BitsOf(x)
    BY <1>8, PlaceIs, Zenon
  <2> HIDE DEF p, e, t, m
  <2>6. e \in Int /\ t = 2 * (p * e)
    <3>1. e \in Int
      BY <2>4, SMT
    <3>2. t = (2 * p) * e
      BY <2>2, <2>3, Zenon
    <3> QED
      BY <1>3, <3>1, <3>2, SMT
  <2>7. ((x * (2 * (p * e))) \div p) % 2 = 0
    BY <1>1, <1>2, <1>3, <2>4, <2>6, DigitOfMultiple, Zenon
  <2>8. (y \div p) % 2 = 0 /\ 0 # 1
    BY <2>6, <2>7
  <2> QED
    BY <1>6, <2>5, <2>8, Zenon
<1> QED
  BY <1>7, <1>8, Zenon

\* The places of a word shifted to the right.
LEMMA RightBits ==
  ASSUME BYTE = 8, NEW x \in Word, NEW n \in 0 .. 31, NEW j
  PROVE  j \in BitsOf(ShiftRight(x, n)) <=> j \in 0 .. 31 /\ j - n \in BitsOf(x)
<1> SUFFICES ASSUME j \in 0 .. 31
             PROVE  j \in BitsOf(ShiftRight(x, n)) <=> j - n \in BitsOf(x)
  BY PlaceIs, Zenon
<1> DEFINE p == 2 ^ (31 - j)
           t == 2 ^ n
<1>1. x \in Int /\ 0 <= x /\ x <= Top /\ n \in 0 .. 32 /\ 31 - j \in 0 .. 32 /\ j \in 0 .. 32
  <2>1. x \in Int /\ 0 <= x /\ x <= Top
    BY WordIs, Zenon
  <2> QED
    BY <2>1, SMT
<1>2. p \in Nat /\ p > 0 /\ t \in Nat /\ t > 0
  BY <1>1, PowerIs, Zenon
<1>3. p \in Int /\ t \in Int
  <2> HIDE DEF p, t
  <2> QED
    BY <1>2, SMT
<1>4. j \in BitsOf(ShiftRight(x, n)) <=> (x \div (t * p)) % 2 = 1
  <2>1. j \in BitsOf(ShiftRight(x, n)) <=> ((x \div t) \div p) % 2 = 1
    BY PlaceIs, Zenon DEF ShiftRight
  <2> HIDE DEF t, p
  <2>2. (x \div t) \div p = x \div (t * p)
    BY <1>1, <1>2, <1>3, DividedTwice, Zenon
  <2> QED
    BY <2>1, <2>2, Zenon
<1>5. CASE j - n \in 0 .. 31
  <2>1. n + (31 - j) = 31 - (j - n) /\ n + (31 - j) <= 32
    BY <1>5, SMT
  <2>2. t * p = 2 ^ (31 - (j - n))
    BY <1>1, <2>1, PowerOfSum, Zenon
  <2>3. j - n \in BitsOf(x) <=> (x \div 2 ^ (31 - (j - n))) % 2 = 1
    BY <1>5, PlaceIs, Zenon
  <2> HIDE DEF t, p
  <2> QED
    BY <1>4, <2>2, <2>3, Zenon
<1>6. CASE j - n \notin 0 .. 31
  <2> DEFINE m == n - (j + 1)
             e == 2 ^ m
             c == 2 ^ (j + 1)
  <2>1. /\ m \in 0 .. 32 /\ j + 1 \in 0 .. 32 /\ (j + 1) + m = n /\ (j + 1) + m <= 32
    BY <1>6, SMT
  <2>2. t = c * e
    <3> HIDE DEF m
    <3> QED
      BY <2>1, PowerOfSum, Zenon
  <2>3. c * p = Top + 1
    <3>1. 2 ^ 32 = Top + 1
      BY SMT DEF Top
    <3> QED
      BY <3>1, Splits, Zenon
  <2>4. e \in Nat /\ e > 0 /\ c \in Nat
    <3> HIDE DEF m
    <3> QED
      BY <2>1, PowerIs, Zenon
  <2>5. j - n \notin BitsOf(x)
    BY <1>6, PlaceIs, Zenon
  <2> HIDE DEF p, e, t, m, c
  <2>6. e \in Int /\ c \in Int /\ t * p = (Top + 1) * e
    <3>1. e \in Int /\ c \in Int
      BY <2>4, SMT
    <3>2. (c * e) * p = (c * p) * e
      BY <1>3, <3>1, SMT
    <3> QED
      BY <2>2, <2>3, <3>1, <3>2, Zenon
  <2> DEFINE k == t * p
  <2>7. k \in Int /\ k > 0 /\ x < k
    <3>1. Top + 1 \in Int /\ Top + 1 > 0
      BY TopIs, SMT
    <3> DEFINE h == Top + 1
               f == h * e
    <3>2. x < h
      BY <1>1, TopIs, SMT
    <3> HIDE DEF h
    <3>3. h * 1 <= f /\ f \in Int
      BY <2>4, <2>6, <3>1, Least, SMT DEF h
    <3> HIDE DEF f
    <3>4. f \in Int /\ f > 0 /\ x < f
      BY <1>1, <3>1, <3>2, <3>3, SMT DEF h
    <3> QED
      BY <2>6, <3>4, Zenon DEF f, h
  <2> HIDE DEF k
  <2>8. x \div k = 0
    <3>1. x = k * 0 + x
      BY <1>1, <2>7, SMT
    <3> QED
      BY <1>1, <2>7, <3>1, DivIs, SMT
  <2>9. 0 % 2 = 0 /\ 0 # 1
    BY SMT
  <2> QED
    BY <1>4, <2>5, <2>8, <2>9, Zenon DEF k
<1> QED
  BY <1>5, <1>6, Zenon

\* The places of what is left of a word by a power of two.
LEMMA RestBits ==
  ASSUME BYTE = 8, NEW x \in Word, NEW n \in 0 .. 31, NEW j
  PROVE  /\ x % 2 ^ n \in Word
         /\ j \in BitsOf(x % 2 ^ n) <=> j \in 32 - n .. 31 /\ j \in BitsOf(x)
<1> DEFINE t == 2 ^ n
           r == x % t
<1>1. x \in Int /\ 0 <= x /\ x <= Top /\ n \in 0 .. 32
  <2>1. x \in Int /\ 0 <= x /\ x <= Top
    BY WordIs, Zenon
  <2> QED
    BY <2>1, SMT
<1>2. t \in Nat /\ t > 0
  BY <1>1, PowerIs, Zenon
<1>3. t \in Int /\ r \in Int /\ 0 <= r /\ r < t /\ r <= x
  <2> HIDE DEF t
  <2>1. t \in Int
    BY <1>2, SMT
  <2>2. r \in 0 .. t - 1 /\ r = x - t * (x \div t)
    BY <1>1, <1>2, <2>1, SMT
  <2>3. x \div t \in 0 .. x
    BY <1>1, <1>2, Quotient, SMT
  <2>4. 0 <= t * (x \div t) /\ t * (x \div t) \in Int
    <3> DEFINE q == x \div t
    <3>1. q \in Int /\ 0 <= q
      BY <1>1, <2>3, SMT
    <3> HIDE DEF q
    <3>2. 0 <= t * q /\ t * q \in Int
      BY <1>2, <2>1, <3>1, Product, SMT
    <3> QED
      BY <3>2, Zenon DEF q
  <2> HIDE DEF r
  <2> QED
    BY <1>1, <2>1, <2>2, <2>4, SMT
<1>4. r \in Word
  <2> HIDE DEF r
  <2>1. r <= Top
    BY <1>1, <1>3, TopIs, SMT
  <2> QED
    BY <1>3, <2>1, WordIs, Zenon
<1>5. ASSUME j \in 0 .. 31
      PROVE  j \in BitsOf(r) <=> j \in 32 - n .. 31 /\ j \in BitsOf(x)
  <2> DEFINE p == 2 ^ (31 - j)
  <2>1. 31 - j \in 0 .. 32
    BY <1>5, SMT
  <2>2. p \in Nat /\ p > 0
    BY <2>1, PowerIs, Zenon
  <2>3. j \in BitsOf(r) <=> (r \div p) % 2 = 1
    BY <1>5, PlaceIs, Zenon
  <2>4. CASE j \in 32 - n .. 31
    <3> DEFINE m == n - (32 - j)
               s == 2 ^ m
    <3>1. /\ m \in 0 .. 32 /\ 32 - j \in 0 .. 32 /\ (32 - j) + m = n /\ (32 - j) + m <= 32
          /\ (31 - j) + 1 = 32 - j /\ 1 \in 0 .. 32 /\ (31 - j) + 1 <= 32 /\ 2 ^ 1 = 2
      BY <1>5, <2>4, SMT
    <3>2. t = 2 ^ (32 - j) * s
      <4> HIDE DEF m
      <4> QED
        BY <3>1, PowerOfSum, Zenon
    <3>3. 2 ^ (32 - j) = p * 2
      BY <2>1, <3>1, PowerOfSum, Zenon
    <3>4. s \in Nat /\ s > 0
      <4> HIDE DEF m
      <4> QED
        BY <3>1, PowerIs, Zenon
    <3>5. j \in BitsOf(x) <=> (x \div p) % 2 = 1
      BY <1>5, PlaceIs, Zenon
    <3> HIDE DEF p, t, s, m
    <3>6. p \in Int /\ s \in Int /\ t = p * (2 * s)
      <4>1. p \in Int /\ s \in Int
        BY <2>2, <3>4, SMT
      <4>2. t = (p * 2) * s
        BY <3>2, <3>3, Zenon
      <4> QED
        BY <4>1, <4>2, SMT
    <3>7. ((x % (p * (2 * s))) \div p) % 2 = (x \div p) % 2
      BY <1>1, <2>2, <3>4, <3>6, DigitOfRest, Zenon
    <3> QED
      BY <2>3, <2>4, <3>5, <3>6, <3>7, Zenon
  <2>5. CASE j \notin 32 - n .. 31
    <3> DEFINE m == (31 - j) - n
               s == 2 ^ m
    <3>1. m \in 0 .. 32 /\ n + m = 31 - j /\ n + m <= 32
      BY <1>5, <2>5, SMT
    <3>2. p = t * s
      <4> HIDE DEF m
      <4> QED
        BY <1>1, <3>1, PowerOfSum, Zenon
    <3>3. s \in Nat /\ s > 0
      <4> HIDE DEF m
      <4> QED
        BY <3>1, PowerIs, Zenon
    <3> HIDE DEF p, t, s, m, r
    <3>4. p \in Int /\ r < p
      <4>1. s \in Int /\ 1 <= s
        BY <3>3, SMT
      <4>2. t * 1 <= t * s
        BY <1>2, <1>3, <4>1, Least, SMT
      <4> QED
        BY <1>3, <3>2, <4>1, <4>2, SMT
    <3>5. r \div p = 0
      <4>1. r = p * 0 + r
        BY <1>3, <3>4, SMT
      <4> QED
        BY <1>3, <2>2, <3>4, <4>1, DivIs, SMT
    <3>6. 0 % 2 = 0 /\ 0 # 1
      BY SMT
    <3> QED
      BY <2>3, <2>5, <3>5, <3>6, Zenon
  <2> QED
    BY <2>4, <2>5, Zenon
<1>6. ASSUME j \notin 0 .. 31
      PROVE  j \notin BitsOf(r) /\ j \notin BitsOf(x)
  BY <1>6, PlaceIs, Zenon
<1> QED
  BY <1>4, <1>5, <1>6, Zenon

\* A word is told by its bits.
LEMMA SameBits ==
  ASSUME BYTE = 8, NEW x \in Word, NEW y \in Word, BitsOf(x) = BitsOf(y)
  PROVE  x = y
<1> DEFINE K == {k \in 0 .. 32 : x \div 2 ^ (32 - k) = y \div 2 ^ (32 - k)}
<1>1. x \in Int /\ 0 <= x /\ x <= Top /\ y \in Int /\ 0 <= y /\ y <= Top
  BY WordIs, Zenon
<1>2. 0 \in K
  <2> DEFINE h == Top + 1
  <2>1. h \in Int /\ h > 0 /\ x < h /\ y < h
    BY <1>1, TopIs, SMT
  <2>2. 2 ^ (32 - 0) = h /\ 0 \in 0 .. 32
    BY SMT DEF Top
  <2> HIDE DEF h
  <2>3. x = h * 0 + x /\ y = h * 0 + y
    BY <1>1, <2>1, SMT
  <2>4. x \div h = 0 /\ y \div h = 0
    BY <1>1, <2>1, <2>3, DivIs, SMT
  <2> QED
    BY <2>2, <2>4, Zenon
<1>3. ASSUME NEW k \in 0 .. 31, k \in K
      PROVE  k + 1 \in K
  <2> DEFINE p == 2 ^ (31 - k)
             u == x \div p
             v == y \div p
  <2>1. /\ 31 - k \in 0 .. 32 /\ k + 1 \in 0 .. 32 /\ 32 - (k + 1) = 31 - k
        /\ (31 - k) + 1 = 32 - k /\ 1 \in 0 .. 32 /\ (31 - k) + 1 <= 32 /\ 2 ^ 1 = 2
    BY SMT
  <2>2. p \in Nat /\ p > 0 /\ 2 ^ (32 - k) = p * 2
    BY <2>1, PowerIs, PowerOfSum, Zenon
  <2>3. p \in Int /\ u \in Int /\ v \in Int
    <3> HIDE DEF p
    <3> QED
      BY <1>1, <2>2, SMT
  <2>4. u % 2 = 1 <=> v % 2 = 1
    BY PlaceIs, Zenon
  <2>5. x \div (p * 2) = y \div (p * 2)
    BY <1>3, <2>2, Zenon
  <2> HIDE DEF p
  <2>6. u \div 2 = v \div 2
    <3>1. (x \div p) \div 2 = x \div (p * 2) /\ (y \div p) \div 2 = y \div (p * 2)
      BY <1>1, <2>2, <2>3, DividedTwice, SMT
    <3> QED
      BY <2>5, <3>1, Zenon
  <2> HIDE DEF u, v
  <2>7. u = v
    BY <2>3, <2>4, <2>6, SMT
  <2> QED
    BY <2>1, <2>7, Zenon DEF u, v, p
<1>4. 32 \in K
  <2> HIDE DEF K
  <2>1. 32 \in Nat /\ 32 - 1 = 31 /\ 32 \in 0 .. 32
    BY SMT
  <2>2. \A k \in 0 .. 32 : k \in K
    BY <1>2, <1>3, <2>1, Steps, Zenon
  <2> QED
    BY <2>1, <2>2, Zenon
<1>5. x \div 1 = y \div 1
  <2>1. 32 - 32 = 0 /\ 2 ^ 0 = 1
    BY SMT
  <2> QED
    BY <1>4, <2>1, Zenon
<1>6. x \div 1 = x /\ y \div 1 = y
  <2>1. x = 1 * x + 0 /\ y = 1 * y + 0
    BY <1>1, SMT
  <2> QED
    BY <1>1, <2>1, DivIs, SMT
<1> QED
  BY <1>5, <1>6, Zenon

\* The places that an inverted word has are those that the word has not.
LEMMA NotBits ==
  ASSUME BYTE = 8, NEW x \in Word
  PROVE  BitsOf(NotW(x)) = (0 .. 31) \ BitsOf(x)
<1>1. ASSUME NEW j \in 0 .. 31
      PROVE  j \in BitsOf(NotW(x)) <=> j \notin BitsOf(x)
  <2> DEFINE p == 2 ^ (31 - j)
             s == 2 ^ j
             q == x \div p
             r == x - p * q
             y == Top - x
  <2>1. x \in Int /\ 0 <= x /\ x <= Top /\ 31 - j \in 0 .. 32 /\ j \in 0 .. 32
    <3>1. x \in Int /\ 0 <= x /\ x <= Top
      BY WordIs, Zenon
    <3> QED
      BY <3>1, SMT
  <2>2. p \in Nat /\ p > 0 /\ s \in Nat
    BY <2>1, PowerIs, Zenon
  <2>3. p \in Int /\ s \in Int
    <3> HIDE DEF p, s
    <3> QED
      BY <2>2, SMT
  <2>4. Top + 1 = p * (2 * s)
    <3>1. 2 ^ 32 = Top + 1
      BY SMT DEF Top
    <3> QED
      BY <3>1, Splits, Zenon
  <2>5. NotW(x) = y
    <3>1. \A t : t = Top + 1 => t - 1 - x = Top - x
      BY <2>1, TopIs, SMT
    <3> QED
      BY <3>1, Widths, Zenon DEF NotW
  <2>6. /\ j \in BitsOf(NotW(x)) <=> (y \div p) % 2 = 1
        /\ j \in BitsOf(x) <=> q % 2 = 1
    BY <2>5, PlaceIs, Zenon
  <2> HIDE DEF p, s
  <2>7. q \in Int /\ r \in Int /\ 0 <= r /\ r < p /\ x = p * q + r
    <3>1. q \in Int /\ p * q <= x /\ x < p * (q + 1)
      BY <2>1, <2>2, <2>3, SMT
    <3> HIDE DEF q
    <3>2. p * (q + 1) = p * q + p
      BY <2>3, <3>1, SMT
    <3> QED
      BY <2>1, <2>3, <3>1, <3>2, SMT
  <2> HIDE DEF q, r
  <2> DEFINE w == 2 * s - q - 1
             t == p - 1 - r
  <2>8. w \in Int /\ t \in Int /\ 0 <= t /\ t < p /\ (w % 2 = 1 <=> q % 2 # 1)
    BY <2>2, <2>3, <2>7, SMT
  <2>9. y \in Int /\ y = p * w + t
    <3>1. p * w = p * (2 * s) - p * q - p
      BY <2>3, <2>7, SMT
    <3> QED
      BY <2>1, <2>3, <2>4, <2>7, <3>1, TopIs, SMT
  <2> HIDE DEF w, t, y
  <2>10. y \div p = w
    BY <2>2, <2>3, <2>8, <2>9, DivIs, Zenon
  <2> QED
    BY <2>6, <2>8, <2>10, Zenon
<1>2. BitsOf(NotW(x)) \subseteq 0 .. 31
  BY BitsIn, Zenon
<1> QED
  BY <1>1, <1>2, Zenon

\* The places of the bitwise operations.
LEMMA BitwiseBits ==
  ASSUME BYTE = 8, NEW x, NEW y
  PROVE  /\ BitsOf(AndW(x, y)) = BitsOf(x) \cap BitsOf(y)
         /\ BitsOf(OrW(x, y)) = BitsOf(x) \cup BitsOf(y)
<1> DEFINE s == BitsOf(x) \cap BitsOf(y)
           t == BitsOf(x) \cup BitsOf(y)
<1>1. s \in SUBSET (0 .. 31) /\ t \in SUBSET (0 .. 31)
  <2>1. BitsOf(x) \in SUBSET (0 .. 31) /\ BitsOf(y) \in SUBSET (0 .. 31)
    BY BitsIn, Zenon
  <2> QED
    BY <2>1, Zenon
<1>2. AndW(x, y) = FromBits(s) /\ OrW(x, y) = FromBits(t)
  BY Zenon DEF AndW, OrW
<1> HIDE DEF s, t
<1>3. BitsOf(FromBits(s)) = s /\ BitsOf(FromBits(t)) = t
  BY <1>1, BitsFacts, Zenon
<1> QED
  BY <1>2, <1>3, Zenon DEF s, t

\* The places of a rotated word are its places moved around.
LEMMA RotatedBits ==
  ASSUME BYTE = 8, NEW x \in Word, NEW n \in 1 .. 31, NEW junk, NEW j \in 0 .. 31
  PROVE  j \in BitsOf(Rotated(x, n, junk)) <=> (j + n) % 32 \in BitsOf(x)
<1>1. /\ n \in 0 .. 31 /\ 32 - n \in 0 .. 31 /\ n # 0 /\ j - (32 - n) = j + n - 32
  BY SMT
<1>2. BitsOf(Rotated(x, n, junk)) = BitsOf(ShiftLeft(x, n)) \cup BitsOf(ShiftRight(x, 32 - n))
  <2>1. WBITS = 32
    BY Widths, Zenon
  <2>2. Rotated(x, n, junk) = OrW(ShiftLeft(x, n), ShiftRight(x, 32 - n))
    BY <1>1, <2>1, Zenon DEF Rotated
  <2> QED
    BY <2>2, BitwiseBits, Zenon
<1>3. j \in BitsOf(ShiftLeft(x, n)) <=> j + n \in BitsOf(x)
  BY <1>1, LeftBits, Zenon
<1>4. j \in BitsOf(ShiftRight(x, 32 - n)) <=> j + n - 32 \in BitsOf(x)
  <2>1. j \in BitsOf(ShiftRight(x, 32 - n)) <=> j - (32 - n) \in BitsOf(x)
    BY <1>1, RightBits, Zenon
  <2> QED
    BY <1>1, <2>1, Zenon
<1>5. \/ (j + n) % 32 = j + n /\ j + n - 32 \notin 0 .. 31
      \/ (j + n) % 32 = j + n - 32 /\ j + n \notin 0 .. 31
  BY SMT
<1>6. BitsOf(x) \subseteq 0 .. 31
  BY BitsIn, Zenon
<1> QED
  BY <1>2, <1>3, <1>4, <1>5, <1>6, Zenon

-----------------------------------------------------------------------------
(* A field of a register put into another.                                 *)

\* A field of one register put into another, and rotated out again.
InsertIs(P) ==
  /\ {1, 2, 3} \subseteq Regs
  /\ DOMAIN P = {0, 4}
  /\ \A i \in P[0] : i.op = "rlwimi" /\ i.D = 1 /\ i.A = 2 /\ {i.MB, i.ME} \subseteq 0 .. WBITS - 1
  /\ \A i \in P[4] : i.op = "rlwinm" /\ i.D = 2 /\ i.A = 3 /\ i.MB \in 0 .. WBITS - 1 /\ i.ME = WBITS - 1

\* The bits of y with a field of those of x, rotated by i.B.
Inserted(i, x, y) ==
  {j \in 0 .. 31 : IF j \in i.MB .. i.ME THEN (j + i.B) % 32 \in BitsOf(x) ELSE j \in BitsOf(y)}

\* What the two rotations give.
LEMMA RotatesIs ==
  ASSUME BYTE = 8, NEW i, NEW junk, Rotate(i, junk), gpr[i.D] \in Word,
         i.MB \in 0 .. 31, i.ME \in 0 .. 31, i.A \in DOMAIN gpr
  PROVE  /\ gpr' = [gpr EXCEPT ![i.A] = gpr'[i.A]] /\ CIA' = NIA /\ ret' = 0
         /\ gpr'[i.A] \in Word
         /\ i.op = "rlwimi" /\ i.B \in 1 .. 31 => BitsOf(gpr'[i.A]) = Inserted(i, gpr[i.D], gpr[i.A])
         /\ i.op = "rlwinm" /\ i.B \in 1 .. 31 =>
              \A j \in 0 .. 31 : j \in BitsOf(gpr'[i.A]) <=>
                j \in i.MB .. i.ME /\ (j + i.B) % 32 \in BitsOf(gpr[i.D])
<1> DEFINE x == gpr[i.D]
           y == gpr[i.A]
           n == IF i.op = "rlwnm" THEN gpr[i.B] % WBITS ELSE i.B
           s == i.MB .. i.ME
           m == Mask(i.MB, i.ME)
           z == Rotated(x, n, junk)
           r == AndW(z, m)
           q == OrW(r, AndW(y, NotW(m)))
           g == gpr'[i.A]
<1>1. /\ gpr' = [gpr EXCEPT ![i.A] = IF i.op = "rlwimi" THEN q ELSE r]
      /\ CIA' = NIA /\ ret' = 0
  BY Zenon DEF Rotate, RotateOutcome, Outcome, Complete, CompleteTo
<1>2. m \in Word /\ BitsOf(m) = s
  <2>1. s \in SUBSET (0 .. 31)
    BY SMT
  <2>2. m = FromBits(s)
    BY Zenon DEF Mask
  <2> HIDE DEF m, s
  <2> QED
    BY <2>1, <2>2, BitsFacts, Zenon
<1>3. BitsOf(NotW(m)) = (0 .. 31) \ s
  <2> HIDE DEF m, s
  <2> QED
    BY <1>2, NotBits, Zenon
<1>4. r \in Word /\ q \in Word /\ BitsOf(r) = BitsOf(z) \cap s
      /\ BitsOf(q) = BitsOf(r) \cup (BitsOf(y) \cap ((0 .. 31) \ s))
  <2>1. BitsOf(r) = BitsOf(z) \cap BitsOf(m)
    BY BitwiseBits, Zenon
  <2>2. BitsOf(q) = BitsOf(r) \cup BitsOf(AndW(y, NotW(m)))
    BY BitwiseBits, Zenon
  <2>3. BitsOf(AndW(y, NotW(m))) = BitsOf(y) \cap BitsOf(NotW(m))
    BY BitwiseBits, Zenon
  <2>4. r \in Word /\ q \in Word
    BY OrIsWord, Zenon
  <2> HIDE DEF r, q, m, s, z
  <2> QED
    BY <1>2, <1>3, <2>1, <2>2, <2>3, <2>4, Zenon
<1> HIDE DEF m, r, q
<1>5. g = (IF i.op = "rlwimi" THEN q ELSE r) /\ gpr' = [gpr EXCEPT ![i.A] = g]
  BY <1>1, Zenon
<1>6. g \in Word
  BY <1>4, <1>5, Zenon
<1>7. ASSUME i.op # "rlwnm", i.B \in 1 .. 31, NEW j \in 0 .. 31
      PROVE  j \in BitsOf(z) <=> (j + i.B) % 32 \in BitsOf(x)
  <2>1. n = i.B
    BY <1>7, Zenon
  <2> HIDE DEF n, x
  <2>2. x \in Word
    BY Zenon DEF x
  <2> QED
    BY <1>7, <2>1, <2>2, RotatedBits, Zenon
<1>8. BitsOf(y) \subseteq 0 .. 31 /\ BitsOf(z) \subseteq 0 .. 31 /\ s \subseteq 0 .. 31
  <2>1. s \subseteq 0 .. 31
    BY SMT
  <2> QED
    BY <2>1, BitsIn, Zenon
<1> HIDE DEF z, g, n
<1>9. ASSUME i.op = "rlwimi", i.B \in 1 .. 31
      PROVE  BitsOf(g) = Inserted(i, x, y)
  <2>1. g = q /\ i.op # "rlwnm"
    BY <1>5, <1>9, Zenon
  <2>2. ASSUME NEW j
        PROVE  j \in BitsOf(q) <=> j \in Inserted(i, x, y)
    <3> HIDE DEF x, y
    <3>1. j \in BitsOf(q) <=> j \in 0 .. 31 /\ (IF j \in s THEN j \in BitsOf(z) ELSE j \in BitsOf(y))
      BY <1>4, <1>8, Zenon
    <3> QED
      BY <1>7, <1>9, <2>1, <3>1, Zenon DEF Inserted
  <2> QED
    BY <2>1, <2>2, Zenon
<1>10. ASSUME i.op = "rlwinm", i.B \in 1 .. 31, NEW j \in 0 .. 31
       PROVE  j \in BitsOf(g) <=> j \in s /\ (j + i.B) % 32 \in BitsOf(x)
  <2>1. g = r /\ i.op # "rlwnm"
    BY <1>5, <1>10, Zenon
  <2> QED
    BY <1>4, <1>7, <1>10, <2>1, Zenon
<1> QED
  BY <1>1, <1>5, <1>6, <1>9, <1>10, Zenon DEF g

\* The first instruction has put a field of x into y, the second taken one of u out.
Puts(i, x, y, u) == i.B \in 1 .. 31 => BitsOf(u) = Inserted(i, x, y)

Takes(k, u, v) ==
  k.B \in 1 .. 31 => \A j \in 0 .. 31 :
    j \in BitsOf(v) <=> j \in k.MB .. k.ME /\ (j + k.B) % 32 \in BitsOf(u)

\* The second is the first undone, as CopiesAreExact has it.
Undoes(k, i) == i.B = 31 - i.ME /\ k.B = i.ME + 1 /\ k.MB = 31 - (i.ME - i.MB)

\* A field put in by i and taken out by k, where k undoes the rotation of i: it is
\* what it was, and so is the rest of the register it was put into.
LEMMA FieldBack ==
  ASSUME BYTE = 8, NEW i, NEW k, NEW x \in Word, NEW y, NEW u, NEW v \in Word,
         i.MB \in 0 .. 31, i.ME \in 0 .. 31, k.MB \in 0 .. 31, k.B \in 0 .. 31,
         k.ME = 31, Undoes(k, i), Puts(i, x, y, u), Takes(k, u, v)
  PROVE  /\ v = x % 2 ^ (i.ME - i.MB + 1)
         /\ BitsOf(u) \ (i.MB .. i.ME) = BitsOf(y) \ (i.MB .. i.ME)
<1> DEFINE mb == i.MB
           me == i.ME
           n == me - mb + 1
           s == mb .. me
<1>0. i.B = 31 - i.ME /\ k.B = i.ME + 1 /\ k.MB = 31 - (i.ME - i.MB)
  BY Zenon DEF Undoes
<1>1. /\ i.B \in 1 .. 31 /\ k.B \in 1 .. 31 /\ n \in 0 .. 31 /\ 32 - n = k.MB
  BY <1>0, SMT
<1>2. BitsOf(u) = Inserted(i, x, y)
  BY <1>1, Zenon DEF Puts
<1>3. BitsOf(u) \ s = BitsOf(y) \ s
  <2>1. BitsOf(y) \subseteq 0 .. 31
    BY BitsIn, Zenon
  <2> HIDE DEF s
  <2>2. \A j : j \in Inserted(i, x, y) <=>
                 j \in 0 .. 31 /\ (IF j \in s THEN (j + i.B) % 32 \in BitsOf(x) ELSE j \in BitsOf(y))
    BY Zenon DEF Inserted, s
  <2> QED
    BY <1>2, <2>1, <2>2, Zenon
<1>4. ASSUME NEW j \in 0 .. 31
      PROVE  j \in BitsOf(v) <=> j \in 32 - n .. 31 /\ j \in BitsOf(x)
  <2> DEFINE l == (j + k.B) % 32
  <2>1. j \in BitsOf(v) <=> j \in k.MB .. 31 /\ l \in BitsOf(u)
    BY <1>1, Zenon DEF Takes
  <2>2. ASSUME j \in k.MB .. 31
        PROVE  l \in 0 .. 31 /\ l \in s /\ (l + i.B) % 32 = j
    <3>1. /\ me \in Int /\ mb \in Int /\ 0 <= mb /\ me <= 31
          /\ 31 - (me - mb) <= j /\ j <= 31 /\ j \in Int
      BY <1>0, <2>2, SMT
    <3>2. k.B = me + 1 /\ i.B = 31 - me
      BY <1>0, Zenon
    <3> HIDE DEF me, mb
    <3>3. j + (me + 1) = 32 + (j + me - 31) /\ j + me - 31 \in 0 .. 31
      BY <3>1, SMT
    <3>4. (j + (me + 1)) % 32 = j + me - 31
      BY <3>1, <3>3, SMT
    <3>5. ((j + me - 31) + (31 - me)) % 32 = j
      BY <3>1, SMT
    <3>6. j + me - 31 \in mb .. me
      BY <3>1, SMT
    <3>7. l = j + me - 31
      BY <3>2, <3>4, Zenon
    <3> HIDE DEF l
    <3> QED
      BY <3>2, <3>3, <3>5, <3>6, <3>7, Zenon
  <2> HIDE DEF l
  <2>3. ASSUME j \in k.MB .. 31
        PROVE  l \in BitsOf(u) <=> j \in BitsOf(x)
    BY <1>2, <2>2, <2>3, Zenon DEF Inserted
  <2> QED
    BY <1>1, <2>1, <2>3, Zenon
<1> DEFINE z == x % 2 ^ n
<1>5. z \in Word /\ \A j : j \in BitsOf(z) <=> j \in 32 - n .. 31 /\ j \in BitsOf(x)
  <2> HIDE DEF n
  <2> QED
    BY <1>1, RestBits, Zenon
<1>6. BitsOf(v) \subseteq 0 .. 31 /\ BitsOf(z) \subseteq 0 .. 31
  BY BitsIn, Zenon
<1> HIDE DEF z, n
<1>7. BitsOf(v) = BitsOf(z)
  BY <1>4, <1>5, <1>6, Zenon
<1>8. v = z
  BY <1>5, <1>7, SameBits, Zenon
<1> QED
  BY <1>3, <1>8, Zenon DEF z, n

\* The goal of the program, by the two instructions executed.
FieldKept ==
  LET mb == ir[2].MB
      me == ir[2].ME
  IN  ir[2].B = WBITS - 1 - me /\ ir[1].B = me + 1 /\ ir[1].MB = WBITS - 1 - (me - mb) =>
        /\ gpr[3] = entry.gpr[1] % 2 ^ (me - mb + 1)
        /\ BitsOf(gpr[2]) \ (mb .. me) = BitsOf(entry.gpr[2]) \ (mb .. me)

\* The inductive invariant: the field is in its register.
InsertInv ==
  prog = "insert" =>
    /\ CIA = 0 => gpr = entry.gpr
    /\ CIA = 4 => /\ Len(ir) >= 1 /\ ir[1] \in Programs["insert"][0]
                  /\ ir[1].B \in 1 .. 31 =>
                       BitsOf(gpr[2]) = Inserted(ir[1], entry.gpr[1], entry.gpr[2])
    /\ CIA \notin {0, 4} => FieldKept

\* Both instructions keep it.
LEMMA InsertStep ==
  ASSUME BYTE = 8, InsertIs(Programs["insert"]), TraceInv, WordsInv, EntryInv, InsertInv,
         prog = "insert", Next
  PROVE  InsertInv'
<1> DEFINE P == Programs["insert"]
<1>1. PICK i \in P[CIA], junk \in Junk : Step(i, junk)
  BY Zenon DEF Next
<1>2. CIA \in {0, 4} /\ prog' = prog /\ entry' = entry
  BY <1>1, Zenon DEF Next, Running, InsertIs, Step
<1>3. i \in Instructions /\ Decoded(i) /\ ir \in Seq(Instructions)
  <2>1. i \in Instructions
    BY <1>1, <1>2 DEF TraceInv, Instructions, InsertIs
  <2> QED
    BY <2>1, ProgramsAssumption, Zenon DEF TraceInv
<1>4. ir' \in Seq(Instructions) /\ Len(ir') >= 1 /\ ir'[1] = i
  <2> DEFINE t == SubSeq(ir, 1, Min({1, Len(ir)}))
  <2>1. ir' = <<i>> \o t
    BY <1>1, Zenon DEF Step
  <2>2. ir' \in Seq(Instructions) /\ ir'[1] = i
    BY <1>3, <2>1, Newest, Zenon
  <2>3. Len(ir') >= 1
    BY <1>3, <2>1, HistoryIs, Zenon
  <2> QED
    BY <2>2, <2>3
<1>5. /\ gpr \in [Regs -> Word] /\ entry.gpr \in [Regs -> Word]
      /\ 1 \in Regs /\ 2 \in Regs /\ 3 \in Regs /\ DOMAIN gpr = Regs
      /\ \A r \in Regs : gpr[r] \in Word /\ entry.gpr[r] \in Word
  <2>1. gpr \in [Regs -> Word] /\ 1 \in Regs /\ 2 \in Regs /\ 3 \in Regs
    BY Zenon DEF WordsInv, RegsInv, InsertIs
  <2>2. entry.gpr \in [Regs -> Word]
    BY ProgramsAssumption, Zenon DEF EntryInv
  <2> QED
    BY <2>1, <2>2, Zenon
<1>6. 0 # 4 /\ 8 # 0 /\ 8 # 4 /\ 2 # 3
  OBVIOUS
<1>7. WBITS - 1 = 31
  BY Widths, Zenon
<1>8. ASSUME i.op \in {"rlwimi", "rlwinm"}
      PROVE  Rotate(i, junk) /\ i.B \in 0 .. 31
  <2>1. Rotate(i, junk)
    BY <1>1, <1>8, CopyingActions, Zenon DEF RegisterCopies
  <2> QED
    BY <1>3, <1>7, <1>8, <2>1, Zenon DEF Decoded, ImmediateShifts
<1>9. CASE CIA = 0
  <2>1. i.op = "rlwimi" /\ i.D = 1 /\ i.A = 2 /\ i.MB \in 0 .. 31 /\ i.ME \in 0 .. 31 /\ i \in P[0]
    BY <1>1, <1>7, <1>9, Zenon DEF InsertIs
  <2>2. Rotate(i, junk)
    BY <1>8, <2>1, Zenon
  <2>3. gpr = entry.gpr
    BY <1>9, Zenon DEF InsertInv
  <2>4. gpr[i.D] \in Word /\ i.A \in DOMAIN gpr
    BY <1>5, <2>1, Zenon
  <2>5. CIA' = NIA /\ (i.B \in 1 .. 31 => BitsOf(gpr'[i.A]) = Inserted(i, gpr[i.D], gpr[i.A]))
    BY <2>1, <2>2, <2>4, RotatesIs, Zenon
  <2>6. i.B \in 1 .. 31 => BitsOf(gpr'[2]) = Inserted(i, entry'.gpr[1], entry'.gpr[2])
    <3>1. i.B \in 1 .. 31 => BitsOf(gpr'[2]) = Inserted(i, gpr[1], gpr[2])
      BY <2>1, <2>5
    <3> QED
      BY <1>2, <2>3, <3>1
  <2>7. CIA' = 4
    BY <1>9, <2>5, Places, Zenon
  <2>8. BitsOf(gpr[2])' = BitsOf(gpr'[2])
    BY Zenon DEF BitsOf
  <2>9. Inserted(ir[1], entry.gpr[1], entry.gpr[2])' = Inserted(i, entry'.gpr[1], entry'.gpr[2])
    BY <1>4, Zenon DEF Inserted, BitsOf
  <2> QED
    BY <1>4, <1>6, <2>1, <2>6, <2>7, <2>8, <2>9, Zenon DEF InsertInv
<1>10. CASE CIA = 4
  <2> DEFINE c == ir[1]
             x == entry.gpr[1]
             y == entry.gpr[2]
             u == gpr[2]
             v == gpr'[3]
  <2>1. i.op = "rlwinm" /\ i.D = 2 /\ i.A = 3 /\ i.MB \in 0 .. 31 /\ i.ME = 31 /\ i.ME \in 0 .. 31
    <3>1. 31 \in 0 .. 31
      BY SMT
    <3> QED
      BY <1>1, <1>7, <1>10, <3>1, Zenon DEF InsertIs
  <2>2. Rotate(i, junk) /\ i.B \in 0 .. 31
    BY <1>8, <2>1, Zenon
  <2>3. /\ Len(ir) >= 1 /\ c \in P[0]
        /\ c.B \in 1 .. 31 => BitsOf(u) = Inserted(c, x, y)
    BY <1>10, Zenon DEF InsertInv
  <2>4. c.MB \in 0 .. 31 /\ c.ME \in 0 .. 31
    BY <1>7, <2>3, Zenon DEF InsertIs
  <2>5. gpr[i.D] \in Word /\ i.A \in DOMAIN gpr
    BY <1>5, <2>1, Zenon
  <2>6. /\ gpr' = [gpr EXCEPT ![i.A] = gpr'[i.A]] /\ CIA' = NIA /\ gpr'[i.A] \in Word
        /\ i.B \in 1 .. 31 =>
              \A j \in 0 .. 31 : j \in BitsOf(gpr'[i.A]) <=>
                j \in i.MB .. i.ME /\ (j + i.B) % 32 \in BitsOf(gpr[i.D])
    BY <2>1, <2>2, <2>5, RotatesIs, Zenon
  <2>7. /\ gpr'[2] = u /\ v \in Word
        /\ i.B \in 1 .. 31 =>
              \A j \in 0 .. 31 : j \in BitsOf(v) <=>
                j \in i.MB .. i.ME /\ (j + i.B) % 32 \in BitsOf(u)
    <3>1. gpr'[2] = u
      BY <1>5, <1>6, <2>1, <2>6
    <3> QED
      BY <2>1, <2>6, <3>1
  <2>8. CIA' = 8
    BY <1>10, <2>6, Places, Zenon
  <2>9. ir'[2] = c
    BY <1>1, <1>3, <2>3, Before, Zenon DEF Step
  <2>10. ASSUME c.B = 31 - c.ME, i.B = c.ME + 1, i.MB = 31 - (c.ME - c.MB)
         PROVE  /\ v = x % 2 ^ (c.ME - c.MB + 1)
                /\ BitsOf(u) \ (c.MB .. c.ME) = BitsOf(y) \ (c.MB .. c.ME)
    <3>1. x \in Word /\ v \in Word
      BY <1>5, <2>7, Zenon
    <3>2. Undoes(i, c) /\ Puts(c, x, y, u) /\ Takes(i, u, v)
      BY <2>3, <2>7, <2>10, Zenon DEF Undoes, Puts, Takes
    <3> HIDE DEF c, x, y, u, v
    <3> QED
      BY <2>1, <2>2, <2>4, <3>1, <3>2, FieldBack, SMT
  <2>11. WBITS' = WBITS
    BY Zenon DEF WBITS
  <2>12. FieldKept'
    <3>1. BitsOf(gpr[2])' = BitsOf(u) /\ BitsOf(entry.gpr[2])' = BitsOf(y)
      BY <1>2, <2>7, Zenon DEF BitsOf
    <3> SUFFICES ASSUME /\ ir'[2].B = WBITS - 1 - ir'[2].ME /\ ir'[1].B = ir'[2].ME + 1
                        /\ ir'[1].MB = WBITS - 1 - (ir'[2].ME - ir'[2].MB)
                 PROVE  /\ gpr'[3] = entry'.gpr[1] % 2 ^ (ir'[2].ME - ir'[2].MB + 1)
                        /\ BitsOf(gpr[2])' \ (ir'[2].MB .. ir'[2].ME)
                             = BitsOf(entry.gpr[2])' \ (ir'[2].MB .. ir'[2].ME)
      BY <2>11 DEF FieldKept
    <3>2. c.B = 31 - c.ME /\ i.B = c.ME + 1 /\ i.MB = 31 - (c.ME - c.MB)
      BY <1>4, <1>7, <2>9
    <3>3. /\ v = x % 2 ^ (c.ME - c.MB + 1)
          /\ BitsOf(u) \ (c.MB .. c.ME) = BitsOf(y) \ (c.MB .. c.ME)
      BY <2>10, <3>2, Zenon
    <3> QED
      BY <1>2, <2>9, <3>1, <3>3
  <2> QED
    BY <1>6, <2>8, <2>12, Zenon DEF InsertInv
<1> QED
  BY <1>2, <1>9, <1>10, Zenon

\* CopiesAreExact: what a program stored and loaded again, by all registers, by bytes
\* or with its bytes reversed, is what it was, and so is a field put into another
\* register and taken out of it.
THEOREM CopiesTheorem ==
  ASSUME BYTE = 8, SaveIs(Programs["save"]), CopyIs(Programs["copy"]),
         SwapIs(Programs["swap"]), InsertIs(Programs["insert"])
  PROVE  Spec => []CopiesAreExact
<1> DEFINE Inv == SaveInv /\ CopyInv /\ SwapInv /\ InsertInv
<1>1. Init => EntryInv /\ Inv
  <2> SUFFICES ASSUME Init PROVE EntryInv /\ Inv
    OBVIOUS
  <2>1. 0 # 4 /\ 0 # 8 /\ 0 # 12 /\ 0 \in {0, 4} /\ 0 \in {0, 4, 8, 12} /\ 0 \notin {4, 8, 12}
    OBVIOUS
  <2>2. EntryInv /\ CIA = 0 /\ gpr = entry.gpr /\ mem = entry.mem /\ spr = entry.spr
    BY ProgramsAssumption, Zenon DEF Init, EntryInv
  <2> QED
    BY <2>1, <2>2, Zenon DEF SaveInv, CopyInv, SwapInv, InsertInv
<1>2. TraceInv /\ WordsInv /\ EntryInv /\ Inv /\ [Next]_vars => Inv'
  <2> SUFFICES ASSUME TraceInv, WordsInv, EntryInv, Inv, [Next]_vars  PROVE Inv'
    OBVIOUS
  <2>1. CASE UNCHANGED vars
    <3>1. SaveInv' /\ SwapInv'
      BY <2>1, Zenon DEF vars, SaveInv, SwapInv, MemWord, MemHalf, pSwap4Bytes, SwapHalf, LowerHalf
    <3>2. CopyInv'
      BY <2>1, Zenon DEF vars, CopyInv, InRegister, ByteCount
    <3>3. InsertInv'
      BY <2>1, Zenon DEF vars, InsertInv, FieldKept, Inserted, BitsOf
    <3> QED
      BY <3>1, <3>2, <3>3
  <2>2. CASE Next
    <3>1. prog' = prog
      BY <2>2, Zenon DEF Next, Step
    <3>2. SaveInv'
      BY <2>2, <3>1, SaveStep, Zenon DEF SaveInv
    <3>3. CopyInv'
      BY <2>2, <3>1, CopyStep, Zenon DEF CopyInv
    <3>4. SwapInv'
      BY <2>2, <3>1, SwapStep, Zenon DEF SwapInv
    <3>5. InsertInv'
      BY <2>2, <3>1, InsertStep, Zenon DEF InsertInv
    <3> QED
      BY <3>2, <3>3, <3>4, <3>5
  <2> QED
    BY <2>1, <2>2
<1>3. Inv => CopiesAreExact
  <2> SUFFICES ASSUME Inv, Ended PROVE CopiesAreExact
    BY Zenon DEF CopiesAreExact
  <2>1. ASSUME prog = "save" PROVE gpr = entry.gpr
    BY <2>1, Zenon DEF SaveInv, SaveIs, Ended
  <2>2. ASSUME prog = "copy"
        PROVE  \A k \in 0 .. MEM - 1 :
                 mem[k] = entry.mem[IF k < ByteCount(entry.spr) THEN entry.gpr[1] + k ELSE k]
    BY <2>2, Zenon DEF CopyInv, CopyIs, Ended
  <2>3. ASSUME prog = "swap" PROVE gpr[3] = gpr[2] /\ gpr[0] = gpr[2] % 2 ^ (2 * BYTE)
    BY <2>3, Zenon DEF SwapInv, SwapIs, Ended, LowerHalf
  <2>4. ASSUME prog = "insert" PROVE FieldKept
    BY <2>4, Zenon DEF InsertInv, InsertIs, Ended
  <2> QED
    BY <2>1, <2>2, <2>3, <2>4, Zenon DEF CopiesAreExact, FieldKept
<1> QED
  BY <1>1, <1>2, <1>3, TraceTheorem, WordsTheorem, EntryStep, PTL DEF Spec

=============================================================================
