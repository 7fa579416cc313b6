--------------------------- MODULE HexToolProofs ---------------------------
(***************************************************************************)
(* For every block size and file: the file keeps its length, is            *)
(* transformed up to a byte of the block in hand, and wholly once a run    *)
(* reports success.  Each mode does what print_help says on every byte, so *)
(* the first run that succeeds does so on the file, and a mode that is its *)
(* own inverse is undone by a second one.                                  *)
(***************************************************************************)
EXTENDS HexTool, SequenceTheorems, TLAPS

\* Between two blocks the file is transformed up to the position; in between,
\* the buffer holds the images of the block, and it is written at once.
Progress ==
  /\ pos <= Len(file)
  /\ pc = "read" => file = PartOf(pos)
  /\ pc = "write" => /\ file = PartOf(pos)
                     /\ Len(buffer) \in 1..BUFFER_SIZE
                     /\ pos + Len(buffer) <= Len(file)
                     /\ \A i \in DOMAIN buffer :
                          buffer[i] = get_transform(mode, before[pos + i])
  /\ pc = "seek" => /\ file = PartOf(pos + Len(buffer))
                    /\ Len(buffer) \in 1..BUFFER_SIZE
                    /\ pos + Len(buffer) <= Len(file)
  /\ pc = "success" => file = PartOf(Len(before))

\* What earlier runs have done: only the last one can have made all of them
\* succeed, and then the second run began on what the first one made.
History ==
  /\ runs > 0
  /\ finished <= runs
  /\ finished = runs => pc = "success"
  /\ runs = 1 => before = original
  /\ runs = 2 /\ ((finished = 1 /\ pc # "success") \/ finished = 2) =>
       before = Transformed(original)

IInv == TypeOK /\ Progress /\ PrefixTransformed /\ History

-----------------------------------------------------------------------------
(* The byte functions.                                                     *)

\* Bit, weight by weight.
LEMMA BitIs ==
  ASSUME NEW c
  PROVE  /\ Bit(c, 0) = (c \div 1) % 2 /\ Bit(c, 1) = (c \div 2) % 2
         /\ Bit(c, 2) = (c \div 4) % 2 /\ Bit(c, 3) = (c \div 8) % 2
         /\ Bit(c, 4) = (c \div 16) % 2 /\ Bit(c, 5) = (c \div 32) % 2
         /\ Bit(c, 6) = (c \div 64) % 2 /\ Bit(c, 7) = (c \div 128) % 2
BY DEF Bit, Weight

\* A byte is the sum of its bits.
LEMMA SumOfBits ==
  ASSUME NEW c \in Byte
  PROVE  /\ c = Bit(c, 0) + 2 * Bit(c, 1) + 4 * Bit(c, 2) + 8 * Bit(c, 3)
                  + 16 * Bit(c, 4) + 32 * Bit(c, 5) + 64 * Bit(c, 6)
                  + 128 * Bit(c, 7)
         /\ \A i \in 0..7 : Bit(c, i) \in 0..1
<1>1. c \in Int /\ c \in 0..255
  BY DEF Byte
<1>2. c = (c % 2) + 2 * ((c \div 2) % 2) + 4 * ((c \div 4) % 2)
            + 8 * ((c \div 8) % 2) + 16 * ((c \div 16) % 2)
            + 32 * ((c \div 32) % 2) + 64 * ((c \div 64) % 2)
            + 128 * ((c \div 128) % 2)
  BY <1>1
<1>3. \A i \in 0..7 : Bit(c, i) \in 0..1
  BY <1>1, BitIs
<1>4. c \div 1 = c
  BY <1>1
<1>5. c % 2 = Bit(c, 0)
  BY <1>4, BitIs
<1> QED
  BY <1>2, <1>3, <1>5, BitIs

\* Eight bits make a byte that has these bits.
LEMMA BitsOfSum ==
  ASSUME NEW b \in [0..7 -> 0..1]
  PROVE  FromBits(b) \in Byte /\ \A i \in 0..7 : Bit(FromBits(b), i) = b[i]
<1> DEFINE c == FromBits(b)
<1>1. /\ b[0] \in 0..1 /\ b[1] \in 0..1 /\ b[2] \in 0..1 /\ b[3] \in 0..1
      /\ b[4] \in 0..1 /\ b[5] \in 0..1 /\ b[6] \in 0..1 /\ b[7] \in 0..1
  OBVIOUS
<1>2. /\ c \in 0..255 /\ c % 2 = b[0] /\ (c \div 2) % 2 = b[1]
      /\ (c \div 4) % 2 = b[2] /\ (c \div 8) % 2 = b[3]
      /\ (c \div 16) % 2 = b[4] /\ (c \div 32) % 2 = b[5]
      /\ (c \div 64) % 2 = b[6] /\ (c \div 128) % 2 = b[7]
  BY <1>1 DEF FromBits
<1> HIDE DEF c
<1>3. c \div 1 = c
  BY <1>2
<1>4. \A i \in 0..7 : Bit(c, i) = b[i]
  BY <1>2, <1>3, BitIs
<1> QED
  BY <1>2, <1>4 DEF c, Byte

\* Two bytes with the same bits are the same.
LEMMA SameBits ==
  ASSUME NEW c \in Byte, NEW d \in Byte,
         \A i \in 0..7 : Bit(c, i) = Bit(d, i)
  PROVE  c = d
<1>1. /\ Bit(c, 0) = Bit(d, 0) /\ Bit(c, 1) = Bit(d, 1)
      /\ Bit(c, 2) = Bit(d, 2) /\ Bit(c, 3) = Bit(d, 3)
      /\ Bit(c, 4) = Bit(d, 4) /\ Bit(c, 5) = Bit(d, 5)
      /\ Bit(c, 6) = Bit(d, 6) /\ Bit(c, 7) = Bit(d, 7)
  OBVIOUS
<1> QED
  BY <1>1, SumOfBits

\* The bits of a byte, one by one, for the arithmetic below.
LEMMA EachBit ==
  ASSUME NEW c \in Byte
  PROVE  /\ Bit(c, 0) \in 0..1 /\ Bit(c, 1) \in 0..1 /\ Bit(c, 2) \in 0..1
         /\ Bit(c, 3) \in 0..1 /\ Bit(c, 4) \in 0..1 /\ Bit(c, 5) \in 0..1
         /\ Bit(c, 6) \in 0..1 /\ Bit(c, 7) \in 0..1
BY SumOfBits

\* What the masks of bit_reverse and the one of xor_0x55 pick out.
LEMMA Masks ==
  ASSUME NEW c \in Byte
  PROVE  /\ And(c, 15) = Bit(c, 0) + 2 * Bit(c, 1) + 4 * Bit(c, 2)
                           + 8 * Bit(c, 3)
         /\ And(c, 240) = 16 * Bit(c, 4) + 32 * Bit(c, 5) + 64 * Bit(c, 6)
                            + 128 * Bit(c, 7)
         /\ And(c, 51) = Bit(c, 0) + 2 * Bit(c, 1) + 16 * Bit(c, 4)
                           + 32 * Bit(c, 5)
         /\ And(c, 204) = 4 * Bit(c, 2) + 8 * Bit(c, 3) + 64 * Bit(c, 6)
                            + 128 * Bit(c, 7)
         /\ And(c, 85) = Bit(c, 0) + 4 * Bit(c, 2) + 16 * Bit(c, 4)
                           + 64 * Bit(c, 6)
         /\ And(c, 170) = 2 * Bit(c, 1) + 8 * Bit(c, 3) + 32 * Bit(c, 5)
                            + 128 * Bit(c, 7)
<1> DEFINE Picked(S) == FromBits([i \in 0..7 |-> IF i \in S THEN Bit(c, i) ELSE 0])
<1>1. /\ \A i \in 0..7 : Bit(15, i) = 1 <=> i \in {0, 1, 2, 3}
      /\ \A i \in 0..7 : Bit(240, i) = 1 <=> i \in {4, 5, 6, 7}
      /\ \A i \in 0..7 : Bit(51, i) = 1 <=> i \in {0, 1, 4, 5}
      /\ \A i \in 0..7 : Bit(204, i) = 1 <=> i \in {2, 3, 6, 7}
      /\ \A i \in 0..7 : Bit(85, i) = 1 <=> i \in {0, 2, 4, 6}
      /\ \A i \in 0..7 : Bit(170, i) = 1 <=> i \in {1, 3, 5, 7}
  BY BitIs
<1>2. /\ And(c, 15) = Picked({0, 1, 2, 3}) /\ And(c, 240) = Picked({4, 5, 6, 7})
      /\ And(c, 51) = Picked({0, 1, 4, 5}) /\ And(c, 204) = Picked({2, 3, 6, 7})
      /\ And(c, 85) = Picked({0, 2, 4, 6}) /\ And(c, 170) = Picked({1, 3, 5, 7})
  BY <1>1 DEF And
<1> QED
  BY <1>2, EachBit DEF FromBits

-----------------------------------------------------------------------------
\* One line of bit_reverse exchanges the neighbouring groups of bits.
LEMMA Exchanges ==
  ASSUME NEW c \in Byte
  PROVE  /\ Exchange(c, 240, 15, 4) =
              FromBits([i \in 0..7 |-> Bit(c, (i + 4) % 8)])
         /\ Exchange(c, 204, 51, 2) =
              FromBits([i \in 0..7 |->
                          Bit(c, IF i \in {0, 1, 4, 5} THEN i + 2 ELSE i - 2)])
         /\ Exchange(c, 170, 85, 1) =
              FromBits([i \in 0..7 |->
                          Bit(c, IF i \in {0, 2, 4, 6} THEN i + 1 ELSE i - 1)])
<1>1. Exchange(c, 240, 15, 4) =
        Bit(c, 4) + 2 * Bit(c, 5) + 4 * Bit(c, 6) + 8 * Bit(c, 7)
          + 16 * Bit(c, 0) + 32 * Bit(c, 1) + 64 * Bit(c, 2) + 128 * Bit(c, 3)
  BY EachBit, Masks DEF Exchange, Shl, Shr, UChar, Weight
<1>2. Exchange(c, 204, 51, 2) =
        Bit(c, 2) + 2 * Bit(c, 3) + 4 * Bit(c, 0) + 8 * Bit(c, 1)
          + 16 * Bit(c, 6) + 32 * Bit(c, 7) + 64 * Bit(c, 4) + 128 * Bit(c, 5)
  BY EachBit, Masks DEF Exchange, Shl, Shr, UChar, Weight
<1>3. Exchange(c, 170, 85, 1) =
        Bit(c, 1) + 2 * Bit(c, 0) + 4 * Bit(c, 3) + 8 * Bit(c, 2)
          + 16 * Bit(c, 5) + 32 * Bit(c, 4) + 64 * Bit(c, 7) + 128 * Bit(c, 6)
  BY EachBit, Masks DEF Exchange, Shl, Shr, UChar, Weight
<1>4. Exchange(c, 240, 15, 4) = FromBits([i \in 0..7 |-> Bit(c, (i + 4) % 8)])
  BY <1>1, EachBit DEF FromBits
<1>5. Exchange(c, 204, 51, 2) =
        FromBits([i \in 0..7 |->
                    Bit(c, IF i \in {0, 1, 4, 5} THEN i + 2 ELSE i - 2)])
  BY <1>2, EachBit DEF FromBits
<1>6. Exchange(c, 170, 85, 1) =
        FromBits([i \in 0..7 |->
                    Bit(c, IF i \in {0, 2, 4, 6} THEN i + 1 ELSE i - 1)])
  BY <1>3, EachBit DEF FromBits
<1> QED
  BY <1>4, <1>5, <1>6

\* Its three lines together reverse the bits.
LEMMA Reverses ==
  ASSUME NEW c \in Byte
  PROVE  bit_reverse(c) = FromBits([i \in 0..7 |-> Bit(c, 7 - i)])
<1> DEFINE p == [i \in 0..7 |-> Bit(c, (i + 4) % 8)]
           d == FromBits(p)
           q == [i \in 0..7 |->
                   Bit(d, IF i \in {0, 1, 4, 5} THEN i + 2 ELSE i - 2)]
           e == FromBits(q)
           r == [i \in 0..7 |->
                   Bit(e, IF i \in {0, 2, 4, 6} THEN i + 1 ELSE i - 1)]
<1>1. p \in [0..7 -> 0..1]
  BY SumOfBits
<1>2. d \in Byte /\ \A i \in 0..7 : Bit(d, i) = p[i]
  BY <1>1, BitsOfSum
<1>3. \A i \in 0..7 : Bit(d, i) = Bit(c, (i + 4) % 8)
  BY <1>2
<1>4. d = Exchange(c, 240, 15, 4)
  BY Exchanges
<1> HIDE DEF d
<1>5. q \in [0..7 -> 0..1]
  BY <1>2, SumOfBits
<1>6. e \in Byte /\ \A i \in 0..7 : Bit(e, i) = q[i]
  BY <1>5, BitsOfSum
<1>7. e = Exchange(d, 204, 51, 2)
  BY <1>2, Exchanges
<1> HIDE DEF e
<1>8. bit_reverse(c) = FromBits(r)
  BY <1>4, <1>6, <1>7, Exchanges DEF bit_reverse
<1>9. ASSUME NEW i \in 0..7 PROVE r[i] = Bit(c, 7 - i)
  <2> DEFINE j == IF i \in {0, 2, 4, 6} THEN i + 1 ELSE i - 1
             k == IF j \in {0, 1, 4, 5} THEN j + 2 ELSE j - 2
  <2>1. j \in 0..7 /\ k \in 0..7 /\ (k + 4) % 8 = 7 - i
    OBVIOUS
  <2>2. r[i] = Bit(e, j)
    OBVIOUS
  <2> HIDE DEF j
  <2>3. Bit(e, j) = Bit(d, k)
    BY <1>6, <2>1
  <2> HIDE DEF k
  <2>4. Bit(d, k) = Bit(c, 7 - i)
    BY <1>3, <2>1
  <2> QED
    BY <2>2, <2>3, <2>4
<1>10. r = [i \in 0..7 |-> Bit(c, 7 - i)]
  BY <1>9
<1> QED
  BY <1>8, <1>10

\* The other functions whose bits are bits of their argument.
LEMMA Rotations ==
  ASSUME NEW c \in Byte
  PROVE  /\ rot_left_3(c) = FromBits([i \in 0..7 |-> Bit(c, (i + 5) % 8)])
         /\ rot_right_4(c) = FromBits([i \in 0..7 |-> Bit(c, (i + 4) % 8)])
<1>1. rot_left_3(c) =
        Bit(c, 5) + 2 * Bit(c, 6) + 4 * Bit(c, 7) + 8 * Bit(c, 0)
          + 16 * Bit(c, 1) + 32 * Bit(c, 2) + 64 * Bit(c, 3) + 128 * Bit(c, 4)
  BY EachBit, SumOfBits DEF rot_left_3, Shl, Shr, UChar, Weight
<1>2. rot_right_4(c) =
        Bit(c, 4) + 2 * Bit(c, 5) + 4 * Bit(c, 6) + 8 * Bit(c, 7)
          + 16 * Bit(c, 0) + 32 * Bit(c, 1) + 64 * Bit(c, 2) + 128 * Bit(c, 3)
  BY EachBit, SumOfBits DEF rot_right_4, Shl, Shr, UChar, Weight
<1> QED
  BY <1>1, <1>2, EachBit DEF FromBits

LEMMA Complements ==
  ASSUME NEW c \in Byte
  PROVE  /\ not_byte(c) = FromBits([i \in 0..7 |-> 1 - Bit(c, i)])
         /\ xor_0x55(c) =
              FromBits([i \in 0..7 |-> IF i % 2 = 0 THEN 1 - Bit(c, i)
                                       ELSE Bit(c, i)])
         /\ mul_2(c) =
              FromBits([i \in 0..7 |-> IF i = 0 THEN 0 ELSE Bit(c, i - 1)])
<1>1. not_byte(c) = 255 - c /\ c \in 0..255
  BY DEF not_byte, UChar, Byte
<1>2. not_byte(c) = FromBits([i \in 0..7 |-> 1 - Bit(c, i)])
  BY <1>1, EachBit, SumOfBits DEF FromBits
<1>3. \A i \in 0..7 : Bit(85, i) = 1 <=> i % 2 = 0
  <2>1. \A i \in 0..7 : i % 2 = 0 <=> i \in {0, 2, 4, 6}
    OBVIOUS
  <2>2. \A i \in 0..7 : Bit(85, i) = 1 <=> i \in {0, 2, 4, 6}
    BY BitIs
  <2> QED
    BY <2>1, <2>2
<1>4. xor_0x55(c) = FromBits([i \in 0..7 |-> IF i % 2 = 0 THEN 1 - Bit(c, i)
                                             ELSE Bit(c, i)])
  BY <1>3 DEF xor_0x55, Xor
<1>5. mul_2(c) = 2 * Bit(c, 0) + 4 * Bit(c, 1) + 8 * Bit(c, 2) + 16 * Bit(c, 3)
                   + 32 * Bit(c, 4) + 64 * Bit(c, 5) + 128 * Bit(c, 6)
  BY EachBit, SumOfBits DEF mul_2, UChar
<1>6. mul_2(c) = FromBits([i \in 0..7 |-> IF i = 0 THEN 0 ELSE Bit(c, i - 1)])
  BY <1>5, EachBit DEF FromBits
<1> QED
  BY <1>2, <1>4, <1>6

\* Every mode is what print_help says, on every bit of every byte.
LEMMA ModesAsNamed ==
  ASSUME NEW m \in Mode, NEW c \in Byte
  PROVE  /\ get_transform(m, c) \in Byte
         /\ \A i \in 0..7 : Bit(get_transform(m, c), i) = Named(m, c, i)
<1> DEFINE b == [i \in 0..7 |-> Named(m, c, i)]
<1>1. CASE m = 7
  <2>1. get_transform(m, c) = (c + 15) % 256
    BY <1>1 DEF get_transform, add_0x0f, UChar
  <2>2. (c + 15) % 256 \in Byte
    BY DEF Byte
  <2> QED
    BY <1>1, <2>1, <2>2 DEF Named
<1>2. CASE m # 7
  <2>1. m \in {1, 2, 3, 4, 5, 6, 8}
    BY <1>2 DEF Mode
  <2>2. get_transform(m, c) = FromBits(b)
    <3>1. CASE m = 1
      <4>1. get_transform(m, c) = Exchange(c, 240, 15, 4)
        BY <3>1 DEF get_transform, swap_nibbles
      <4>2. b = [i \in 0..7 |-> Bit(c, (i + 4) % 8)]
        BY <3>1 DEF Named
      <4> QED
        BY <4>1, <4>2, Exchanges
    <3>2. CASE m = 2
      <4>1. get_transform(m, c) = bit_reverse(c)
        BY <3>2 DEF get_transform
      <4>2. b = [i \in 0..7 |-> Bit(c, 7 - i)]
        BY <3>2 DEF Named
      <4> QED
        BY <4>1, <4>2, Reverses
    <3>3. CASE m = 3
      <4>1. get_transform(m, c) = rot_left_3(c)
        BY <3>3 DEF get_transform
      <4>2. b = [i \in 0..7 |-> Bit(c, (i + 5) % 8)]
        BY <3>3 DEF Named
      <4> QED
        BY <4>1, <4>2, Rotations
    <3>4. CASE m = 4
      <4>1. get_transform(m, c) = rot_right_4(c)
        BY <3>4 DEF get_transform
      <4>2. b = [i \in 0..7 |-> Bit(c, (i + 4) % 8)]
        BY <3>4 DEF Named
      <4> QED
        BY <4>1, <4>2, Rotations
    <3>5. CASE m = 5
      <4>1. get_transform(m, c) = xor_0x55(c)
        BY <3>5 DEF get_transform
      <4>2. b = [i \in 0..7 |-> IF i % 2 = 0 THEN 1 - Bit(c, i)
                                             ELSE Bit(c, i)]
        BY <3>5 DEF Named
      <4> QED
        BY <4>1, <4>2, Complements
    <3>6. CASE m = 6
      <4>1. get_transform(m, c) = not_byte(c)
        BY <3>6 DEF get_transform
      <4>2. b = [i \in 0..7 |-> 1 - Bit(c, i)]
        BY <3>6 DEF Named
      <4> QED
        BY <4>1, <4>2, Complements
    <3>7. CASE m = 8
      <4>1. get_transform(m, c) = mul_2(c)
        BY <3>7 DEF get_transform
      <4>2. b = [i \in 0..7 |-> IF i = 0 THEN 0 ELSE Bit(c, i - 1)]
        BY <3>7 DEF Named
      <4> QED
        BY <4>1, <4>2, Complements
    <3> QED
      BY <2>1, <3>1, <3>2, <3>3, <3>4, <3>5, <3>6, <3>7
  <2>3. b \in [0..7 -> 0..1]
    <3> SUFFICES ASSUME NEW i \in 0..7 PROVE Named(m, c, i) \in 0..1
      OBVIOUS
    <3>1. /\ (i + 4) % 8 \in 0..7 /\ (i + 5) % 8 \in 0..7 /\ 7 - i \in 0..7
          /\ i # 0 => i - 1 \in 0..7
      OBVIOUS
    <3> QED
      BY <2>1, <3>1, SumOfBits DEF Named
  <2> HIDE DEF b
  <2>4. FromBits(b) \in Byte /\ \A i \in 0..7 : Bit(FromBits(b), i) = b[i]
    BY <2>3, BitsOfSum
  <2> QED
    BY <2>2, <2>4 DEF b
<1> QED
  BY <1>1, <1>2

\* Applied twice, a mode of OwnInverse gives the byte back.
LEMMA OwnInverseTwice ==
  ASSUME NEW m \in OwnInverse, NEW c \in Byte
  PROVE  get_transform(m, get_transform(m, c)) = c
<1> DEFINE d == get_transform(m, c)
           e == get_transform(m, d)
<1>1. m \in Mode
  BY DEF OwnInverse, Mode
<1>2. d \in Byte /\ \A i \in 0..7 : Bit(d, i) = Named(m, c, i)
  BY <1>1, ModesAsNamed
<1> HIDE DEF d
<1>3. e \in Byte /\ \A i \in 0..7 : Bit(e, i) = Named(m, d, i)
  BY <1>1, <1>2, ModesAsNamed
<1> HIDE DEF e
<1>4. ASSUME NEW i \in 0..7 PROVE Named(m, d, i) = Bit(c, i)
  <2>1. /\ (i + 4) % 8 \in 0..7 /\ (((i + 4) % 8) + 4) % 8 = i
        /\ 7 - i \in 0..7 /\ 7 - (7 - i) = i
    OBVIOUS
  <2>2. Bit(c, i) \in 0..1
    BY SumOfBits
  <2>3. CASE m \in {1, 4}
    BY <1>2, <2>1, <2>3 DEF Named
  <2>4. CASE m = 2
    BY <1>2, <2>1, <2>4 DEF Named
  <2>5. CASE m \in {5, 6}
    BY <1>2, <2>2, <2>5 DEF Named
  <2> QED
    BY <2>3, <2>4, <2>5 DEF OwnInverse
<1>5. e = c
  BY <1>2, <1>3, <1>4, SameBits
<1> QED
  BY <1>5 DEF d, e

-----------------------------------------------------------------------------
(* The loop.                                                               *)

\* A function on the indices of a sequence, with bytes as values, is a
\* sequence of bytes of that length.
LEMMA BytesAreSeq ==
  ASSUME NEW s \in Seq(Byte), NEW t \in [DOMAIN s -> Byte]
  PROVE  t \in Seq(Byte) /\ Len(t) = Len(s) /\ DOMAIN t = 1..Len(s)
<1>1. /\ DOMAIN s = 1..Len(s)
      /\ Len(s) \in Nat
  BY LenProperties
<1>2. t \in [1..Len(s) -> Byte]
  BY <1>1
<1>3. t \in Seq(Byte)
  BY <1>1, <1>2, SeqDef
<1>4. DOMAIN t = 1..Len(s) /\ DOMAIN t = 1..Len(t) /\ Len(t) \in Nat
  BY <1>2, <1>3, LenProperties
<1>5. Len(t) = Len(s)
  BY <1>1, <1>4
<1> QED
  BY <1>3, <1>4, <1>5

\* The images of the first n bytes and the rest are bytes.
LEMMA PartOfType ==
  ASSUME TypeOK, NEW n \in Nat
  PROVE  /\ PartOf(n) \in Seq(Byte)
         /\ Len(PartOf(n)) = Len(before)
         /\ DOMAIN PartOf(n) = 1..Len(before)
<1>1. before \in Seq(Byte) /\ mode \in Mode
  BY DEF TypeOK
<1>2. \A i \in DOMAIN before : before[i] \in Byte
  BY <1>1, LenProperties, ElementOfSeq
<1>3. PartOf(n) \in [DOMAIN before -> Byte]
  BY <1>1, <1>2, ModesAsNamed DEF PartOf
<1> QED
  BY <1>1, <1>3, BytesAreSeq

\* Writing k bytes of the block carries the transformed part k bytes on.
LEMMA OverwrittenIsPart ==
  ASSUME TypeOK, Progress, pc = "write", NEW k \in 0..Len(buffer)
  PROVE  Overwritten(k) = PartOf(pos + k)
<1>1. /\ file = PartOf(pos) /\ pos \in Nat /\ Len(buffer) \in Nat
      /\ pos + Len(buffer) <= Len(file)
      /\ DOMAIN buffer = 1..Len(buffer)
      /\ \A i \in DOMAIN buffer : buffer[i] = get_transform(mode, before[pos + i])
  BY LenProperties DEF TypeOK, Progress
<1>2. DOMAIN file = DOMAIN before /\ DOMAIN before = 1..Len(before)
  BY <1>1, PartOfType, LenProperties DEF TypeOK
<1>3. Len(before) \in Nat /\ Len(file) = Len(before)
  BY LenProperties DEF TypeOK
<1>4. LengthAfter(k) = Len(before)
  BY <1>1, <1>3 DEF LengthAfter
<1>5. ASSUME NEW i \in DOMAIN before
      PROVE  Overwritten(k)[i] = PartOf(pos + k)[i]
  <2>1. i \in Nat
    BY <1>2, <1>3
  <2>2. CASE i \in pos + 1..pos + k
    <3>1. i - pos \in DOMAIN buffer /\ pos + (i - pos) = i
      BY <1>1, <2>1, <2>2
    <3>2. buffer[i - pos] = get_transform(mode, before[i])
      BY <1>1, <3>1
    <3>3. Overwritten(k)[i] = buffer[i - pos]
      BY <1>2, <1>4, <2>2 DEF Overwritten
    <3>4. i <= pos + k
      BY <1>1, <2>2
    <3>5. PartOf(pos + k)[i] = get_transform(mode, before[i])
      BY <3>4 DEF PartOf
    <3> QED
      BY <3>2, <3>3, <3>5
  <2>3. CASE i \notin pos + 1..pos + k
    <3>1. Overwritten(k)[i] = file[i]
      BY <1>2, <1>4, <2>3 DEF Overwritten
    <3>2. i <= pos <=> i <= pos + k
      BY <1>1, <2>1, <2>3
    <3>3. PartOf(pos)[i] = PartOf(pos + k)[i]
      BY <3>2 DEF PartOf
    <3> QED
      BY <1>1, <3>1, <3>3
  <2> QED
    BY <2>2, <2>3
<1>6. Overwritten(k) = [i \in DOMAIN before |-> Overwritten(k)[i]]
  BY <1>2, <1>4 DEF Overwritten
<1>7. PartOf(pos + k) = [i \in DOMAIN before |-> PartOf(pos + k)[i]]
  BY DEF PartOf
<1> QED
  BY <1>5, <1>6, <1>7

\* The buffer that fread and the loop leave: the images of the next n bytes.
LEMMA TransformedBlock ==
  ASSUME TypeOK, Progress, pc = "read", NEW n \in 1..BUFFER_SIZE,
         pos + n <= Len(file)
  PROVE  LET b == Transformed(SubSeq(file, pos + 1, pos + n))
         IN /\ b \in Seq(Byte)
            /\ Len(b) = n
            /\ DOMAIN b = 1..n
            /\ \A i \in 1..n : b[i] = get_transform(mode, before[pos + i])
<1> DEFINE s == SubSeq(file, pos + 1, pos + n)
           b == Transformed(s)
<1>1. /\ file \in Seq(Byte) /\ pos \in Nat /\ mode \in Mode
      /\ Len(file) \in Nat /\ n \in Nat /\ n > 0
      /\ Len(before) = Len(file)
      /\ before \in Seq(Byte)
  BY HexAssumption, LenProperties DEF TypeOK
<1>2. /\ s \in Seq(Byte)
      /\ Len(s) = n
      /\ \A i \in 1..n : s[i] = file[pos + i]
  <2>1. pos + 1 \in Int /\ pos + n \in Int
        /\ \A i \in pos + 1..pos + n : file[i] \in Byte
    BY <1>1, ElementOfSeq
  <2>2. /\ s \in Seq(Byte)
        /\ Len(s) = IF pos + 1 <= pos + n THEN (pos + n) - (pos + 1) + 1 ELSE 0
        /\ \A i \in 1..(pos + n) - (pos + 1) + 1 : s[i] = file[pos + 1 + i - 1]
    BY <1>1, <2>1, SubSeqProperties
  <2>3. pos + 1 <= pos + n /\ (pos + n) - (pos + 1) + 1 = n /\ \A i \in 1..n : pos + 1 + i - 1 = pos + i
    BY <1>1
  <2> QED
    BY <2>2, <2>3
<1>3. DOMAIN s = 1..n /\ \A i \in 1..n : s[i] \in Byte
  BY <1>2, LenProperties, ElementOfSeq
<1>4. b \in [DOMAIN s -> Byte]
  BY <1>1, <1>3, ModesAsNamed DEF Transformed
<1>5. b \in Seq(Byte) /\ Len(b) = n /\ DOMAIN b = 1..n
  BY <1>2, <1>4, BytesAreSeq
<1>6. ASSUME NEW i \in 1..n
      PROVE  b[i] = get_transform(mode, before[pos + i])
  <2>1. b[i] = get_transform(mode, file[pos + i])
    BY <1>2, <1>3 DEF Transformed
  <2>2. pos + i \in DOMAIN before /\ ~(pos + i <= pos)
    BY <1>1, LenProperties
  <2>3. file[pos + i] = before[pos + i]
    BY <2>2 DEF Progress, PartOf
  <2> QED
    BY <2>1, <2>3
<1> HIDE DEF s, b
<1>7. /\ b \in Seq(Byte)
      /\ Len(b) = n
      /\ DOMAIN b = 1..n
      /\ \A i \in 1..n : b[i] = get_transform(mode, before[pos + i])
  BY <1>5, <1>6
<1> QED
  BY <1>7 DEF b, s

-----------------------------------------------------------------------------
\* A command line that is accepted names a mode.
LEMMA ModeOfType ==
  ASSUME NEW line \in CommandLines, Accepted(line)
  PROVE  ModeOf(line) \in Mode
<1>1. line.options \in Seq(Option)
  BY HexAssumption DEF CommandLine
<1>2. CASE line.options = <<>>
  BY <1>2 DEF ModeOf, MODE_SWAP_NIBBLES, Mode
<1>3. CASE line.options # <<>>
  <2>1. Len(line.options) \in DOMAIN line.options
    BY <1>1, <1>3
  <2>2. QED
    BY <1>3, <2>1 DEF ModeOf, Accepted
<1>4. QED
  BY <1>2, <1>3

LEMMA InitIInv == Init => IInv
<1> SUFFICES ASSUME Init PROVE IInv
  OBVIOUS
<1>1. file \in Seq(Byte) /\ Len(file) \in Nat
  BY HexAssumption, LenProperties DEF Init
<1>2. <<>> \in Seq(Byte)
  BY EmptySeq
<1>3. TypeOK
  <2>1. mode \in Mode /\ pc \in {"read", "refused"}
    BY ModeOfType DEF Init, MODE_SWAP_NIBBLES, Mode
  <2>2. QED
    BY <1>1, <1>2, <2>1 DEF Init, TypeOK, Ended
<1>4. file = PartOf(pos)
  <2>1. \A i \in DOMAIN before : ~(i <= pos)
    BY <1>1, LenProperties DEF Init
  <2>2. PartOf(pos) = [i \in DOMAIN before |-> before[i]]
    BY <2>1 DEF PartOf
  <2>3. before = [i \in DOMAIN before |-> before[i]]
    BY <1>3, LenProperties DEF TypeOK
  <2> QED
    BY <2>2, <2>3 DEF Init
<1>5. Progress
  BY <1>1, <1>4 DEF Init, Progress
<1>6. PrefixTransformed
  BY <1>3, <1>4, HexAssumption DEF PrefixTransformed, TypeOK
<1>7. History
  BY DEF Init, History
<1> QED
  BY <1>3, <1>5, <1>6, <1>7 DEF IInv

LEMMA ReadBlockIInv == IInv /\ ReadBlock => IInv'
<1> SUFFICES ASSUME IInv, ReadBlock PROVE IInv'
  OBVIOUS
<1>1. PICK n \in 1..BUFFER_SIZE :
        /\ pos + n <= Len(file)
        /\ buffer' = Transformed(SubSeq(file, pos + 1, pos + n))
  BY DEF ReadBlock
<1>2. /\ buffer' \in Seq(Byte)
      /\ Len(buffer') = n
      /\ DOMAIN buffer' = 1..n
      /\ \A i \in 1..n : buffer'[i] = get_transform(mode, before[pos + i])
  BY <1>1, TransformedBlock DEF IInv, ReadBlock
<1>3. UNCHANGED <<file, pos, finished, mode, before, original, runs>> /\ pc' = "write"
  BY DEF ReadBlock, runVars
<1>4. TypeOK'
  BY <1>1, <1>2, <1>3 DEF IInv, TypeOK
<1>5. PartOf(pos)' = PartOf(pos) /\ file = PartOf(pos)
  BY <1>3 DEF PartOf, IInv, Progress, ReadBlock
<1>6. Progress'
  BY <1>1, <1>2, <1>3, <1>5 DEF IInv, Progress
<1>7. PrefixTransformed'
  BY <1>3 DEF IInv, PrefixTransformed, PartOf
<1>8. History'
  BY <1>3 DEF IInv, TypeOK, History, Transformed, ReadBlock
<1> QED
  BY <1>4, <1>6, <1>7, <1>8 DEF IInv

LEMMA FinishIInv == IInv /\ Finish => IInv'
<1> SUFFICES ASSUME IInv, Finish PROVE IInv'
  OBVIOUS
<1>1. /\ UNCHANGED <<file, pos, buffer, mode, before, original, runs>>
      /\ pc' = "success" /\ finished' = finished + 1
  BY DEF Finish, runVars
<1>2. TypeOK'
  BY <1>1 DEF IInv, TypeOK, Ended
<1>3. pos = Len(before)
  BY LenProperties DEF IInv, TypeOK, Progress, Finish, EndOfFile
<1>4. file = PartOf(Len(before))
  BY <1>3 DEF IInv, Progress, Finish
<1>5. Progress'
  BY <1>1, <1>4 DEF IInv, Progress, PartOf
<1>6. PrefixTransformed'
  BY <1>1 DEF IInv, PrefixTransformed, PartOf
<1>7. History'
  BY <1>1 DEF IInv, TypeOK, History, Transformed, Finish
<1> QED
  BY <1>2, <1>5, <1>6, <1>7 DEF IInv

LEMMA WriteBlockIInv == IInv /\ WriteBlock => IInv'
<1> SUFFICES ASSUME IInv, WriteBlock PROVE IInv'
  OBVIOUS
<1>1. /\ UNCHANGED <<pos, buffer, finished, mode, before, original, runs>>
      /\ pc = "write" /\ pc' = "seek" /\ file' = Overwritten(Len(buffer))
  BY DEF WriteBlock, runVars
<1>2. /\ Len(buffer) \in 1..BUFFER_SIZE /\ pos + Len(buffer) <= Len(file)
      /\ pos \in Nat /\ BUFFER_SIZE \in Nat /\ Len(before) = Len(file)
  BY <1>1, HexAssumption DEF IInv, Progress, TypeOK
<1>3. file' = PartOf(pos + Len(buffer))
  BY <1>1, <1>2, OverwrittenIsPart DEF IInv
<1>4. file' \in Seq(Byte) /\ Len(file') = Len(before)
  BY <1>2, <1>3, PartOfType DEF IInv
<1>5. TypeOK'
  BY <1>1, <1>4 DEF IInv, TypeOK
<1>6. file' = PartOf(pos + Len(buffer))'
  BY <1>1, <1>3 DEF PartOf
<1>7. Progress'
  BY <1>1, <1>2, <1>4, <1>6 DEF Progress
<1>8. PrefixTransformed'
  <2>1. pos + Len(buffer) \in pos..pos + BUFFER_SIZE
    BY <1>2
  <2> QED
    BY <1>1, <1>3, <2>1 DEF PrefixTransformed, PartOf
<1>9. History'
  BY <1>1 DEF IInv, TypeOK, History, Transformed
<1> QED
  BY <1>5, <1>7, <1>8, <1>9 DEF IInv

LEMMA WriteStopsIInv == IInv /\ WriteStops => IInv'
<1> SUFFICES ASSUME IInv, WriteStops PROVE IInv'
  OBVIOUS
<1>1. PICK k \in 0..Len(buffer) - 1 : file' = Overwritten(k)
  BY DEF WriteStops
<1>2. /\ UNCHANGED <<pos, buffer, finished, mode, before, original, runs>>
      /\ pc = "write" /\ pc' \in {"failure", "killed"}
  BY DEF WriteStops, runVars
<1>3. /\ Len(buffer) \in 1..BUFFER_SIZE /\ pos + Len(buffer) <= Len(file)
      /\ pos \in Nat /\ BUFFER_SIZE \in Nat /\ Len(before) = Len(file)
  BY <1>2, HexAssumption DEF IInv, Progress, TypeOK
<1>4. k \in 0..Len(buffer) /\ pos + k \in Nat /\ pos + k \in pos..pos + BUFFER_SIZE
  BY <1>3
<1>5. file' = PartOf(pos + k)
  BY <1>1, <1>2, <1>4, OverwrittenIsPart DEF IInv
<1>6. file' \in Seq(Byte) /\ Len(file') = Len(before)
  BY <1>4, <1>5, PartOfType DEF IInv
<1>7. TypeOK'
  BY <1>2, <1>6 DEF IInv, TypeOK, Ended
<1>8. Progress'
  BY <1>2, <1>3, <1>6 DEF IInv, Progress
<1>9. PrefixTransformed'
  BY <1>2, <1>4, <1>5 DEF PrefixTransformed, PartOf
<1>10. History'
  BY <1>2 DEF IInv, TypeOK, History, Transformed
<1> QED
  BY <1>7, <1>8, <1>9, <1>10 DEF IInv

LEMMA SeekOnIInv == IInv /\ SeekOn => IInv'
<1> SUFFICES ASSUME IInv, SeekOn PROVE IInv'
  OBVIOUS
<1>1. /\ UNCHANGED <<file, buffer, finished, mode, before, original, runs>>
      /\ pc = "seek" /\ pc' = "read" /\ pos' = pos + Len(buffer)
  BY DEF SeekOn, NextPos, runVars
<1>2. /\ file = PartOf(pos') /\ pos' \in Nat /\ pos' <= Len(file)
      /\ BUFFER_SIZE \in Nat
  BY <1>1, LenProperties, HexAssumption DEF IInv, Progress, TypeOK
<1>3. TypeOK'
  BY <1>1, <1>2 DEF IInv, TypeOK
<1>4. file' = PartOf(pos)'
  BY <1>1, <1>2 DEF PartOf
<1>5. Progress'
  BY <1>1, <1>2, <1>4 DEF Progress
<1>6. PrefixTransformed'
  <2>1. ASSUME NEW p \in Nat PROVE p \in p..p + BUFFER_SIZE
    BY HexAssumption
  <2>2. pos' \in pos'..pos' + BUFFER_SIZE
    BY <1>2, <2>1
  <2> QED
    BY <1>1, <1>2, <2>2 DEF PrefixTransformed, PartOf
<1>7. History'
  BY <1>1 DEF IInv, TypeOK, History, Transformed
<1> QED
  BY <1>3, <1>5, <1>6, <1>7 DEF IInv

LEMMA StopIInv == IInv /\ Stop => IInv'
<1> SUFFICES ASSUME IInv, Stop PROVE IInv'
  OBVIOUS
<1>1. /\ UNCHANGED <<file, pos, buffer, finished, mode, before, original, runs>>
      /\ pc' \in {"failure", "killed"}
  BY DEF Stop, runVars
<1>2. TypeOK'
  BY <1>1 DEF IInv, TypeOK, Ended
<1>3. Progress'
  BY <1>1 DEF IInv, Progress
<1>4. PrefixTransformed'
  BY <1>1 DEF IInv, PrefixTransformed, PartOf
<1>5. History'
  BY <1>1 DEF IInv, TypeOK, History, Transformed, Stop
<1> QED
  BY <1>2, <1>3, <1>4, <1>5 DEF IInv

\* A new run begins on whatever the last one left, with nothing transformed.
LEMMA RunAgainIInv == IInv /\ RunAgain => IInv'
<1> SUFFICES ASSUME IInv, RunAgain PROVE IInv'
  OBVIOUS
<1>1. /\ UNCHANGED <<file, mode, original, finished>>
      /\ runs' = runs + 1 /\ before' = file /\ pc' = "read"
      /\ pos' = 0 /\ buffer' = <<>>
  BY DEF RunAgain
<1>2. TypeOK'
  BY <1>1, EmptySeq DEF IInv, TypeOK
<1>3. file' = PartOf(pos)'
  <2>1. \A i \in DOMAIN before' : ~(i <= pos')
    BY <1>1, LenProperties DEF IInv, TypeOK
  <2>2. PartOf(pos)' = [i \in DOMAIN before' |-> before'[i]]
    BY <2>1 DEF PartOf
  <2>3. before' = [i \in DOMAIN before' |-> before'[i]]
    BY <1>2, LenProperties DEF TypeOK
  <2> QED
    BY <1>1, <2>2, <2>3
<1>4. Len(file') \in Nat
  BY <1>2, LenProperties DEF TypeOK
<1>5. Progress'
  BY <1>1, <1>3, <1>4 DEF Progress
<1>6. PrefixTransformed'
  <2>1. 0 \in pos'..pos' + BUFFER_SIZE /\ 0 = pos'
    BY <1>1, HexAssumption
  <2> QED
    BY <1>3, <2>1 DEF PrefixTransformed, PartOf
<1>7. History'
  <2>1. runs \in Nat /\ runs > 0 /\ finished \in Nat /\ finished <= runs
    BY DEF IInv, TypeOK, History
  <2>2. ASSUME runs' = 2, finished' = 1
        PROVE  before' = Transformed(original)
    <3>1. runs = 1 /\ finished = 1
      BY <1>1, <2>1, <2>2
    <3>2. pc = "success" /\ before = original
      BY <3>1 DEF IInv, History
    <3>3. file = PartOf(Len(before)) /\ DOMAIN before = 1..Len(before)
      BY <3>2, LenProperties DEF IInv, TypeOK, Progress
    <3>4. PartOf(Len(before)) = Transformed(before)
      BY <3>3 DEF PartOf, Transformed
    <3> QED
      BY <1>1, <3>2, <3>3, <3>4
  <2>3. Transformed(original)' = Transformed(original)
    BY <1>1 DEF Transformed
  <2> QED
    BY <1>1, <2>1, <2>2, <2>3 DEF History
<1> QED
  BY <1>2, <1>5, <1>6, <1>7 DEF IInv

LEMMA StutterIInv == IInv /\ UNCHANGED vars => IInv'
  BY DEF IInv, TypeOK, Progress, PrefixTransformed, History, PartOf,
         Transformed, vars, runVars

THEOREM IInvHolds == Spec => []IInv
<1>1. IInv /\ [Next]_vars => IInv'
  BY ReadBlockIInv, FinishIInv, WriteBlockIInv, WriteStopsIInv, SeekOnIInv,
     StopIInv, RunAgainIInv, StutterIInv DEF Next, Step, Terminated
<1> QED
  BY <1>1, InitIInv, PTL DEF Spec

\* For every block size and file, the block in hand lies inside of the file and
\* no write, also one that stops on the way, changes the length of the file.
THEOREM TypeCorrect == Spec => []TypeOK
<1>1. IInv => TypeOK
  BY DEF IInv
<1> QED
  BY <1>1, IInvHolds, PTL

\* However a run of the loop in main is stopped, a prefix of the file is
\* transformed and the rest is untouched.
THEOREM PrefixTransformedHolds == Spec => []PrefixTransformed
<1>1. IInv => PrefixTransformed
  BY DEF IInv
<1> QED
  BY <1>1, IInvHolds, PTL

\* EXIT_SUCCESS of main means that each byte was transformed exactly once.
THEOREM SuccessMeansAllHolds == Spec => []SuccessMeansAll
<1>1. IInv => SuccessMeansAll
  BY DEF IInv, Progress, SuccessMeansAll
<1> QED
  BY <1>1, IInvHolds, PTL

\* A run that succeeds leaves the image of every byte it found.
LEMMA SuccessImage ==
  ASSUME IInv, pc = "success"
  PROVE  /\ before \in Seq(Byte) /\ mode \in Mode
         /\ DOMAIN file = DOMAIN before
         /\ \A i \in DOMAIN before : file[i] = get_transform(mode, before[i])
<1>1. before \in Seq(Byte) /\ mode \in Mode /\ file = PartOf(Len(before))
  BY DEF IInv, TypeOK, Progress
<1>2. DOMAIN before = 1..Len(before)
  BY <1>1, LenProperties
<1> QED
  BY <1>1, <1>2 DEF PartOf

\* The first run to succeed did to every bit what print_help says of the
\* mode, through swap_nibbles to mul_2 and the loop of main.
THEOREM AsNamedHolds == Spec => []AsNamed
<1>1. IInv => AsNamed
  <2> SUFFICES ASSUME IInv, pc = "success", runs = 1,
                      NEW i \in DOMAIN original, NEW k \in 0..7
               PROVE  Bit(file[i], k) = Named(mode, original[i], k)
    BY DEF AsNamed
  <2>1. before = original
    BY DEF IInv, History
  <2>2. original[i] \in Byte
    BY ElementOfSeq, LenProperties DEF IInv, TypeOK
  <2>3. file[i] = get_transform(mode, original[i]) /\ mode \in Mode
    BY <2>1, SuccessImage
  <2> QED
    BY <2>2, <2>3, ModesAsNamed
<1> QED
  BY <1>1, IInvHolds, PTL

\* Two runs of main that succeed in a mode that is its own inverse leave the
\* file as it was.
THEOREM UndoneByRerunHolds == Spec => []UndoneByRerun
<1>1. IInv => UndoneByRerun
  <2> SUFFICES ASSUME IInv, mode \in OwnInverse, runs = 2, finished = 2
               PROVE  file = original
    BY DEF UndoneByRerun
  <2>1. pc = "success" /\ before = Transformed(original)
    BY DEF IInv, History
  <2>2. DOMAIN before = DOMAIN original
    BY <2>1 DEF Transformed
  <2>3. ASSUME NEW i \in DOMAIN original PROVE file[i] = original[i]
    <3>1. original[i] \in Byte
      BY ElementOfSeq, LenProperties DEF IInv, TypeOK
    <3>2. before[i] = get_transform(mode, original[i])
      BY <2>1 DEF Transformed
    <3>3. file[i] = get_transform(mode, before[i])
      BY <2>1, <2>2, SuccessImage
    <3> QED
      BY <3>1, <3>2, <3>3, OwnInverseTwice
  <2>4. file \in Seq(Byte) /\ original \in Seq(Byte) /\ Len(file) = Len(original)
    BY DEF IInv, TypeOK
  <2> QED
    BY <2>3, <2>4, SeqEqual, LenProperties
<1> QED
  BY <1>1, IInvHolds, PTL

=============================================================================
