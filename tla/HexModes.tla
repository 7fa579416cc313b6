------------------------------ MODULE HexModes ------------------------------
(***************************************************************************)
(* The eight byte functions of hextool.c, with C's operators on unsigned   *)
(* char: the result of an expression is an int, cut to 8 bits when it is   *)
(* returned or assigned.                                                   *)
(***************************************************************************)
EXTENDS Integers

Byte == 0..255
Mode == 1..8

\* The bits of a byte, bit 0 being the lowest.
Weight(i) ==
  CASE i = 0 -> 1 [] i = 1 -> 2 [] i = 2 -> 4 [] i = 3 -> 8
    [] i = 4 -> 16 [] i = 5 -> 32 [] i = 6 -> 64 [] i = 7 -> 128
Bit(c, i) == (c \div Weight(i)) % 2
FromBits(b) == b[0] + 2 * b[1] + 4 * b[2] + 8 * b[3]
                 + 16 * b[4] + 32 * b[5] + 64 * b[6] + 128 * b[7]

\* C's &, ^, <<, >> and the conversion to unsigned char.
And(c, d) == FromBits([i \in 0..7 |-> IF Bit(d, i) = 1 THEN Bit(c, i) ELSE 0])
Xor(c, d) ==
  FromBits([i \in 0..7 |-> IF Bit(d, i) = 1 THEN 1 - Bit(c, i) ELSE Bit(c, i)])
Shl(c, k) == c * Weight(k)
Shr(c, k) == c \div Weight(k)
UChar(n) == n % 256

\* Groups of k bits change places with their neighbours.  The parts of such
\* sums, here and below, have no bit in common: + is C's | there.
Exchange(c, high, low, k) ==
  UChar(Shr(And(c, high), k) + Shl(And(c, low), k))

swap_nibbles(c) == Exchange(c, 240, 15, 4)

\* Mutant of bit_reverse: the last exchange is missing.
bit_reverse_Pairs(c) == Exchange(Exchange(c, 240, 15, 4), 204, 51, 2)
bit_reverse(c) ==
  Exchange(Exchange(Exchange(c, 240, 15, 4), 204, 51, 2), 170, 85, 1)

rot_left_3(c) == UChar(Shl(c, 3) + Shr(c, 5))

\* Mutant of rot_right_4: the rotation of mode 3, to the right.
rot_right_4_By3(c) == UChar(Shr(c, 3) + Shl(c, 5))
rot_right_4(c) == UChar(Shr(c, 4) + Shl(c, 4))
xor_0x55(c) == Xor(c, 85)

\* ~c of the int that c is promoted to.
not_byte(c) == UChar(-c - 1)
add_0x0f(c) == UChar(c + 15)
mul_2(c) == UChar(c * 2)

get_transform(mode, c) ==
  CASE mode = 1 -> swap_nibbles(c)
    [] mode = 2 -> bit_reverse(c)
    [] mode = 3 -> rot_left_3(c)
    [] mode = 4 -> rot_right_4(c)
    [] mode = 5 -> xor_0x55(c)
    [] mode = 6 -> not_byte(c)
    [] mode = 7 -> add_0x0f(c)
    [] mode = 8 -> mul_2(c)

-----------------------------------------------------------------------------
\* What print_help says of the modes, bit by bit.
Named(mode, c, i) ==
  CASE mode = 1 -> Bit(c, (i + 4) % 8)         \* exchange of the nibbles
    [] mode = 2 -> Bit(c, 7 - i)               \* reversal
    [] mode = 3 -> Bit(c, (i + 5) % 8)         \* rotation to the left by 3
    [] mode = 4 -> Bit(c, (i + 4) % 8)         \* rotation to the right by 4
    [] mode = 5 -> IF i % 2 = 0 THEN 1 - Bit(c, i) ELSE Bit(c, i)
    [] mode = 6 -> 1 - Bit(c, i)
    [] mode = 7 -> Bit((c + 15) % 256, i)
    [] mode = 8 -> IF i = 0 THEN 0 ELSE Bit(c, i - 1)

\* The modes in which a second run undoes the first.
OwnInverse == {1, 2, 4, 5, 6}

=============================================================================
