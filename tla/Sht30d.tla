------------------------------- MODULE Sht30d -------------------------------
(***************************************************************************)
(* The data of lib/sht30d/sht30d.c: the checksum that protects each word   *)
(* of an answer, and what a sample means.  Words and bytes are sets of bit *)
(* positions, so that exclusive or is symmetric difference.                *)
(***************************************************************************)
EXTENDS Integers, FiniteSetsExt

(* What the provers' library does not say of powers. *)
ASSUME PowersOfTwo == 2^0 = 1 /\ \A b \in 0 .. 14 : 2^b \in Nat /\ 2^(b + 1) = 2 * 2^b

Bits(v, n) == {b \in 0 .. (n - 1) : (v \div 2^b) % 2 = 1}
Xor(a, b)  == (a \ b) \cup (b \ a)
ShiftLeft(byte) == {b + 1 : b \in byte \ {7}}

Polynom == Bits(49, 8)       \* 0x31
AllOnes == 0 .. 7

(* Mutant: the polynomial is added whatever is shifted out. *)
CrcStepAlways(crc) == Xor(ShiftLeft(crc), Polynom)

(* One round of the inner loop of sht3xd_compute_crc. *)
CrcStep(crc) == IF 7 \in crc THEN Xor(ShiftLeft(crc), Polynom) ELSE ShiftLeft(crc)

EightRounds(crc) ==
  LET round[i \in 0 .. 8] == IF i = 0 THEN crc ELSE CrcStep(round[i - 1])
  IN round[8]

HighByte(word) == {b \in AllOnes : b + 8 \in word}
LowByte(word)  == word \cap AllOnes

Crc(word) ==
  LET first == EightRounds(Xor(AllOnes, HighByte(word)))
  IN EightRounds(Xor(first, LowByte(word)))

(* What the sensor sends for a sample: the word and its checksum. *)
Protected(sample) == LET word == Bits(sample, 16) IN [word |-> word, crc |-> Crc(word)]

(* The same with some of its 24 bits flipped on the bus. *)
Damaged(p, flips) ==
  [word |-> Xor(p.word, {b \in flips : b < 16}),
   crc  |-> Xor(p.crc, {b - 16 : b \in {f \in flips : f >= 16}})]

Accepted(p) == Crc(p.word) = p.crc

(* The bytes put together again. *)
ByteValue(byte) ==
  LET bit(b) == IF b \in byte THEN 2^b ELSE 0
  IN bit(0) + bit(1) + bit(2) + bit(3) + bit(4) + bit(5) + bit(6) + bit(7)
SampleOf(word) == 256 * ByteValue(HighByte(word)) + ByteValue(LowByte(word))

(* The samples the driver may take from an answer to which one of flips    *)
(* happens.                                                                *)
Misread(sample, flips) ==
  LET answers == {Damaged(Protected(sample), f) : f \in flips}
  IN {SampleOf(p.word) : p \in {q \in answers : Accepted(q)}}

FullScale == 65535         \* 2^16 - 1

(* app_sht30d_fetch, exact and in units of 1/FullScale degree or percent:  *)
(* the rounding of the code's floats is far below the tenth that matters.  *)
Temperature(sample) == 175 * sample - 45 * FullScale
Humidity(sample)    == 100 * sample
=============================================================================
