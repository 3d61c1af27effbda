------------------------------ MODULE LwValue -------------------------------
(***************************************************************************)
(* The arithmetic of AT+LWV..., handle_at_lwm2m_value in at_lwm2m.c: what  *)
(* a write stores for the numbers of the command, and what a read prints.  *)
(* A parameter is a word, a function u of 0..4 (absent ones are 0).  The   *)
(* widths are multiples of Unit, as 8, 16, 32 and 64 are of 8.             *)
(***************************************************************************)
EXTENDS Integers

CONSTANT Unit      \* bits of an int8_t
ASSUME LwValueAssumption == Unit \in Nat \ {0}

(* What the proofs use of powers; TLC evaluates it.                        *)
ASSUME PowersOfTwo ==
  \A m, n \in 0 .. 4 * Unit : 2^m \in Nat \ {0} /\ 2^(m + n) = 2^m * 2^n

Width == [s8 |-> Unit, s16 |-> 2 * Unit, s32 |-> 4 * Unit, s64 |-> 8 * Unit,
          u8 |-> Unit, u16 |-> 2 * Unit, u32 |-> 4 * Unit, u64 |-> 8 * Unit]
Word   == 4 * Unit
Narrow == {"s8", "s16", "s32"}
Plain  == {"u8", "u16", "u32"}
Types  == DOMAIN Width \cup {"bool", "f32", "f64"}

(* Conversion to a signed type of that many bits. *)
AsSigned(v, bits) ==
  LET m == v % 2^bits IN IF m < 2^(bits - 1) THEN m ELSE m - 2^bits
Join2(hi, lo) == hi * 2^Word + lo
Abs(v) == IF v < 0 THEN -v ELSE v
(* abs takes and returns an int, also where it is given an int64_t. *)
IntAbs(v) == AsSigned(Abs(AsSigned(v, Word)), Word)

NegatedIf(flag, v) == IF flag # 0 THEN -v ELSE v

(* The write half: what lwm2m_engine_set_... is given.  Overflow wraps.   *)
(* A float is its integer part, which carries the sign, and its fraction. *)
Stored(type, u) ==
  CASE type = "bool"   -> u[0] # 0
    [] type \in Narrow -> LET n == Width[type] IN AsSigned(NegatedIf(u[1], AsSigned(u[0], n)), n)
    [] type = "s64"    -> AsSigned(NegatedIf(u[2], Join2(u[0], u[1])), 2 * Word)
    [] type \in Plain  -> u[0] % 2^Width[type]
    [] type = "u64"    -> Join2(u[0], u[1])
    [] type = "f32"    -> <<AsSigned(NegatedIf(u[2], AsSigned(u[0], Word)), Word), AsSigned(u[1], Word)>>
    [] type = "f64"    -> <<AsSigned(NegatedIf(u[4], Join2(u[0], u[1])), 2 * Word),
                            AsSigned(Join2(u[2], u[3]), 2 * Word)>>

(* Mutant: the flag is swapped. *)
NegativeSwapped(v) == IF v[1] > 0 THEN 1 ELSE 0

(* The read half: the numbers of the answer.  The flag of a float says    *)
(* negative for every integer part that is not positive.                  *)
Negative(v) == IF v[1] > 0 THEN 0 ELSE 1
Words(v)    == <<(v \div 2^Word) % 2^Word, v % 2^Word>>
Printed(type, v) ==
  CASE type = "bool" -> <<IF v THEN 1 ELSE 0>>
    [] type = "f32"  -> <<IntAbs(v[1]), v[2], Negative(v)>>
    [] type = "f64"  -> LET one == Words(IntAbs(v[1])) two == Words(v[2])
                        IN <<one[1], one[2], two[1], two[2], Negative(v)>>
    [] OTHER         -> <<v>>

-----------------------------------------------------------------------------
(* Reference: the numbers of the command read as magnitude and sign. *)
Flag(n) == IF n # 0 THEN 1 ELSE 0
Asked(type, u) ==
  CASE type = "bool"   -> <<Flag(u[0])>>
    [] type \in Narrow -> <<NegatedIf(u[1], u[0])>>
    [] type = "s64"    -> <<NegatedIf(u[2], Join2(u[0], u[1]))>>
    [] type \in Plain  -> <<u[0]>>
    [] type = "u64"    -> <<Join2(u[0], u[1])>>
    [] type = "f32"    -> <<u[0], u[1], Flag(u[2])>>
    [] type = "f64"    -> <<u[0], u[1], u[2], u[3], Flag(u[4])>>

(* The numbers the type can hold.  For the floats also what the code asks  *)
(* of them: an integer part that is not zero, whose sign would be lost,    *)
(* and that fits an int, to which abs cuts that of a 64-bit one.           *)
Holds(type, u) ==
  CASE type = "bool" -> TRUE
    [] type \in Narrow \cup {"s64"} ->
         Asked(type, u)[1] \in (-2^(Width[type] - 1)) .. (2^(Width[type] - 1) - 1)
    [] type \in Plain \cup {"u64"} -> Asked(type, u)[1] < 2^Width[type]
    [] type = "f32" -> u[0] \in 1 .. (2^(Word - 1) - 1) /\ u[1] < 2^(Word - 1)
    [] type = "f64" -> u[0] = 0 /\ u[1] \in 1 .. (2^(Word - 1) - 1)
=============================================================================
