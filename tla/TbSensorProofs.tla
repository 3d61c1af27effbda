--------------------------- MODULE TbSensorProofs ---------------------------
(***************************************************************************)
(* Safety of the ThingsBoard sensor, for any air and any number of         *)
(* datagrams under way, with errors of up to three bits in a word of an    *)
(* answer and its checksum.  The first part is the arithmetic of the       *)
(* checksum and of the sample; the second is about the node.               *)
(***************************************************************************)
EXTENDS TbSensor, FiniteSetTheorems, SequenceTheorems, TLAPS

Measuring  == stage \in {"wake", "measure"}
Requesting == stage \in {"send", "exit"}

(* The radio and the socket are in use inside a request only, and power is *)
(* on inside a measurement or after one that failed.                       *)
QuietInv ==
  /\ ~Requesting => ~sock /\ ~fast
  /\ power => Measuring \/ fetched = "bad"

(* The values recorded last are near the last sample, and a request carries *)
(* them as they are printed; once they arrived, the server has the same.   *)
NearInv ==
  /\ pre \in Readings \cup {Zero}
  /\ air \in Air /\ latched \in Air \cup {Nothing}
  /\ fetched = "ok" => latched # Nothing
  /\ Measuring => fetched # "ok"
  /\ stage = "measure" => latched # Nothing
  /\ stage \in {"open", "send", "exit"} => fetched = "ok" /\ pre = Reading(sampled)
  /\ Idle /\ fetched = "ok" => Near(pre, Reading(sampled))
  /\ ~missed => server = Payload(pre)

-----------------------------------------------------------------------------
LEMMA QuietStep == QuietInv /\ [Next]_vars => QuietInv'
<1> SUFFICES ASSUME QuietInv, [Next]_vars PROVE QuietInv'
  OBVIOUS
<1> USE DEF QuietInv, Measuring, Requesting
<1>1. CASE Timer                      BY <1>1 DEF Timer, sensor, radio
<1>2. CASE Wake                       BY <1>2 DEF Wake, Idle, radio
<1>3. CASE Command                    BY <1>3 DEF Command, radio
<1>4. CASE NoData                     BY <1>4 DEF NoData, radio
<1>5. CASE ReadAnswerAny
  <2>1. PICK s : ReadAnswer(s)
    BY <1>5 DEF ReadAnswerAny
  <2>2. stage' \in {"idle", "open"}
    BY <2>1 DEF ReadAnswer, Compare
  <2> QED
    BY <2>1, <2>2 DEF ReadAnswer, radio
<1>6. CASE Open                       BY <1>6 DEF Open, sensor
<1>7. CASE Send                       BY <1>7 DEF Send, sensor, radio
<1>8. CASE Exit                       BY <1>8 DEF Exit, sensor
<1>9. CASE \E i \in DOMAIN flight : Deliver(i) \/ Lose(i)
  BY <1>9 DEF Deliver, Lose, sensor, radio
<1>10. CASE \E a \in Air : Weather(a)  BY <1>10 DEF Weather, sensor, radio
<1>11. CASE RoleChange                BY <1>11 DEF RoleChange, sensor, radio
<1>12. CASE Reset                     BY <1>12 DEF Reset
<1>13. CASE UNCHANGED vars            BY <1>13 DEF vars
<1> QED
  BY <1>1, <1>2, <1>3, <1>4, <1>5, <1>6, <1>7, <1>8, <1>9, <1>10, <1>11, <1>12, <1>13 DEF Next

(* app_sht30d_fetch_raw and app_coap_send_request: whatever fails, between *)
(* two measurements only a failed one has left anything on.                *)
THEOREM TbQuietAtRest == Spec => []QuietAtRest
<1>1. Init => QuietInv
  BY DEF Init, QuietInv
<1>2. QuietInv => QuietAtRest
  BY DEF QuietInv, QuietAtRest, Measuring, Requesting, Idle
<1> QED
  BY <1>1, <1>2, QuietStep, PTL DEF Spec

-----------------------------------------------------------------------------
(* The checksum of Sht30d, bit by bit                                      *)

Byte == SUBSET AllOnes

LEMMA Powers ==
  /\ 2^0 = 1 /\ 2^1 = 2 /\ 2^2 = 4 /\ 2^3 = 8 /\ 2^4 = 16 /\ 2^5 = 32 /\ 2^6 = 64 /\ 2^7 = 128
BY PowersOfTwo

LEMMA PolynomIs == Polynom = {0, 4, 5}
<1> DEFINE In(b) == (49 \div 2^b) % 2 = 1
<1>1. /\ In(0) /\ ~In(1) /\ ~In(2) /\ ~In(3) /\ In(4) /\ In(5) /\ ~In(6) /\ ~In(7)
  BY Powers
<1>2. Polynom = {b \in 0 .. 7 : In(b)}
  BY DEF Polynom, Bits
<1> HIDE DEF In
<1>3. 0 .. 7 = {0, 1, 2, 3, 4, 5, 6, 7}
  OBVIOUS
<1> QED
  BY <1>1, <1>2, <1>3

LEMMA ShiftLinear ==
  ASSUME NEW a \in Byte, NEW b \in Byte
  PROVE  /\ ShiftLeft(a) \in Byte
         /\ ShiftLeft(Xor(a, b)) = Xor(ShiftLeft(a), ShiftLeft(b))
BY DEF Byte, AllOnes, ShiftLeft, Xor

LEMMA XorAround ==
  ASSUME NEW A, NEW B, NEW P
  PROVE  /\ Xor(Xor(A, P), Xor(B, P)) = Xor(A, B)
         /\ Xor(Xor(A, P), B) = Xor(Xor(A, B), P)
         /\ Xor(A, Xor(B, P)) = Xor(Xor(A, B), P)
BY DEF Xor

LEMMA StepLinear ==
  ASSUME NEW a \in Byte, NEW b \in Byte
  PROVE  /\ CrcStep(a) \in Byte
         /\ CrcStep(Xor(a, b)) = Xor(CrcStep(a), CrcStep(b))
<1>1. Polynom \in Byte
  BY PolynomIs DEF Byte, AllOnes
<1>2. /\ ShiftLeft(a) \in Byte /\ ShiftLeft(b) \in Byte
      /\ ShiftLeft(Xor(a, b)) = Xor(ShiftLeft(a), ShiftLeft(b))
  BY ShiftLinear
<1>3. 7 \in Xor(a, b) <=> ~(7 \in a <=> 7 \in b)
  BY DEF Xor
<1> HIDE DEF Byte
<1>4. CrcStep(a) \in Byte
  BY <1>1, <1>2 DEF CrcStep, Xor, Byte
<1> DEFINE A == ShiftLeft(a)
           B == ShiftLeft(b)
<1>5. CrcStep(a) = IF 7 \in a THEN Xor(A, Polynom) ELSE A
  BY DEF CrcStep
<1>6. CrcStep(b) = IF 7 \in b THEN Xor(B, Polynom) ELSE B
  BY DEF CrcStep
<1>7. CrcStep(Xor(a, b)) = IF 7 \in Xor(a, b) THEN Xor(Xor(A, B), Polynom) ELSE Xor(A, B)
  BY <1>2 DEF CrcStep
<1>8. /\ Xor(Xor(A, Polynom), Xor(B, Polynom)) = Xor(A, B)
      /\ Xor(Xor(A, Polynom), B) = Xor(Xor(A, B), Polynom)
      /\ Xor(A, Xor(B, Polynom)) = Xor(Xor(A, B), Polynom)
  BY XorAround
<1> HIDE DEF A, B
<1> QED
  BY <1>3, <1>4, <1>5, <1>6, <1>7, <1>8

LEMMA EightSteps ==
  ASSUME NEW c
  PROVE  EightRounds(c) = CrcStep(CrcStep(CrcStep(CrcStep(CrcStep(CrcStep(CrcStep(CrcStep(c))))))))
<1> DEFINE c1 == CrcStep(c)
           c2 == CrcStep(c1)
           c3 == CrcStep(c2)
           c4 == CrcStep(c3)
           c5 == CrcStep(c4)
           c6 == CrcStep(c5)
           c7 == CrcStep(c6)
           c8 == CrcStep(c7)
           Follows(f) == f = [i \in 0 .. 8 |-> IF i = 0 THEN c ELSE CrcStep(f[i - 1])]
           round[i \in 0 .. 8] == IF i = 0 THEN c ELSE CrcStep(round[i - 1])
           P == [i \in 0 .. 8 |-> <<c, c1, c2, c3, c4, c5, c6, c7, c8>>[i + 1]]
<1>1. EightRounds(c) = round[8]
  BY DEF EightRounds
<1>2. Follows(P)
  <2> HIDE DEF c1, c2, c3, c4, c5, c6, c7, c8
  <2>0. /\ c1 = CrcStep(c) /\ c2 = CrcStep(c1) /\ c3 = CrcStep(c2) /\ c4 = CrcStep(c3)
        /\ c5 = CrcStep(c4) /\ c6 = CrcStep(c5) /\ c7 = CrcStep(c6) /\ c8 = CrcStep(c7)
    BY DEF c1, c2, c3, c4, c5, c6, c7, c8
  <2>1. /\ P[0] = c /\ P[1] = c1 /\ P[2] = c2 /\ P[3] = c3 /\ P[4] = c4 /\ P[5] = c5
        /\ P[6] = c6 /\ P[7] = c7 /\ P[8] = c8
    OBVIOUS
  <2>2. P = [i \in 0 .. 8 |-> P[i]]
    OBVIOUS
  <2> HIDE DEF P
  <2>3. \A i \in 0 .. 8 : P[i] = IF i = 0 THEN c ELSE CrcStep(P[i - 1])
    <3> SUFFICES ASSUME NEW i \in 0 .. 8 PROVE P[i] = IF i = 0 THEN c ELSE CrcStep(P[i - 1])
      OBVIOUS
    <3>1. i \in {0, 1, 2, 3, 4, 5, 6, 7, 8}
      OBVIOUS
    <3> QED
      BY <2>0, <2>1, <3>1
  <2> QED
    BY <2>2, <2>3
<1>3. Follows(round)
  <2>1. round = CHOOSE f : Follows(f)
    BY DEF round
  <2> HIDE DEF round, Follows, P
  <2> QED
    BY <1>2, <2>1
<1> HIDE DEF round
<1>4. round[0] = c /\ \A i \in 1 .. 8 : round[i] = CrcStep(round[i - 1])
  BY <1>3
<1>5. round[8] = CrcStep(round[7]) /\ round[7] = CrcStep(round[6]) /\ round[6] = CrcStep(round[5])
      /\ round[5] = CrcStep(round[4]) /\ round[4] = CrcStep(round[3]) /\ round[3] = CrcStep(round[2])
      /\ round[2] = CrcStep(round[1]) /\ round[1] = CrcStep(round[0])
  BY <1>4
<1> QED
  BY <1>1, <1>4, <1>5

LEMMA RoundsLinear ==
  ASSUME NEW a \in Byte, NEW b \in Byte
  PROVE  /\ EightRounds(a) \in Byte
         /\ EightRounds(Xor(a, b)) = Xor(EightRounds(a), EightRounds(b))
<1> DEFINE F(c) == CrcStep(CrcStep(c))
<1>1. \A c, d \in Byte : F(c) \in Byte /\ F(Xor(c, d)) = Xor(F(c), F(d))
  BY StepLinear
<1> DEFINE G(c) == F(F(c))
<1> HIDE DEF F
<1>2. \A c, d \in Byte : G(c) \in Byte /\ G(Xor(c, d)) = Xor(G(c), G(d))
  BY <1>1
<1> DEFINE H(c) == G(G(c))
<1> HIDE DEF G
<1>3. \A c, d \in Byte : H(c) \in Byte /\ H(Xor(c, d)) = Xor(H(c), H(d))
  BY <1>2
<1> HIDE DEF H
<1>4. \A c : EightRounds(c) = H(c)
  BY EightSteps DEF F, G, H
<1> QED
  BY <1>3, <1>4

(* The residues that single bits leave. *)
Chain == <<
  {0}, {1}, {2}, {3}, {4}, {5}, {6}, {7},
  {0, 4, 5}, {1, 5, 6}, {2, 6, 7}, {0, 3, 4, 5, 7},
  {0, 1, 6}, {1, 2, 7}, {0, 2, 3, 4, 5}, {1, 3, 4, 5, 6},
  {2, 4, 5, 6, 7}, {0, 3, 4, 6, 7}, {0, 1, 7}, {0, 1, 2, 4, 5},
  {1, 2, 3, 5, 6}, {2, 3, 4, 6, 7}, {0, 3, 7}, {0, 1, 5} >>

LEMMA ChainSteps == \A i \in 1 .. 23 : Chain[i + 1] = CrcStep(Chain[i])
<1>1. \A c : 7 \notin c => CrcStep(c) = {b + 1 : b \in c}
  BY DEF CrcStep, ShiftLeft
<1>2. \A c : 7 \in c => CrcStep(c) = Xor({b + 1 : b \in c \ {7}}, {0, 4, 5})
  BY PolynomIs DEF CrcStep, ShiftLeft
<1>3. /\ CrcStep({0}) = {1} /\ CrcStep({1}) = {2} /\ CrcStep({2}) = {3} /\ CrcStep({3}) = {4}
      /\ CrcStep({4}) = {5} /\ CrcStep({5}) = {6} /\ CrcStep({6}) = {7}
  BY <1>1
<1>4. CrcStep({7}) = {0, 4, 5}
  BY <1>2 DEF Xor
<1>5. /\ CrcStep({0, 4, 5}) = {1, 5, 6} 
      /\ CrcStep({1, 5, 6}) = {2, 6, 7}
      /\ CrcStep({0, 1, 6}) = {1, 2, 7}
      /\ CrcStep({0, 2, 3, 4, 5}) = {1, 3, 4, 5, 6}
      /\ CrcStep({0, 1, 2, 4, 5}) = {1, 2, 3, 5, 6}
  BY <1>1
<1>50. CrcStep({1, 2, 3, 5, 6}) = {2, 3, 4, 6, 7}
      /\ CrcStep({1, 3, 4, 5, 6}) = {2, 4, 5, 6, 7}
  BY <1>1
<1>6. CrcStep({2, 6, 7}) = {0, 3, 4, 5, 7}
  BY <1>2 DEF Xor
<1>7. CrcStep({0, 3, 4, 5, 7}) = {0, 1, 6}
  BY <1>2 DEF Xor
<1>8. CrcStep({1, 2, 7}) = {0, 2, 3, 4, 5}
  BY <1>2 DEF Xor
<1>9. CrcStep({2, 4, 5, 6, 7}) = {0, 3, 4, 6, 7}
  BY <1>2 DEF Xor
<1>10. CrcStep({0, 3, 4, 6, 7}) = {0, 1, 7}
  BY <1>2 DEF Xor
<1>11. CrcStep({0, 1, 7}) = {0, 1, 2, 4, 5}
  BY <1>2 DEF Xor
<1>12. CrcStep({2, 3, 4, 6, 7}) = {0, 3, 7}
  BY <1>2 DEF Xor
<1>13. CrcStep({0, 3, 7}) = {0, 1, 5}
  BY <1>2 DEF Xor
<1> DEFINE F(i) == Chain[i + 1] = CrcStep(Chain[i])
<1>14. F(1) /\ F(2) /\ F(3) /\ F(4) /\ F(5) /\ F(6) /\ F(7) /\ F(8)
  BY <1>3, <1>4 DEF Chain
<1>15. F(9) /\ F(10) /\ F(11) /\ F(12) /\ F(13) /\ F(14) /\ F(15) /\ F(16)
  BY <1>5, <1>50, <1>6, <1>7, <1>8 DEF Chain
<1>16. F(17) /\ F(18) /\ F(19) /\ F(20) /\ F(21) /\ F(22) /\ F(23)
  BY <1>5, <1>50, <1>9, <1>10, <1>11, <1>12, <1>13 DEF Chain
<1>17. \A i \in 1 .. 23 : F(i)
  <2> HIDE DEF F
  <2> QED
    BY <1>14, <1>15, <1>16
<1> QED
  BY <1>17

(* The parity of a byte's bits. *)
Odd(c) == ~((0 \in c <=> 1 \in c) <=> ((2 \in c <=> 3 \in c) <=>
            ((4 \in c <=> 5 \in c) <=> (6 \in c <=> 7 \in c))))

LEMMA OddXor ==
  ASSUME NEW a, NEW b
  PROVE  /\ Odd(Xor(a, b)) <=> ~(Odd(a) <=> Odd(b))
         /\ ~Odd({})
<1>1. \A i : i \in Xor(a, b) <=> ~(i \in a <=> i \in b)
  BY DEF Xor
<1> HIDE DEF Xor
<1> QED
  BY <1>1 DEF Odd

LEMMA ChainIsOdd == \A i \in 1 .. 24 : Chain[i] \in Byte /\ Odd(Chain[i])
<1> DEFINE F(i) == Chain[i] \in Byte /\ Odd(Chain[i])
<1>1. F(1) /\ F(2) /\ F(3) /\ F(4) /\ F(5) /\ F(6) /\ F(7) /\ F(8)
  BY DEF Chain, Odd, Byte, AllOnes
<1>2. F(9) /\ F(10) /\ F(11) /\ F(12) /\ F(13) /\ F(14) /\ F(15) /\ F(16)
  BY DEF Chain, Odd, Byte, AllOnes
<1>3. F(17) /\ F(18) /\ F(19) /\ F(20) /\ F(21) /\ F(22) /\ F(23) /\ F(24)
  BY DEF Chain, Odd, Byte, AllOnes
<1>4. \A i \in 1 .. 24 : F(i)
  <2> HIDE DEF F
  <2> QED
    BY <1>1, <1>2, <1>3
<1> QED
  BY <1>4

(* The bytes of the chain as numbers. *)
ChainValue == <<1, 2, 4, 8, 16, 32, 64, 128, 49, 98, 196, 185, 67, 134, 61, 122, 244, 217,
                131, 55, 110, 220, 137, 35>>

LEMMA ChainApart == \A i, j \in 1 .. 24 : Chain[i] = Chain[j] => i = j
<1>1. \A c : ByteValue(c) =
        (IF 0 \in c THEN 1 ELSE 0) + (IF 1 \in c THEN 2 ELSE 0) + (IF 2 \in c THEN 4 ELSE 0)
        + (IF 3 \in c THEN 8 ELSE 0) + (IF 4 \in c THEN 16 ELSE 0) + (IF 5 \in c THEN 32 ELSE 0)
        + (IF 6 \in c THEN 64 ELSE 0) + (IF 7 \in c THEN 128 ELSE 0)
  BY Powers DEF ByteValue
<1> DEFINE F(i) == ByteValue(Chain[i]) = ChainValue[i]
<1>2. F(1) /\ F(2) /\ F(3) /\ F(4) /\ F(5) /\ F(6) /\ F(7) /\ F(8)
  BY <1>1 DEF Chain, ChainValue
<1>3. F(9) /\ F(10) /\ F(11) /\ F(12) /\ F(13) /\ F(14) /\ F(15) /\ F(16)
  BY <1>1 DEF Chain, ChainValue
<1>4. F(17) /\ F(18) /\ F(19) /\ F(20) /\ F(21) /\ F(22) /\ F(23) /\ F(24)
  BY <1>1 DEF Chain, ChainValue
<1>5. \A i \in 1 .. 24 : F(i)
  <2> HIDE DEF F
  <2> QED
    BY <1>2, <1>3, <1>4
<1>6. \A i, j \in 1 .. 24 : ChainValue[i] = ChainValue[j] => i = j
  BY DEF ChainValue
<1> QED
  BY <1>5, <1>6

-----------------------------------------------------------------------------
LEMMA EightOfChain == \A i \in 1 .. 16 : EightRounds(Chain[i]) = Chain[i + 8]
<1> SUFFICES ASSUME NEW i \in 1 .. 16 PROVE EightRounds(Chain[i]) = Chain[i + 8]
  OBVIOUS
<1> HIDE DEF Chain
<1>1. /\ Chain[i + 1] = CrcStep(Chain[i])     /\ Chain[i + 2] = CrcStep(Chain[i + 1])
      /\ Chain[i + 3] = CrcStep(Chain[i + 2]) /\ Chain[i + 4] = CrcStep(Chain[i + 3])
      /\ Chain[i + 5] = CrcStep(Chain[i + 4]) /\ Chain[i + 6] = CrcStep(Chain[i + 5])
      /\ Chain[i + 7] = CrcStep(Chain[i + 6]) /\ Chain[i + 8] = CrcStep(Chain[i + 7])
  <2>1. \A k \in 1 .. 23 : Chain[k + 1] = CrcStep(Chain[k])
    BY ChainSteps
  <2>2. \A k \in 0 .. 7 : Chain[i + k + 1] = CrcStep(Chain[i + k])
    BY <2>1
  <2> QED
    BY <2>2
<1> QED
  BY <1>1, EightSteps

(* The checksum a damage leaves of a word that is nought. *)
Syndrome(e) == EightRounds(Xor(EightRounds(HighByte(e)), LowByte(e)))

LEMMA BytesXor ==
  ASSUME NEW w, NEW e
  PROVE  /\ HighByte(w) \in Byte /\ LowByte(w) \in Byte
         /\ HighByte(Xor(w, e)) = Xor(HighByte(w), HighByte(e))
         /\ LowByte(Xor(w, e)) = Xor(LowByte(w), LowByte(e))
BY DEF Byte, HighByte, LowByte, Xor

LEMMA XorInByte == \A a, b \in Byte : Xor(a, b) \in Byte
BY DEF Xor, Byte

LEMMA XorAssociates ==
  \A a, b, c : Xor(Xor(a, b), c) = Xor(a, Xor(b, c)) /\ Xor(a, b) = Xor(b, a)
<1> SUFFICES ASSUME NEW a, NEW b, NEW c
             PROVE Xor(Xor(a, b), c) = Xor(a, Xor(b, c)) /\ Xor(a, b) = Xor(b, a)
  OBVIOUS
<1> QED
  BY DEF Xor

LEMMA CrcLinear ==
  ASSUME NEW w, NEW e
  PROVE  /\ Crc(w) \in Byte /\ Syndrome(e) \in Byte
         /\ Crc(Xor(w, e)) = Xor(Crc(w), Syndrome(e))
<1> DEFINE h == HighByte(w)
           l == LowByte(w)
           dh == HighByte(e)
           dl == LowByte(e)
           H == Xor(AllOnes, h)
<1>0. AllOnes \in Byte
  BY DEF Byte
<1>1. /\ h \in Byte /\ l \in Byte /\ dh \in Byte /\ dl \in Byte
      /\ HighByte(Xor(w, e)) = Xor(h, dh) /\ LowByte(Xor(w, e)) = Xor(l, dl)
  BY BytesXor
<1>2. H \in Byte
  BY <1>0, <1>1, XorInByte
<1>3. Crc(w) = EightRounds(Xor(EightRounds(H), l))
  BY DEF Crc
<1>4. Crc(Xor(w, e)) = EightRounds(Xor(EightRounds(Xor(AllOnes, Xor(h, dh))), Xor(l, dl)))
  BY <1>1 DEF Crc
<1>5. Syndrome(e) = EightRounds(Xor(EightRounds(dh), dl))
  BY DEF Syndrome
<1>6. Xor(AllOnes, Xor(h, dh)) = Xor(H, dh)
  BY XorAssociates
<1> HIDE DEF h, l, dh, dl, H
<1>7. /\ EightRounds(H) \in Byte /\ EightRounds(dh) \in Byte
      /\ EightRounds(Xor(H, dh)) = Xor(EightRounds(H), EightRounds(dh))
  BY <1>1, <1>2, RoundsLinear
<1> DEFINE p == EightRounds(H)
           q == EightRounds(dh)
<1>8. Xor(Xor(p, q), Xor(l, dl)) = Xor(Xor(p, l), Xor(q, dl))
  BY XorAssociates
<1>9. Xor(p, l) \in Byte /\ Xor(q, dl) \in Byte
  BY <1>1, <1>7, XorInByte
<1>10. /\ EightRounds(Xor(p, l)) \in Byte /\ EightRounds(Xor(q, dl)) \in Byte
       /\ EightRounds(Xor(Xor(p, l), Xor(q, dl)))
            = Xor(EightRounds(Xor(p, l)), EightRounds(Xor(q, dl)))
  <2> HIDE DEF p, q
  <2> QED
    BY <1>9, RoundsLinear
<1> QED
  BY <1>3, <1>4, <1>5, <1>6, <1>7, <1>8, <1>10

LEMMA XorCancels ==
  /\ \A a, b, c : Xor(a, b) = Xor(a, c) => b = c
  /\ \A a : Xor(a, a) = {} /\ Xor({}, a) = a /\ Xor(a, {}) = a
<1>1. ASSUME NEW a, NEW b, NEW c, Xor(a, b) = Xor(a, c) PROVE b = c
  <2>1. \A i : i \in Xor(a, b) <=> i \in Xor(a, c)
    BY <1>1
  <2> QED
    BY <2>1 DEF Xor
<1>2. \A a : Xor(a, a) = {} /\ Xor({}, a) = a /\ Xor(a, {}) = a
  BY DEF Xor
<1> QED
  BY <1>1, <1>2

LEMMA SyndromeLinear ==
  ASSUME NEW e, NEW f
  PROVE  Syndrome(Xor(e, f)) = Xor(Syndrome(e), Syndrome(f))
<1>1. Crc(e) = Xor(Crc({}), Syndrome(e))
  BY CrcLinear, XorCancels
<1>2. Crc(Xor(e, f)) = Xor(Crc({}), Syndrome(Xor(e, f)))
  BY CrcLinear, XorCancels
<1>3. Crc(Xor(e, f)) = Xor(Crc(e), Syndrome(f))
  BY CrcLinear
<1>4. Crc(Xor(e, f)) = Xor(Crc({}), Xor(Syndrome(e), Syndrome(f)))
  BY <1>1, <1>3, XorAssociates
<1> QED
  BY <1>2, <1>4, XorCancels

(* What a damage leaves: the difference it makes to the checksum of the    *)
(* word, and the damage of the checksum itself.                            *)
InWord(flips) == {b \in flips : b < 16}
InSum(flips)  == {b - 16 : b \in {f \in flips : f >= 16}}
Whole(flips)  == Xor(Syndrome(InWord(flips)), InSum(flips))

LEMMA PartsXor ==
  ASSUME NEW F \in SUBSET (0 .. 23), NEW G \in SUBSET (0 .. 23)
  PROVE  /\ InWord(Xor(F, G)) = Xor(InWord(F), InWord(G))
         /\ InSum(Xor(F, G)) = Xor(InSum(F), InSum(G))
<1>1. InWord(Xor(F, G)) = Xor(InWord(F), InWord(G))
  BY DEF InWord, Xor
<1>2. \A A \in SUBSET (0 .. 23) : InSum(A) = {c \in AllOnes : c + 16 \in A}
  BY DEF InSum, AllOnes
<1>3. Xor(F, G) \in SUBSET (0 .. 23)
  BY DEF Xor
<1>4. {c \in AllOnes : c + 16 \in Xor(F, G)}
        = Xor({c \in AllOnes : c + 16 \in F}, {c \in AllOnes : c + 16 \in G})
  BY DEF Xor
<1> QED
  BY <1>1, <1>2, <1>3, <1>4

LEMMA WholeLinear ==
  ASSUME NEW F \in SUBSET (0 .. 23), NEW G \in SUBSET (0 .. 23)
  PROVE  Whole(Xor(F, G)) = Xor(Whole(F), Whole(G))
<1> DEFINE a == Syndrome(InWord(F))
           b == Syndrome(InWord(G))
<1>1. Whole(Xor(F, G)) = Xor(Xor(a, b), Xor(InSum(F), InSum(G)))
  BY PartsXor, SyndromeLinear DEF Whole
<1> HIDE DEF a, b
<1>2. Xor(Xor(a, b), Xor(InSum(F), InSum(G))) = Xor(Xor(a, InSum(F)), Xor(b, InSum(G)))
  BY XorAssociates
<1> QED
  BY <1>1, <1>2 DEF Whole, a, b

Column(b) == IF b < 16 THEN Chain[b + 9] ELSE Chain[b - 15]

LEMMA Units == \A b \in 0 .. 7 : Chain[b + 1] = {b}
<1> SUFFICES ASSUME NEW b \in 0 .. 7 PROVE Chain[b + 1] = {b}
  OBVIOUS
<1>1. b = 0 \/ b = 1 \/ b = 2 \/ b = 3 \/ b = 4 \/ b = 5 \/ b = 6 \/ b = 7
  OBVIOUS
<1> QED
  BY <1>1 DEF Chain

LEMMA WholeOfOne == \A b \in 0 .. 23 : Whole({b}) = Column(b)
<1> SUFFICES ASSUME NEW b \in 0 .. 23 PROVE Whole({b}) = Column(b)
  OBVIOUS
<1>1. EightRounds({}) = {}
  <2>1. {} \in Byte
    BY DEF Byte
  <2> QED
    BY <2>1, RoundsLinear, XorCancels
<1>2. HighByte({}) = {} /\ LowByte({}) = {}
  BY DEF HighByte, LowByte
<1>3. Syndrome({}) = {}
  BY <1>1, <1>2, XorCancels DEF Syndrome
<1>4. CASE b \in 0 .. 7
  <2>1. InWord({b}) = {b} /\ InSum({b}) = {}
    BY <1>4 DEF InWord, InSum
  <2>2a. HighByte({b}) = {}
    BY <1>4 DEF HighByte, AllOnes
  <2>2. LowByte({b}) = {b}
    BY <1>4 DEF LowByte, AllOnes
  <2>3. Whole({b}) = EightRounds(Chain[b + 1])
    <3>1. Whole({b}) = Syndrome({b})
      BY <2>1, XorCancels DEF Whole
    <3>2. Syndrome({b}) = EightRounds({b})
      BY <1>1, <2>2a, <2>2, XorCancels DEF Syndrome
    <3> QED
      BY <1>4, <3>1, <3>2, Units
  <2>4. EightRounds(Chain[b + 1]) = Chain[b + 1 + 8]
    BY <1>4, EightOfChain
  <2> QED
    BY <1>4, <2>3, <2>4 DEF Column
<1>5. CASE b \in 8 .. 15
  <2>1. InWord({b}) = {b} /\ InSum({b}) = {}
    BY <1>5 DEF InWord, InSum
  <2>2. HighByte({b}) = {b - 8} /\ LowByte({b}) = {}
    BY <1>5 DEF HighByte, LowByte, AllOnes
  <2>3. Chain[b - 8 + 1] = {b - 8}
    BY <1>5, Units
  <2>4. Whole({b}) = EightRounds(EightRounds(Chain[b - 8 + 1]))
    <3>1. Whole({b}) = Syndrome({b})
      BY <2>1, XorCancels DEF Whole
    <3>2. Syndrome({b}) = EightRounds(EightRounds({b - 8}))
      BY <2>2, XorCancels DEF Syndrome
    <3> QED
      BY <2>3, <3>1, <3>2
  <2>5. EightRounds(Chain[b - 8 + 1]) = Chain[b - 8 + 1 + 8]
    BY <1>5, EightOfChain
  <2>6. EightRounds(Chain[b + 1]) = Chain[b + 1 + 8]
    BY <1>5, EightOfChain
  <2>7. b - 8 + 1 + 8 = b + 1 /\ b + 1 + 8 = b + 9
    BY <1>5
  <2> QED
    BY <1>5, <2>4, <2>5, <2>6, <2>7 DEF Column
<1>6. CASE b \in 16 .. 23
  <2>1. InWord({b}) = {} /\ InSum({b}) = {b - 16}
    BY <1>6 DEF InWord, InSum
  <2>2. Chain[b - 16 + 1] = {b - 16}
    BY <1>6, Units
  <2>3. b - 16 + 1 = b - 15
    BY <1>6
  <2> QED
    BY <1>3, <1>6, <2>1, <2>2, <2>3, XorCancels DEF Whole, Column
<1> QED
  BY <1>4, <1>5, <1>6

LEMMA Columns ==
  /\ \A b \in 0 .. 23 : Odd(Column(b))
  /\ \A b, c \in 0 .. 23 : Column(b) = Column(c) => b = c
<1> DEFINE at(b) == IF b < 16 THEN b + 9 ELSE b - 15
<1>1. \A b \in 0 .. 23 : at(b) \in 1 .. 24 /\ Column(b) = Chain[at(b)]
  BY DEF Column
<1>2. \A b, c \in 0 .. 23 : at(b) = at(c) => b = c
  OBVIOUS
<1> HIDE DEF at
<1> QED
  BY <1>1, <1>2, ChainIsOdd, ChainApart

LEMMA BitsFinite == \A F \in SUBSET (0 .. 23) : IsFiniteSet(F)
<1>1. 0 \in Int /\ 23 \in Int
  OBVIOUS
<1>2. IsFiniteSet(0 .. 23)
  BY <1>1, FS_Interval, Zenon
<1> QED
  BY <1>2, FS_Subset

LEMMA OneLess ==
  ASSUME NEW F \in SUBSET (0 .. 23), NEW x \in F
  PROVE  /\ F \ {x} \in SUBSET (0 .. 23)
         /\ Cardinality(F) \in Nat /\ Cardinality(F \ {x}) \in Nat
         /\ Cardinality(F) = Cardinality(F \ {x}) + 1
         /\ Whole(F) = Xor(Column(x), Whole(F \ {x}))
<1>1. IsFiniteSet(F) /\ IsFiniteSet(F \ {x})
  <2>1. F \ {x} \in SUBSET (0 .. 23)
    OBVIOUS
  <2> QED
    BY <2>1, BitsFinite
<1>2. Cardinality(F) \in Nat /\ Cardinality(F \ {x}) \in Nat
  BY <1>1, FS_CardinalityType
<1>3. Cardinality(F \ {x}) = Cardinality(F) - 1
  BY <1>1, FS_RemoveElement
<1>4. F = Xor({x}, F \ {x})
  BY DEF Xor
<1>5. Whole(Xor({x}, F \ {x})) = Xor(Whole({x}), Whole(F \ {x}))
  BY WholeLinear
<1>6. Whole({x}) = Column(x)
  BY WholeOfOne
<1>7. Whole(F) = Xor(Column(x), Whole(F \ {x}))
  BY <1>4, <1>5, <1>6, Zenon
<1> QED
  BY <1>2, <1>3, <1>7

(* The polynomial, 0x31, detects every damage of one to three of the 24    *)
(* bits: a bit leaves an odd residue, and no two leave the same.           *)
THEOREM ChecksumDetects ==
  ASSUME NEW F \in SUBSET (0 .. 23), Cardinality(F) <= 3, Whole(F) = {}
  PROVE  F = {}
<1>1. SUFFICES ASSUME NEW x \in F PROVE FALSE
  OBVIOUS
<1>2. PICK G : G = F \ {x}
  OBVIOUS
<1>3. /\ G \in SUBSET (0 .. 23) /\ Cardinality(G) \in 0 .. 2
      /\ Whole(F) = Xor(Column(x), Whole(G))
  <2>1. /\ F \ {x} \in SUBSET (0 .. 23)
        /\ Cardinality(F) \in Nat /\ Cardinality(F \ {x}) \in Nat
        /\ Cardinality(F) = Cardinality(F \ {x}) + 1
        /\ Whole(F) = Xor(Column(x), Whole(F \ {x}))
    BY OneLess, Zenon
  <2> QED
    BY <1>2, <2>1
<1>4. Whole({}) = {}
  <2>1. Whole(Xor({}, {})) = Xor(Whole({}), Whole({}))
    BY WholeLinear
  <2> QED
    BY <2>1, XorCancels
<1>5. Odd(Column(x)) /\ ~Odd({})
  BY Columns, OddXor
<1>6. G # {}
  BY <1>3, <1>4, <1>5, XorCancels
<1>7. PICK y : y \in G
  BY <1>6
<1>8. PICK H : H = G \ {y}
  OBVIOUS
<1>9. /\ H \in SUBSET (0 .. 23) /\ Cardinality(H) \in 0 .. 1
      /\ Whole(G) = Xor(Column(y), Whole(H))
  <2>1. /\ G \ {y} \in SUBSET (0 .. 23)
        /\ Cardinality(G) \in Nat /\ Cardinality(G \ {y}) \in Nat
        /\ Cardinality(G) = Cardinality(G \ {y}) + 1
        /\ Whole(G) = Xor(Column(y), Whole(G \ {y}))
    BY <1>3, <1>7, OneLess, Zenon
  <2> QED
    BY <1>3, <1>8, <2>1
<1>10. Odd(Column(y)) /\ Column(x) # Column(y)
  <2>1. y # x /\ x \in 0 .. 23 /\ y \in 0 .. 23
    BY <1>2, <1>7
  <2> QED
    BY <2>1, Columns
<1>11. H # {}
  <2>1. SUFFICES ASSUME H = {} PROVE FALSE
    OBVIOUS
  <2>2. Whole(G) = Column(y)
    BY <1>4, <1>9, <2>1, XorCancels
  <2>3. Xor(Column(x), Column(y)) = Xor(Column(x), Column(x))
    BY <1>3, <2>2, XorCancels
  <2> QED
    BY <1>10, <2>3, XorCancels
<1>12. PICK z : z \in H
  BY <1>11
<1>13. PICK R : R = H \ {z}
  OBVIOUS
<1>14. /\ R \in SUBSET (0 .. 23) /\ Cardinality(R) = 0
       /\ Whole(H) = Xor(Column(z), Whole(R))
  BY <1>9, <1>12, <1>13, OneLess
<1>15. Odd(Column(z))
  BY <1>9, <1>12, Columns
<1>16. R = {}
  BY <1>14, BitsFinite, FS_EmptySet
<1>17. Whole(H) = Column(z)
  BY <1>4, <1>14, <1>16, XorCancels
<1>18. Whole(F) = Xor(Column(x), Xor(Column(y), Column(z)))
  BY <1>3, <1>9, <1>17
<1> QED
  BY <1>5, <1>10, <1>15, <1>18, OddXor

(* A damaged answer is accepted only if nothing is left.                   *)
LEMMA AcceptedWhole ==
  ASSUME NEW s, NEW F \in SUBSET (0 .. 23), Accepted(Damaged(Protected(s), F))
  PROVE  Whole(F) = {}
<1> DEFINE w == Bits(s, 16)
<1>1. Crc(Xor(w, InWord(F))) = Xor(Crc(w), InSum(F))
  BY DEF Accepted, Damaged, Protected, InWord, InSum
<1>2. Crc(Xor(w, InWord(F))) = Xor(Crc(w), Syndrome(InWord(F)))
  BY CrcLinear
<1>3. Syndrome(InWord(F)) = InSum(F)
  BY <1>1, <1>2, XorCancels
<1> QED
  BY <1>3, XorCancels DEF Whole

Bit(c, b, p) == IF b \in c THEN p ELSE 0

LEMMA ByteValueIs ==
  \A c : ByteValue(c) = Bit(c, 0, 1) + Bit(c, 1, 2) + Bit(c, 2, 4) + Bit(c, 3, 8)
            + Bit(c, 4, 16) + Bit(c, 5, 32) + Bit(c, 6, 64) + Bit(c, 7, 128)
<1>1. \A c, b : Bit(c, b, 2^b) = IF b \in c THEN 2^b ELSE 0
  BY DEF Bit
<1>2. \A c : ByteValue(c) = Bit(c, 0, 2^0) + Bit(c, 1, 2^1) + Bit(c, 2, 2^2) + Bit(c, 3, 2^3)
            + Bit(c, 4, 2^4) + Bit(c, 5, 2^5) + Bit(c, 6, 2^6) + Bit(c, 7, 2^7)
  BY Zenon DEF Bit, ByteValue
<1> QED
  BY <1>2, Powers

(* Bit b of the byte c is the one of the number v whose weight is p; all.  *)
Is(c, b, v, p) == b \in c <=> (v \div p) % 2 = 1
Spells(c, v) ==
  /\ Is(c, 0, v, 1) /\ Is(c, 1, v, 2) /\ Is(c, 2, v, 4) /\ Is(c, 3, v, 8)
  /\ Is(c, 4, v, 16) /\ Is(c, 5, v, 32) /\ Is(c, 6, v, 64) /\ Is(c, 7, v, 128)

(* One bit split off.                                                      *)
Halved(n, q, r) == q \in Nat /\ r \in {0, 1} /\ n = 2 * q + r /\ (n % 2 = 1 <=> r = 1)

LEMMA Halving == ASSUME NEW n \in Nat PROVE Halved(n, n \div 2, n % 2)
<1>1. n \div 2 \in Nat /\ n % 2 \in {0, 1} /\ n = 2 * (n \div 2) + (n % 2)
  BY SMT
<1> QED
  BY <1>1 DEF Halved

LEMMA ByteReadBack == ASSUME NEW v \in 0 .. 255, NEW c, Spells(c, v) PROVE ByteValue(c) = v
<1>1. \A n \in Nat : \E q, r : q = n \div 2 /\ Halved(n, q, r)
  BY Halving
<1>2. PICK d0 : d0 = v \div 1 /\ d0 = v /\ d0 \in Nat
  BY SMT
<1>3. PICK d1, r0 : d1 = v \div 2 /\ Halved(d0, d1, r0)
  <2>1. v \div 2 = (v \div 1) \div 2 /\ v \div 1 \in Nat
    BY SMT
  <2> QED
    BY <1>1, <1>2, <2>1, Zenon
<1>4. PICK d2, r1 : d2 = v \div 4 /\ Halved(d1, d2, r1)
  <2>1. v \div 4 = (v \div 2) \div 2 /\ v \div 2 \in Nat
    BY SMT
  <2> QED
    BY <1>1, <1>3, <2>1, Zenon
<1>5. PICK d3, r2 : d3 = v \div 8 /\ Halved(d2, d3, r2)
  <2>1. v \div 8 = (v \div 4) \div 2 /\ v \div 4 \in Nat
    BY SMT
  <2> QED
    BY <1>1, <1>4, <2>1, Zenon
<1>6. PICK d4, r3 : d4 = v \div 16 /\ Halved(d3, d4, r3)
  <2>1. v \div 16 = (v \div 8) \div 2 /\ v \div 8 \in Nat
    BY SMT
  <2> QED
    BY <1>1, <1>5, <2>1, Zenon
<1>7. PICK d5, r4 : d5 = v \div 32 /\ Halved(d4, d5, r4)
  <2>1. v \div 32 = (v \div 16) \div 2 /\ v \div 16 \in Nat
    BY SMT
  <2> QED
    BY <1>1, <1>6, <2>1, Zenon
<1>8. PICK d6, r5 : d6 = v \div 64 /\ Halved(d5, d6, r5)
  <2>1. v \div 64 = (v \div 32) \div 2 /\ v \div 32 \in Nat
    BY SMT
  <2> QED
    BY <1>1, <1>7, <2>1, Zenon
<1>9. PICK d7, r6 : d7 = v \div 128 /\ Halved(d6, d7, r6)
  <2>1. v \div 128 = (v \div 64) \div 2 /\ v \div 64 \in Nat
    BY SMT
  <2> QED
    BY <1>1, <1>8, <2>1, Zenon
<1>10. PICK d8, r7 : d8 = d7 \div 2 /\ Halved(d7, d8, r7)
  BY <1>1, <1>9 DEF Halved
<1>11. d8 = 0
  <2>1. v \div 128 \in {0, 1}
    BY SMT
  <2> QED
    BY <1>9, <1>10, <2>1, SMT
<1>12. /\ d0 = 2 * d1 + r0 /\ d1 = 2 * d2 + r1 /\ d2 = 2 * d3 + r2 /\ d3 = 2 * d4 + r3
       /\ d4 = 2 * d5 + r4 /\ d5 = 2 * d6 + r5 /\ d6 = 2 * d7 + r6 /\ d7 = 2 * d8 + r7
  BY <1>3, <1>4, <1>5, <1>6, <1>7, <1>8, <1>9, <1>10, SMT DEF Halved
<1>13. /\ r0 \in {0, 1} /\ r1 \in {0, 1} /\ r2 \in {0, 1} /\ r3 \in {0, 1}
       /\ r4 \in {0, 1} /\ r5 \in {0, 1} /\ r6 \in {0, 1} /\ r7 \in {0, 1}
  BY <1>3, <1>4, <1>5, <1>6, <1>7, <1>8, <1>9, <1>10, SMT DEF Halved
<1>14. /\ 0 \in c <=> r0 = 1
       /\ 1 \in c <=> r1 = 1
       /\ 2 \in c <=> r2 = 1
       /\ 3 \in c <=> r3 = 1
  BY <1>2, <1>3, <1>4, <1>5, <1>6, SMT DEF Spells, Is, Halved
<1>15. /\ 4 \in c <=> r4 = 1
       /\ 5 \in c <=> r5 = 1
       /\ 6 \in c <=> r6 = 1
       /\ 7 \in c <=> r7 = 1
  BY <1>6, <1>7, <1>8, <1>9, <1>10, SMT DEF Spells, Is, Halved
<1>16. /\ Bit(c, 0, 1) = r0 /\ Bit(c, 1, 2) = 2 * r1 /\ Bit(c, 2, 4) = 4 * r2
       /\ Bit(c, 3, 8) = 8 * r3
  BY <1>13, <1>14, SMT DEF Bit
<1>17. /\ Bit(c, 4, 16) = 16 * r4 /\ Bit(c, 5, 32) = 32 * r5 /\ Bit(c, 6, 64) = 64 * r6
       /\ Bit(c, 7, 128) = 128 * r7
  BY <1>13, <1>15, SMT DEF Bit
<1>18. ByteValue(c) = r0 + 2 * r1 + 4 * r2 + 8 * r3 + 16 * r4 + 32 * r5 + 64 * r6 + 128 * r7
  BY <1>16, <1>17, ByteValueIs
<1>19. d1 \in Int /\ d2 \in Int /\ d3 \in Int /\ d4 \in Int /\ d5 \in Int /\ d6 \in Int /\ d7 \in Int
  BY <1>3, <1>4, <1>5, <1>6, <1>7, <1>8, <1>9, SMT DEF Halved
<1> QED
  BY <1>2, <1>11, <1>12, <1>13, <1>18, <1>19, SMT

LEMMA HighPowers ==
  /\ 2^8 = 256 /\ 2^9 = 512 /\ 2^10 = 1024 /\ 2^11 = 2048
  /\ 2^12 = 4096 /\ 2^13 = 8192 /\ 2^14 = 16384 /\ 2^15 = 32768
BY Powers, PowersOfTwo

LEMMA BitOfWord ==
  ASSUME NEW v, NEW b \in 0 .. 15, NEW p, 2^b = p
  PROVE  b \in Bits(v, 16) <=> (v \div p) % 2 = 1
<1>1. b \in Bits(v, 16) <=> (v \div 2^b) % 2 = 1
  BY DEF Bits
<1> QED
  BY <1>1, Zenon

(* The bytes of a word, and of a number of two bytes.                      *)
LEMMA BitsOfBytes ==
  ASSUME NEW w
  PROVE  /\ 0 \in LowByte(w) <=> 0 \in w
         /\ 1 \in LowByte(w) <=> 1 \in w
         /\ 2 \in LowByte(w) <=> 2 \in w
         /\ 3 \in LowByte(w) <=> 3 \in w
         /\ 4 \in LowByte(w) <=> 4 \in w
         /\ 5 \in LowByte(w) <=> 5 \in w
         /\ 6 \in LowByte(w) <=> 6 \in w
         /\ 7 \in LowByte(w) <=> 7 \in w
         /\ 0 \in HighByte(w) <=> 8 \in w
         /\ 1 \in HighByte(w) <=> 9 \in w
         /\ 2 \in HighByte(w) <=> 10 \in w
         /\ 3 \in HighByte(w) <=> 11 \in w
         /\ 4 \in HighByte(w) <=> 12 \in w
         /\ 5 \in HighByte(w) <=> 13 \in w
         /\ 6 \in HighByte(w) <=> 14 \in w
         /\ 7 \in HighByte(w) <=> 15 \in w
BY SMT DEF LowByte, HighByte, AllOnes

LEMMA HighBits == ASSUME NEW v \in Int PROVE Spells(HighByte(Bits(v, 16)), v \div 256)
<1>1. /\ 8 \in Bits(v, 16) <=> (v \div 256) % 2 = 1
      /\ 9 \in Bits(v, 16) <=> (v \div 512) % 2 = 1
      /\ 10 \in Bits(v, 16) <=> (v \div 1024) % 2 = 1
      /\ 11 \in Bits(v, 16) <=> (v \div 2048) % 2 = 1
  BY BitOfWord, HighPowers, SMT
<1>2. /\ 12 \in Bits(v, 16) <=> (v \div 4096) % 2 = 1
      /\ 13 \in Bits(v, 16) <=> (v \div 8192) % 2 = 1
      /\ 14 \in Bits(v, 16) <=> (v \div 16384) % 2 = 1
      /\ 15 \in Bits(v, 16) <=> (v \div 32768) % 2 = 1
  BY BitOfWord, HighPowers, SMT
<1>3. /\ v \div 256 = (v \div 256) \div 1    /\ v \div 512 = (v \div 256) \div 2
      /\ v \div 1024 = (v \div 256) \div 4   /\ v \div 2048 = (v \div 256) \div 8
  BY SMT
<1>4. /\ v \div 4096 = (v \div 256) \div 16  /\ v \div 8192 = (v \div 256) \div 32
      /\ v \div 16384 = (v \div 256) \div 64 /\ v \div 32768 = (v \div 256) \div 128
  BY SMT
<1> QED
  BY <1>1, <1>2, <1>3, <1>4, BitsOfBytes, SMT DEF Spells, Is

LEMMA LowBits ==
  ASSUME NEW h \in Int, NEW l \in 0 .. 255
  PROVE  Spells(LowByte(Bits(256 * h + l, 16)), l)
<1> DEFINE v == 256 * h + l
<1>1. v \div 1 = 256 * h + (l \div 1) /\ l \div 1 \in Int
  BY SMT
<1>2. v \div 2 = 128 * h + (l \div 2) /\ l \div 2 \in Int
  BY SMT
<1>3. v \div 4 = 64 * h + (l \div 4) /\ l \div 4 \in Int
  BY SMT
<1>4. v \div 8 = 32 * h + (l \div 8) /\ l \div 8 \in Int
  BY SMT
<1>5. v \div 16 = 16 * h + (l \div 16) /\ l \div 16 \in Int
  BY SMT
<1>6. v \div 32 = 8 * h + (l \div 32) /\ l \div 32 \in Int
  BY SMT
<1>7. v \div 64 = 4 * h + (l \div 64) /\ l \div 64 \in Int
  BY SMT
<1>8. v \div 128 = 2 * h + (l \div 128) /\ l \div 128 \in Int
  BY SMT
<1>9. \A x \in Int :
        /\ (256 * h + x) % 2 = x % 2 /\ (128 * h + x) % 2 = x % 2 /\ (64 * h + x) % 2 = x % 2
        /\ (32 * h + x) % 2 = x % 2 /\ (16 * h + x) % 2 = x % 2 /\ (8 * h + x) % 2 = x % 2
        /\ (4 * h + x) % 2 = x % 2 /\ (2 * h + x) % 2 = x % 2
  BY SMT
<1> HIDE DEF v
<1>10. /\ (v \div 1) % 2 = (l \div 1) % 2   /\ (v \div 2) % 2 = (l \div 2) % 2
       /\ (v \div 4) % 2 = (l \div 4) % 2   /\ (v \div 8) % 2 = (l \div 8) % 2
       /\ (v \div 16) % 2 = (l \div 16) % 2 /\ (v \div 32) % 2 = (l \div 32) % 2
       /\ (v \div 64) % 2 = (l \div 64) % 2 /\ (v \div 128) % 2 = (l \div 128) % 2
  BY <1>1, <1>2, <1>3, <1>4, <1>5, <1>6, <1>7, <1>8, <1>9, SMT
<1>11. /\ 0 \in Bits(v, 16) <=> (v \div 1) % 2 = 1
       /\ 1 \in Bits(v, 16) <=> (v \div 2) % 2 = 1
       /\ 2 \in Bits(v, 16) <=> (v \div 4) % 2 = 1
       /\ 3 \in Bits(v, 16) <=> (v \div 8) % 2 = 1
  BY BitOfWord, Powers, SMT
<1>12. /\ 4 \in Bits(v, 16) <=> (v \div 16) % 2 = 1
       /\ 5 \in Bits(v, 16) <=> (v \div 32) % 2 = 1
       /\ 6 \in Bits(v, 16) <=> (v \div 64) % 2 = 1
       /\ 7 \in Bits(v, 16) <=> (v \div 128) % 2 = 1
  BY BitOfWord, Powers, SMT
<1>13. Spells(LowByte(Bits(v, 16)), l)
  BY <1>10, <1>11, <1>12, BitsOfBytes, SMT DEF Spells, Is
<1> QED
  BY <1>13 DEF v

LEMMA BytesOfSample ==
  ASSUME NEW v \in 0 .. FullScale
  PROVE  v \in Int /\ v \div 256 \in 0 .. 255 /\ v % 256 \in 0 .. 255
<1>1. v \in Int /\ 0 <= v /\ v < 256 * 256
  BY SMT DEF FullScale
<1>2. \A n \in Int : n \div 256 \in Int /\ n % 256 \in 0 .. 255 /\ n = 256 * (n \div 256) + (n % 256)
  BY SMT
<1>3. \A q \in Int, r \in 0 .. 255 : 0 <= 256 * q + r /\ 256 * q + r < 256 * 256 => q \in 0 .. 255
  BY SMT
<1> QED
  BY <1>1, <1>2, <1>3, SMT

(* What the driver makes of an undamaged answer is what the sensor sent.   *)
LEMMA SampleReadBack == ASSUME NEW v \in 0 .. FullScale PROVE SampleOf(Bits(v, 16)) = v
<1> DEFINE h == v \div 256
           l == v % 256
           w == Bits(v, 16)
<1>1. v \in Int /\ h \in 0 .. 255 /\ l \in 0 .. 255
  BY BytesOfSample
<1>2. v = 256 * h + l
  BY <1>1, SMT
<1>3. Spells(HighByte(w), h)
  BY <1>1, HighBits
<1>4. Spells(LowByte(w), l)
  <2>1. h \in Int
    BY <1>1
  <2> HIDE DEF h, l
  <2>2. Spells(LowByte(Bits(256 * h + l, 16)), l)
    BY <1>1, <2>1, LowBits
  <2> QED
    BY <1>2, <2>2, Zenon
<1> HIDE DEF h, l
<1>5. ByteValue(HighByte(w)) = h /\ ByteValue(LowByte(w)) = l
  BY <1>1, <1>3, <1>4, ByteReadBack
<1> HIDE DEF w
<1>6. SampleOf(w) = 256 * h + l
  BY <1>5, Zenon DEF SampleOf
<1> QED
  BY <1>2, <1>6, Zenon DEF w

LEMMA NothingFlipped == \A s : Damaged(Protected(s), {}).word = Bits(s, 16)
<1>1. {b \in {} : b < 16} = {}
  OBVIOUS
<1> QED
  BY <1>1, XorCancels DEF Damaged, Protected

(* app_sht30d_fetch_raw with at most three bits flipped in a word and its  *)
(* checksum: what it takes is what the sensor sent.                        *)
THEOREM FewFlipsAreSeen ==
  ASSUME NEW s \in 0 .. FullScale, NEW flips,
         \A F \in flips : F \in SUBSET (0 .. 23) /\ Cardinality(F) <= 3
  PROVE  Misread(s, flips) \subseteq {s}
<1> SUFFICES ASSUME NEW F \in flips, Accepted(Damaged(Protected(s), F))
             PROVE  SampleOf(Damaged(Protected(s), F).word) = s
  BY DEF Misread
<1>1. F \in SUBSET (0 .. 23) /\ Cardinality(F) <= 3
  OBVIOUS
<1>2. Whole(F) = {}
  BY <1>1, AcceptedWhole, Zenon
<1>3. F = {}
  BY <1>1, <1>2, ChecksumDetects, Zenon
<1>4. Damaged(Protected(s), F).word = Bits(s, 16)
  BY <1>3, NothingFlipped, Zenon
<1> QED
  BY <1>4, SampleReadBack, Zenon

-----------------------------------------------------------------------------
(* Damages of more bits: an odd number of them, or a burst of neighbours *)

Parity(n) ==
  \A F \in SUBSET (0 .. 23) : Cardinality(F) = n => (Odd(Whole(F)) <=> n % 2 = 1)

LEMMA ParityStep == ASSUME NEW n \in Nat, Parity(n) PROVE Parity(n + 1)
<1> SUFFICES ASSUME NEW F \in SUBSET (0 .. 23), Cardinality(F) = n + 1
             PROVE  Odd(Whole(F)) <=> (n + 1) % 2 = 1
  BY DEF Parity
<1>1. PICK x : x \in F
  <2>1. F # {}
    BY FS_EmptySet
  <2> QED
    BY <2>1
<1>2. PICK G : G = F \ {x}
  OBVIOUS
<1>3. /\ G \in SUBSET (0 .. 23) /\ Cardinality(G) \in Nat
      /\ Cardinality(F) = Cardinality(G) + 1 /\ Whole(F) = Xor(Column(x), Whole(G))
  BY <1>1, <1>2, OneLess, Zenon
<1>4. Cardinality(G) = n
  BY <1>3
<1>5. Odd(Whole(G)) <=> n % 2 = 1
  BY <1>3, <1>4 DEF Parity
<1>6. Odd(Column(x))
  BY <1>1, Columns
<1>7. Odd(Whole(F)) <=> ~Odd(Whole(G))
  BY <1>3, <1>6, OddXor, Zenon
<1>8. (n + 1) % 2 = 1 <=> ~(n % 2 = 1)
  BY SMT
<1> QED
  BY <1>5, <1>7, <1>8

LEMMA ParityOfWhole == \A n \in 0 .. 24 : Parity(n)
<1>1. Parity(0)
  <2> SUFFICES ASSUME NEW F \in SUBSET (0 .. 23), Cardinality(F) = 0
               PROVE  ~Odd(Whole(F))
    BY DEF Parity
  <2>1. F = {}
    BY BitsFinite, FS_EmptySet
  <2>2. Whole(Xor({}, {})) = Xor(Whole({}), Whole({}))
    BY WholeLinear
  <2> QED
    BY <2>1, <2>2, XorCancels, OddXor
<1>2. \A n \in Nat : Parity(n) => Parity(n + 1)
  BY ParityStep
<1> HIDE DEF Parity
<1>3. Parity(1) /\ Parity(2) /\ Parity(3) /\ Parity(4) /\ Parity(5) /\ Parity(6)
  BY <1>1, <1>2
<1>4. Parity(7) /\ Parity(8) /\ Parity(9) /\ Parity(10) /\ Parity(11) /\ Parity(12)
  BY <1>2, <1>3
<1>5. Parity(13) /\ Parity(14) /\ Parity(15) /\ Parity(16) /\ Parity(17) /\ Parity(18)
  BY <1>2, <1>4
<1>6. Parity(19) /\ Parity(20) /\ Parity(21) /\ Parity(22) /\ Parity(23) /\ Parity(24)
  BY <1>2, <1>5
<1> QED
  BY <1>1, <1>3, <1>4, <1>5, <1>6

(* sht3xd_compute_crc: an answer in which any odd number of the 24 bits of *)
(* a word and its checksum is flipped is never accepted.                   *)
THEOREM OddDamageIsSeen ==
  ASSUME NEW s, NEW F \in SUBSET (0 .. 23), Cardinality(F) % 2 = 1
  PROVE  ~Accepted(Damaged(Protected(s), F))
<1>1. Cardinality(F) \in 0 .. 24
  <2>1. IsFiniteSet(0 .. 23) /\ Cardinality(0 .. 23) = 24
    <3>1. 0 \in Int /\ 23 \in Int
      OBVIOUS
    <3>2. IsFiniteSet(0 .. 23) /\ Cardinality(0 .. 23) = IF 0 > 23 THEN 0 ELSE 23 - 0 + 1
      BY <3>1, FS_Interval, Zenon
    <3> QED
      BY <3>2
  <2>2. Cardinality(F) <= Cardinality(0 .. 23)
    BY <2>1, FS_Subset
  <2>3. Cardinality(F) \in Nat
    BY BitsFinite, FS_CardinalityType
  <2> QED
    BY <2>1, <2>2, <2>3
<1>2. Odd(Whole(F))
  BY <1>1, ParityOfWhole DEF Parity
<1>3. Whole(F) # {}
  BY <1>2, OddXor
<1> QED
  BY <1>3, AcceptedWhole

(* The bits of an answer by the distance to the one that is sent last, and *)
(* the damage that c, a set of distances from q on, stands for.            *)
ToEnd(b) == IF b < 16 THEN b + 8 ELSE b - 16
Place(q, c) == {b \in 0 .. 23 : ToEnd(b) - q \in c}

LEMMA PlaceOne ==
  ASSUME NEW q \in 0 .. 16, NEW i \in 0 .. 7
  PROVE  Whole(Place(q, {i})) = Chain[q + i + 1]
<1> DEFINE b == IF q + i < 8 THEN q + i + 16 ELSE q + i - 8
<1>1. b \in 0 .. 23 /\ ToEnd(b) = q + i
  BY DEF ToEnd
<1>2. \A d \in 0 .. 23 : ToEnd(d) = q + i => d = b
  BY DEF ToEnd
<1>3. Place(q, {i}) = {b}
  <2>1. \A d \in 0 .. 23 : ToEnd(d) - q = i <=> d = b
    <3>1. \A d \in 0 .. 23 : ToEnd(d) \in Int
      BY DEF ToEnd
    <3> HIDE DEF b
    <3> QED
      BY <1>1, <1>2, <3>1
  <2> HIDE DEF b
  <2> QED
    BY <1>1, <2>1 DEF Place
<1>4. Column(b) = Chain[q + i + 1]
  BY DEF Column
<1> HIDE DEF b
<1> QED
  BY <1>1, <1>3, <1>4, WholeOfOne

LEMMA PlaceXor ==
  ASSUME NEW q, NEW c, NEW d
  PROVE  Whole(Place(q, Xor(c, d))) = Xor(Whole(Place(q, c)), Whole(Place(q, d)))
<1>1. Place(q, Xor(c, d)) = Xor(Place(q, c), Place(q, d))
  BY DEF Place, Xor
<1>2. Place(q, c) \in SUBSET (0 .. 23) /\ Place(q, d) \in SUBSET (0 .. 23)
  BY DEF Place
<1> QED
  BY <1>1, <1>2, WholeLinear

(* Two functions of bytes that add up and agree on single bits agree.      *)
AddsUp(f) == \A c, d \in Byte : f[Xor(c, d)] = Xor(f[c], f[d])

LEMMA Agree ==
  ASSUME NEW f, NEW g, AddsUp(f), AddsUp(g), \A i \in 0 .. 7 : f[{i}] = g[{i}]
  PROVE  \A c \in Byte : f[c] = g[c]
<1> SUFFICES ASSUME NEW c \in Byte PROVE f[c] = g[c]
  OBVIOUS
<1> DEFINE Low(k) == {i \in c : i < k}
           Same(k) == f[Low(k)] = g[Low(k)]
<1>0. \A i \in c : i \in Int /\ 0 <= i /\ i < 8
  BY DEF Byte, AllOnes
<1>1. \A k \in 0 .. 8 : Low(k) \in Byte
  BY DEF Byte
<1>2. \A i \in 0 .. 7 : {i} \in Byte
  BY DEF Byte, AllOnes
<1>3. ASSUME NEW k \in 0 .. 7, Same(k) PROVE Same(k + 1)
  <2>1. CASE k \in c
    <3>1. Low(k + 1) = Xor({k}, Low(k))
      <4>1. \A i \in c : i < k + 1 <=> i = k \/ i < k
        BY <1>0
      <4>2. ~(k < k)
        OBVIOUS
      <4> QED
        BY <2>1, <4>1, <4>2 DEF Xor
    <3>2. Low(k) \in Byte /\ {k} \in Byte
      <4>1. k \in 0 .. 8
        OBVIOUS
      <4> HIDE DEF Low
      <4> QED
        BY <1>1, <1>2, <4>1
    <3> HIDE DEF Low
    <3>3. /\ f[Low(k + 1)] = Xor(f[{k}], f[Low(k)])
          /\ g[Low(k + 1)] = Xor(g[{k}], g[Low(k)])
      BY <3>1, <3>2 DEF AddsUp
    <3>4. f[{k}] = g[{k}]
      OBVIOUS
    <3> QED
      BY <1>3, <3>3, <3>4
  <2>2. CASE k \notin c
    <3>1. Low(k + 1) = Low(k)
      <4>1. \A i \in c : i < k + 1 <=> i < k
        BY <1>0, <2>2
      <4> QED
        BY <4>1
    <3> QED
      BY <1>3, <3>1
  <2> QED
    BY <2>1, <2>2
<1>4. Same(0)
  <2>1. Low(0) = {} /\ {} \in Byte
    <3>1. \A i \in c : ~(i < 0)
      BY <1>0
    <3> QED
      BY <3>1 DEF Byte
  <2>2. f[{}] = {} /\ g[{}] = {}
    BY <2>1, XorCancels DEF AddsUp
  <2> QED
    BY <2>1, <2>2
<1>5. Low(8) = c
  BY <1>0
<1> HIDE DEF Same, Low
<1>6. Same(1) /\ Same(2) /\ Same(3) /\ Same(4) /\ Same(5) /\ Same(6) /\ Same(7) /\ Same(8)
  BY <1>3, <1>4
<1> QED
  BY <1>5, <1>6 DEF Same

LEMMA WholeType == ASSUME NEW F \in SUBSET (0 .. 23) PROVE Whole(F) \in Byte
<1>1. Syndrome(InWord(F)) \in Byte
  BY CrcLinear
<1>2. InSum(F) \in Byte
  BY DEF InSum, Byte, AllOnes
<1> QED
  BY <1>1, <1>2, XorInByte DEF Whole

(* A damage one place further from the end leaves what one more round of   *)
(* the checksum makes of it.                                               *)
LEMMA OneFurther ==
  ASSUME NEW q \in 0 .. 15, NEW c \in Byte
  PROVE  Whole(Place(q + 1, c)) = CrcStep(Whole(Place(q, c)))
<1> DEFINE f == [d \in Byte |-> Whole(Place(q + 1, d))]
           g == [d \in Byte |-> CrcStep(Whole(Place(q, d)))]
<1>1. AddsUp(f)
  <2>1. \A d, e \in Byte : Whole(Place(q + 1, Xor(d, e)))
                            = Xor(Whole(Place(q + 1, d)), Whole(Place(q + 1, e)))
    BY PlaceXor
  <2> QED
    BY <2>1, XorInByte DEF AddsUp
<1>2. AddsUp(g)
  <2>1. \A d \in Byte : Whole(Place(q, d)) \in Byte
    BY WholeType DEF Place
  <2>2. \A d, e \in Byte : CrcStep(Xor(Whole(Place(q, d)), Whole(Place(q, e))))
                            = Xor(CrcStep(Whole(Place(q, d))), CrcStep(Whole(Place(q, e))))
    BY <2>1, StepLinear
  <2>3. \A d, e \in Byte : Whole(Place(q, Xor(d, e)))
                            = Xor(Whole(Place(q, d)), Whole(Place(q, e)))
    BY PlaceXor
  <2> QED
    BY <2>2, <2>3, XorInByte DEF AddsUp
<1>3. ASSUME NEW i \in 0 .. 7 PROVE f[{i}] = g[{i}]
  <2>1. {i} \in Byte
    BY DEF Byte, AllOnes
  <2>2. Whole(Place(q, {i})) = Chain[q + i + 1]
    BY PlaceOne
  <2>3. Whole(Place(q + 1, {i})) = Chain[q + i + 2]
    <3>1. Whole(Place(q + 1, {i})) = Chain[(q + 1) + i + 1]
      <4>1. q + 1 \in 0 .. 16
        OBVIOUS
      <4> QED
        BY <4>1, PlaceOne
    <3>2. (q + 1) + i + 1 = q + i + 2
      OBVIOUS
    <3> QED
      BY <3>1, <3>2
  <2>4. Chain[q + i + 2] = CrcStep(Chain[q + i + 1])
    <3>1. q + i + 1 \in 1 .. 23 /\ (q + i + 1) + 1 = q + i + 2
      OBVIOUS
    <3> QED
      BY <3>1, ChainSteps
  <2> QED
    BY <2>1, <2>2, <2>3, <2>4
<1> HIDE DEF f, g
<1>4. f[c] = g[c]
  BY <1>1, <1>2, <1>3, Agree
<1> QED
  BY <1>4 DEF f, g

LEMMA AtTheEnd == ASSUME NEW c \in Byte PROVE Whole(Place(0, c)) = c
<1> DEFINE f == [d \in Byte |-> Whole(Place(0, d))]
           g == [d \in Byte |-> d]
<1>1. AddsUp(f)
  <2>1. \A d, e \in Byte : Whole(Place(0, Xor(d, e))) = Xor(Whole(Place(0, d)), Whole(Place(0, e)))
    BY PlaceXor
  <2> QED
    BY <2>1, XorInByte DEF AddsUp
<1>2. AddsUp(g)
  BY XorInByte DEF AddsUp
<1>3. ASSUME NEW i \in 0 .. 7 PROVE f[{i}] = g[{i}]
  <2>1. {i} \in Byte
    BY DEF Byte, AllOnes
  <2>2. Whole(Place(0, {i})) = Chain[0 + i + 1]
    BY PlaceOne
  <2>3. Chain[0 + i + 1] = {i}
    BY Units
  <2> QED
    BY <2>1, <2>2, <2>3
<1> HIDE DEF f, g
<1>4. f[c] = g[c]
  BY <1>1, <1>2, <1>3, Agree
<1> QED
  BY <1>4 DEF f, g

(* A round of the checksum loses nothing: 0 is what only 0 becomes.        *)
LEMMA StepKeeps == ASSUME NEW c \in Byte, CrcStep(c) = {} PROVE c = {}
<1>1. 7 \notin c
  <2>1. SUFFICES ASSUME 7 \in c PROVE FALSE
    OBVIOUS
  <2>2. 0 \in Xor(ShiftLeft(c), {0, 4, 5})
    BY DEF Xor, ShiftLeft, Byte, AllOnes
  <2> QED
    BY <2>1, <2>2, PolynomIs DEF CrcStep
<1>2. ShiftLeft(c) = {}
  BY <1>1 DEF CrcStep
<1> QED
  BY <1>1, <1>2 DEF ShiftLeft

LEMMA BurstLeaves ==
  \A q \in 0 .. 16 : \A c \in Byte : Whole(Place(q, c)) = {} => c = {}
<1> DEFINE Seen(q) == \A c \in Byte : Whole(Place(q, c)) = {} => c = {}
<1>1. Seen(0)
  BY AtTheEnd
<1>2. ASSUME NEW q \in 0 .. 15, Seen(q) PROVE Seen(q + 1)
  <2> SUFFICES ASSUME NEW c \in Byte, Whole(Place(q + 1, c)) = {} PROVE c = {}
    OBVIOUS
  <2>1. CrcStep(Whole(Place(q, c))) = {}
    BY OneFurther
  <2>2. Whole(Place(q, c)) \in Byte
    BY WholeType DEF Place
  <2>3. Whole(Place(q, c)) = {}
    BY <2>1, <2>2, StepKeeps
  <2> QED
    BY <1>2, <2>3
<1> HIDE DEF Seen
<1>3. Seen(1) /\ Seen(2) /\ Seen(3) /\ Seen(4) /\ Seen(5) /\ Seen(6) /\ Seen(7) /\ Seen(8)
  BY <1>1, <1>2
<1>4. /\ Seen(9) /\ Seen(10) /\ Seen(11) /\ Seen(12)
      /\ Seen(13) /\ Seen(14) /\ Seen(15) /\ Seen(16)
  BY <1>2, <1>3
<1>5. \A q \in 0 .. 16 : Seen(q)
  BY <1>1, <1>3, <1>4
<1> QED
  BY <1>5 DEF Seen

(* sht3xd_compute_crc: an answer disturbed within eight data bits sent one  *)
(* after another, however many of them are wrong, is never accepted.       *)
THEOREM BurstIsSeen ==
  ASSUME NEW s, NEW F \in SUBSET (0 .. 23), F # {},
         NEW q \in 0 .. 16, \A b \in F : ToEnd(b) \in q .. q + 7
  PROVE  ~Accepted(Damaged(Protected(s), F))
<1> DEFINE c == {ToEnd(b) - q : b \in F}
<1>1. c \in Byte /\ c # {}
  <2>1. \A b \in F : ToEnd(b) - q \in 0 .. 7
    OBVIOUS
  <2> QED
    BY <2>1 DEF Byte, AllOnes
<1>2. Place(q, c) = F
  <2>1. \A a, b \in 0 .. 23 : ToEnd(a) - q = ToEnd(b) - q => a = b
    BY DEF ToEnd
  <2> QED
    BY <2>1 DEF Place
<1> HIDE DEF c
<1>3. Whole(F) # {}
  BY <1>1, <1>2, BurstLeaves
<1> QED
  BY <1>3, AcceptedWhole

-----------------------------------------------------------------------------
(* Outcomes: with at most three bits flipped, nothing but the sample       *)
(* itself is taken from an answer.                                         *)
LEMMA OutcomesAreSamples ==
  ASSUME MaxFlips <= 3, NEW a \in Air
  PROVE  Outcomes[a[1]] \subseteq {a[1]} /\ Outcomes[a[2]] \subseteq {a[2]}
<1>1. \A F \in Flips : F \in SUBSET (0 .. 23) /\ Cardinality(F) <= 3
  <2> SUFFICES ASSUME NEW n \in 0 .. MaxFlips, NEW F \in kSubset(n, 0 .. 23)
               PROVE  F \in SUBSET (0 .. 23) /\ Cardinality(F) <= 3
    BY DEF Flips
  <2>1. n <= 3
    BY TbSensorAssumption
  <2> QED
    BY <2>1 DEF kSubset
<1>2. a[1] \in 0 .. FullScale /\ a[2] \in 0 .. FullScale
  BY TbSensorAssumption
<1>3. Outcomes[a[1]] = Misread(a[1], Flips) /\ Outcomes[a[2]] = Misread(a[2], Flips)
  BY DEF Outcomes
<1> QED
  BY <1>1, <1>2, <1>3, FewFlipsAreSeen

(* What is fetched is what was latched, and nothing counts as fetched      *)
(* while the sensor measures.                                              *)
FetchedInv == OnlyMeasured /\ (Measuring => fetched # "ok")

LEMMA FetchedStep == MaxFlips <= 3 /\ FetchedInv /\ [Next]_vars => FetchedInv'
<1> SUFFICES ASSUME MaxFlips <= 3, FetchedInv, [Next]_vars PROVE FetchedInv'
  OBVIOUS
<1> USE DEF FetchedInv, OnlyMeasured, Measuring
<1>1. CASE Timer                      BY <1>1 DEF Timer, sensor
<1>2. CASE Wake                       BY <1>2 DEF Wake
<1>3. CASE Command                    BY <1>3 DEF Command
<1>4. CASE NoData                     BY <1>4 DEF NoData
<1>5. CASE ReadAnswerAny
  <2>0. PICK a \in Air :
          latched = a /\ \E t \in Outcomes[a[1]], h \in Outcomes[a[2]] : ReadAnswer(<<t, h>>)
    BY <1>5 DEF ReadAnswerAny
  <2>1. PICK t \in Outcomes[a[1]], h \in Outcomes[a[2]] : ReadAnswer(<<t, h>>)
    BY <2>0
  <2>2. t = a[1] /\ h = a[2]
    BY OutcomesAreSamples
  <2>3. a = <<a[1], a[2]>>
    BY TbSensorAssumption
  <2>4. sampled' = latched' /\ stage' \in {"idle", "open"}
    BY <2>0, <2>1, <2>2, <2>3 DEF ReadAnswer, Compare
  <2> QED
    BY <2>4
<1>6. CASE Open                       BY <1>6 DEF Open, sensor
<1>7. CASE Send                       BY <1>7 DEF Send, sensor
<1>8. CASE Exit                       BY <1>8 DEF Exit, sensor
<1>9. CASE \E i \in DOMAIN flight : Deliver(i) \/ Lose(i)
  BY <1>9 DEF Deliver, Lose, sensor
<1>10. CASE \E a \in Air : Weather(a)  BY <1>10 DEF Weather, sensor
<1>11. CASE RoleChange                BY <1>11 DEF RoleChange, sensor
<1>12. CASE Reset                     BY <1>12 DEF Reset
<1>13. CASE UNCHANGED vars            BY <1>13 DEF vars, sensor
<1> QED
  BY <1>1, <1>2, <1>3, <1>4, <1>5, <1>6, <1>7, <1>8, <1>9, <1>10, <1>11, <1>12, <1>13 DEF Next

(* app_sht30d_fetch: as long as at most three of the 24 bits of a word and *)
(* its checksum are flipped, what the driver accepts is what the sensor    *)
(* measured, for every air.                                                *)
THEOREM TbOnlyMeasured == MaxFlips <= 3 => (Spec => []OnlyMeasured)
<1> SUFFICES ASSUME MaxFlips <= 3 PROVE Spec => []OnlyMeasured
  OBVIOUS
<1>1. Init => FetchedInv
  BY DEF Init, FetchedInv, OnlyMeasured, Measuring
<1>2. FetchedInv /\ [Next]_vars => FetchedInv'
  BY FetchedStep
<1>3. FetchedInv => OnlyMeasured
  BY DEF FetchedInv
<1> QED
  BY <1>1, <1>2, <1>3, PTL DEF Spec

-----------------------------------------------------------------------------
LEMMA FullScaleIsNat == FullScale \in Nat /\ 0 < FullScale
BY SMT DEF FullScale

LEMMA SampleIsNear == ASSUME NEW a \in Air PROVE Near(Reading(a), Reading(a))
<1>1. a[1] \in 0 .. FullScale /\ a[2] \in 0 .. FullScale
  BY TbSensorAssumption, FullScaleIsNat
<1>2. Reading(a).t \in Int /\ Reading(a).h \in Int
  <2>1. Temperature(a[1]) \in Int /\ Humidity(a[2]) \in Int
    BY <1>1, FullScaleIsNat DEF Temperature, Humidity
  <2> QED
    BY <2>1 DEF Reading
<1> DEFINE r == Reading(a)
<1>3. r.t - r.t = 0 /\ r.h - r.h = 0 /\ ~(r.t > r.t) /\ ~(r.h > r.h) /\ 10 * 0 = 0
  BY <1>2
<1> QED
  BY <1>3, FullScaleIsNat DEF Near

LEMMA ReadingType == \A r \in Readings \cup {Zero} : r.t \in Int /\ r.h \in Int
<1>1. ASSUME NEW a \in Air PROVE Reading(a).t \in Int /\ Reading(a).h \in Int
  <2>1. a[1] \in 0 .. FullScale /\ a[2] \in 0 .. FullScale
    BY TbSensorAssumption, FullScaleIsNat
  <2>2. Temperature(a[1]) \in Int /\ Humidity(a[2]) \in Int
    BY <2>1, FullScaleIsNat DEF Temperature, Humidity
  <2> QED
    BY <2>2 DEF Reading
<1> QED
  BY <1>1 DEF Readings, Zero

(* What printing adds: at most half a tenth, either way.                    *)
LEMMA TenthsNear ==
  ASSUME NEW v \in Int
  PROVE  /\ 2 * FullScale * Tenths(v) \in Int
         /\ 2 * FullScale * Tenths(v) - 20 * v <= FullScale
         /\ 20 * v - 2 * FullScale * Tenths(v) < FullScale
<1> DEFINE d == 2 * FullScale
           n == 20 * v + FullScale
<1>1. d \in Nat /\ 0 < d /\ n \in Int
  BY FullScaleIsNat
<1>2. \A m \in Int, k \in Nat : 0 < k => /\ m \div k \in Int
                                        /\ k * (m \div k) <= m /\ m < k * (m \div k) + k
  BY Z3
<1>3. n \div d \in Int /\ d * (n \div d) <= n /\ n < d * (n \div d) + d
  BY <1>1, <1>2
<1>4. Tenths(v) = n \div d
  BY DEF Tenths
<1> DEFINE p == d * (n \div d)
<1>5. p \in Int /\ p <= n /\ n < p + d /\ p = 2 * FullScale * Tenths(v)
  BY <1>1, <1>3, <1>4
<1> HIDE DEF p
<1> QED
  BY <1>5, FullScaleIsNat

(* A tenth between the values and half a tenth of printing. *)
LEMMA NearThenClose ==
  ASSUME NEW a, NEW b, a.t \in Int, a.h \in Int, b.t \in Int, b.h \in Int, Near(a, b)
  PROVE  Close(Payload(a), b)
<1> DEFINE pt == 2 * FullScale * Tenths(a.t)
           ph == 2 * FullScale * Tenths(a.h)
<1>1. /\ pt \in Int /\ pt - 20 * a.t <= FullScale /\ 20 * a.t - pt < FullScale
      /\ ph \in Int /\ ph - 20 * a.h <= FullScale /\ 20 * a.h - ph < FullScale
  BY TenthsNear
<1>2. /\ 10 * (a.t - b.t) < FullScale /\ 10 * (b.t - a.t) < FullScale
      /\ 10 * (a.h - b.h) < FullScale /\ 10 * (b.h - a.h) < FullScale
  BY FullScaleIsNat DEF Near
<1>3. 2 * FullScale * Payload(a).t = pt /\ 2 * FullScale * Payload(a).h = ph
  BY DEF Payload
<1> HIDE DEF pt, ph
<1>4. /\ pt - 20 * b.t < 3 * FullScale /\ 20 * b.t - pt < 3 * FullScale
      /\ ph - 20 * b.h < 3 * FullScale /\ 20 * b.h - ph < 3 * FullScale
  BY <1>1, <1>2, FullScaleIsNat
<1> QED
  BY <1>1, <1>3, <1>4 DEF Close

(* What matters of a sample that is read: it is compared with pre.         *)
LEMMA ReadStep ==
  ASSUME NearInv, OnlyMeasured', NEW s, ReadAnswer(s)
  PROVE  NearInv'
<1>1. /\ stage = "measure" /\ sampled' = s /\ fetched' = "ok" /\ latched' = latched
      /\ air' = air /\ server' = server
  BY DEF ReadAnswer
<1>2. air' \in Air /\ latched' \in Air \cup {Nothing} /\ latched' # Nothing
  BY <1>1 DEF NearInv
<1>5. Reading(s) \in Readings
  BY <1>1, <1>2 DEF OnlyMeasured, Readings
<1>3. CASE Near(pre, Reading(s))
  <2>1. stage' = "idle" /\ pre' = pre /\ missed' = missed
    BY <1>3 DEF ReadAnswer, Compare
  <2> QED
    BY <1>1, <1>2, <1>3, <2>1 DEF NearInv, Measuring
<1>4. CASE ~Near(pre, Reading(s))
  <2>1. stage' = "open" /\ pre' = Reading(s) /\ missed' = TRUE
    BY <1>4 DEF ReadAnswer, Compare
  <2> QED
    BY <1>1, <1>2, <1>5, <2>1 DEF NearInv, Measuring, Idle
<1> QED
  BY <1>3, <1>4

LEMMA NearStep == NearInv /\ OnlyMeasured /\ OnlyMeasured' /\ [Next]_vars => NearInv'
<1> SUFFICES ASSUME NearInv, OnlyMeasured, OnlyMeasured', [Next]_vars PROVE NearInv'
  OBVIOUS
<1>1. CASE Timer
  BY <1>1 DEF Timer, sensor, remote, NearInv, Measuring, Idle
<1>2. CASE Wake
  BY <1>2 DEF Wake, remote, NearInv, Measuring, Idle
<1>3. CASE Command
  <2>1. air \in Air /\ air # Nothing
    BY TbSensorAssumption DEF NearInv
  <2>2. stage = "wake" /\ fetched # "ok" /\ stage' \in {"measure", "idle"}
    BY <1>3 DEF Command, NearInv, Measuring
  <2>3. fetched' # "ok" /\ latched' \in Air \cup {Nothing} /\ air' = air
    BY <1>3, <2>1, <2>2 DEF Command, NearInv
  <2>4. stage' = "measure" => latched' # Nothing
    BY <1>3, <2>1 DEF Command
  <2>5. pre' = pre /\ server' = server /\ missed' = missed
    BY <1>3 DEF Command, remote
  <2> QED
    BY <2>1, <2>2, <2>3, <2>4, <2>5 DEF NearInv, Measuring, Idle
<1>4. CASE NoData
  BY <1>4 DEF NoData, remote, NearInv, Measuring, Idle
<1>5. CASE ReadAnswerAny
  BY <1>5, ReadStep DEF ReadAnswerAny
<1>6. CASE Open
  BY <1>6 DEF Open, sensor, remote, NearInv, Measuring, Idle
<1>7. CASE Send
  BY <1>7 DEF Send, sensor, NearInv, Measuring, Idle
<1>8. CASE Exit
  <2>1. pre = Reading(sampled) /\ fetched = "ok" /\ sampled \in Air
    BY <1>8 DEF Exit, NearInv, OnlyMeasured
  <2>2. Near(pre, Reading(sampled))
    BY <2>1, SampleIsNear
  <2> QED
    BY <1>8, <2>2 DEF Exit, sensor, remote, NearInv, Measuring, Idle
<1>9. CASE \E i \in DOMAIN flight : Deliver(i) \/ Lose(i)
  <2>1. ~missed' => server' = Payload(pre)
    <3>1. PICK i : Deliver(i) \/ Lose(i)
      BY <1>9
    <3>2. CASE Deliver(i)  BY <3>2, Zenon DEF Deliver
    <3>3. CASE Lose(i)     BY <3>3 DEF Lose, NearInv
    <3> QED
      BY <3>1, <3>2, <3>3
  <2>2. UNCHANGED <<air, stage, latched, sampled, fetched, pre>>
    BY <1>9 DEF Deliver, Lose, sensor
  <2> QED
    BY <2>1, <2>2 DEF NearInv, Measuring, Idle
<1>10. CASE \E a \in Air : Weather(a)
  BY <1>10 DEF Weather, sensor, remote, NearInv, Measuring, Idle
<1>11. CASE RoleChange
  BY <1>11 DEF RoleChange, sensor, remote, NearInv, Measuring, Idle
<1>12. CASE Reset
  BY <1>12 DEF Reset, NearInv, Measuring, Idle
<1>13. CASE UNCHANGED vars
  BY <1>13 DEF vars, NearInv, Measuring, Idle
<1> QED
  BY <1>1, <1>2, <1>3, <1>4, <1>5, <1>6, <1>7, <1>8, <1>9, <1>10, <1>11, <1>12, <1>13 DEF Next

(* However many bits an error may flip: the report is right as long as the *)
(* sample is.                                                              *)
LEMMA NearIfMeasured == Spec /\ []OnlyMeasured => []ServerNear
<1>1. Init => NearInv
  BY DEF Init, NearInv, Measuring, Idle
<1>2. NearInv /\ OnlyMeasured => ServerNear
  <2> SUFFICES ASSUME NearInv, OnlyMeasured, Idle, fetched = "ok", ~missed
               PROVE  Close(server, Reading(sampled))
    BY DEF ServerNear
  <2>1. sampled \in Air /\ server = Payload(pre) /\ Near(pre, Reading(sampled))
    BY DEF NearInv, OnlyMeasured
  <2>2. Reading(sampled) \in Readings /\ pre \in Readings \cup {Zero}
    BY <2>1 DEF Readings, NearInv
  <2> QED
    BY <2>1, <2>2, ReadingType, NearThenClose
<1> QED
  BY <1>1, <1>2, NearStep, PTL DEF Spec

(* sensor_work_handler: the values the server has are less than 0.15 from  *)
(* the last measurement, what printing adds included, unless the report    *)
(* was lost or overtaken, for any air and any number of datagrams.         *)
THEOREM TbServerNear == MaxFlips <= 3 => (Spec => []ServerNear)
BY TbOnlyMeasured, NearIfMeasured, PTL

-----------------------------------------------------------------------------
(* A datagram less: what is left are datagrams, and one fewer of them.     *)
LEMMA WithoutOne ==
  ASSUME NEW S, NEW s \in Seq(S), NEW i \in DOMAIN s
  PROVE  Without(s, i) \in Seq(S) /\ Len(Without(s, i)) = Len(s) - 1
<1> DEFINE a == SubSeq(s, 1, i - 1)
           b == SubSeq(s, i + 1, Len(s))
<1>1. i \in Int /\ 1 <= i /\ i <= Len(s) /\ Len(s) \in Nat
  OBVIOUS
<1>2. \A j \in 1 .. Len(s) : s[j] \in S
  OBVIOUS
<1>3. a \in Seq(S) /\ Len(a) = i - 1
  <2>1. /\ SubSeq(s, 1, i - 1) \in Seq(S)
        /\ Len(SubSeq(s, 1, i - 1)) = IF 1 <= i - 1 THEN i - 1 - 1 + 1 ELSE 0
    BY <1>1, <1>2, SubSeqProperties
  <2> QED
    BY <1>1, <2>1
<1>4. b \in Seq(S) /\ Len(b) = Len(s) - i
  <2>1. /\ SubSeq(s, i + 1, Len(s)) \in Seq(S)
        /\ Len(SubSeq(s, i + 1, Len(s)))
             = IF i + 1 <= Len(s) THEN Len(s) - (i + 1) + 1 ELSE 0
    BY <1>1, <1>2, SubSeqProperties
  <2> QED
    BY <1>1, <2>1
<1> HIDE DEF a, b
<1>5. a \o b \in Seq(S) /\ Len(a \o b) = Len(a) + Len(b)
  BY <1>3, <1>4, ConcatProperties
<1>6. Without(s, i) = a \o b
  BY DEF Without, a, b
<1> QED
  BY <1>1, <1>3, <1>4, <1>5, <1>6

(* What a sample that is read leaves: it is one the air gave, because the  *)
(* checksum lets no other through.                                         *)
LEMMA ReadTypes ==
  ASSUME TypeOK, NearInv, OnlyMeasured', NEW s, ReadAnswer(s)
  PROVE  TypeOK'
<1>1. /\ stage = "measure" /\ sampled' = s /\ fetched' = "ok" /\ power' = FALSE
      /\ UNCHANGED <<air, connected, queued, latched, radio, flight, server>>
  BY DEF ReadAnswer
<1>2. latched \in Air /\ s = latched
  BY <1>1 DEF OnlyMeasured, NearInv, TypeOK
<1>3. Reading(s) \in Readings
  BY <1>2 DEF Readings
<1>4. /\ stage' \in {"idle", "open"} /\ pre' \in {pre, Reading(s)}
      /\ missed' \in {missed, TRUE}
  BY DEF ReadAnswer, Compare
<1> QED
  BY <1>1, <1>2, <1>3, <1>4 DEF TypeOK, radio

LEMMA TypeStep ==
  TypeOK /\ NearInv /\ OnlyMeasured /\ OnlyMeasured' /\ [Next]_vars => TypeOK'
<1> SUFFICES ASSUME TypeOK, NearInv, OnlyMeasured, OnlyMeasured', [Next]_vars PROVE TypeOK'
  OBVIOUS
<1>1. CASE Timer         BY <1>1 DEF Timer, sensor, radio, remote, TypeOK
<1>2. CASE Wake          BY <1>2 DEF Wake, radio, remote, TypeOK
<1>3. CASE Command       BY <1>3 DEF Command, radio, remote, TypeOK
<1>4. CASE NoData        BY <1>4 DEF NoData, radio, remote, TypeOK
<1>5. CASE ReadAnswerAny BY <1>5, ReadTypes DEF ReadAnswerAny
<1>6. CASE Open          BY <1>6 DEF Open, sensor, remote, TypeOK
<1>7. CASE Send
  <2>1. Payload(pre) \in Reports
    BY <1>7 DEF Send, NearInv, OnlyMeasured, Readings, Reports, TypeOK
  <2>2. flight' \in Seq(Reports) /\ Len(flight') <= MaxFlight
    <3>1. CASE Len(flight) < MaxFlight /\ flight' = Append(flight, Payload(pre))
      <4>1. Append(flight, Payload(pre)) \in Seq(Reports) /\ Len(Append(flight, Payload(pre))) = Len(flight) + 1
        BY <2>1, AppendProperties DEF TypeOK
      <4>2. Len(flight) \in Nat /\ MaxFlight \in Nat
        BY TbSensorAssumption DEF TypeOK
      <4> QED
        BY <3>1, <4>1, <4>2
    <3>2. CASE flight' = flight
      BY <3>2 DEF TypeOK
    <3> QED
      BY <1>7, <3>1, <3>2 DEF Send
  <2> QED
    BY <1>7, <2>2 DEF Send, sensor, radio, TypeOK
<1>8. CASE Exit          BY <1>8 DEF Exit, sensor, remote, TypeOK
<1>9. CASE \E i \in DOMAIN flight : Deliver(i) \/ Lose(i)
  <2>1. PICK i \in DOMAIN flight : Deliver(i) \/ Lose(i)
    BY <1>9
  <2>2. flight[i] \in Reports
    BY DEF TypeOK
  <2>3. flight' \in Seq(Reports) /\ Len(flight') <= MaxFlight
    <3>1. flight' = Without(flight, i)
      BY <2>1 DEF Deliver, Lose
    <3>2. Without(flight, i) \in Seq(Reports) /\ Len(Without(flight, i)) = Len(flight) - 1
      BY WithoutOne DEF TypeOK
    <3>3. Len(flight) \in Nat /\ MaxFlight \in Nat /\ Len(flight) <= MaxFlight
      BY TbSensorAssumption DEF TypeOK
    <3> QED
      BY <3>1, <3>2, <3>3
  <2>4. server' \in {server, flight[i]}
    BY <2>1 DEF Deliver, Lose
  <2>5. missed' \in BOOLEAN
    <3>1. CASE Deliver(i)
      <4>1. missed' = (flight[i] # Payload(pre))
        BY <3>1 DEF Deliver
      <4> QED
        BY <4>1, Zenon
    <3>2. CASE Lose(i)
      BY <3>2 DEF Lose, TypeOK
    <3> QED
      BY <2>1, <3>1, <3>2
  <2>6. UNCHANGED <<air, connected, queued, stage, sensor, pre, radio>>
    BY <2>1 DEF Deliver, Lose
  <2> QED
    BY <2>2, <2>3, <2>4, <2>5, <2>6 DEF sensor, radio, TypeOK
<1>10. CASE \E a \in Air : Weather(a)
  BY <1>10 DEF Weather, sensor, radio, remote, TypeOK
<1>11. CASE RoleChange   BY <1>11 DEF RoleChange, sensor, radio, remote, TypeOK
<1>12. CASE Reset        BY <1>12 DEF Reset, TypeOK
<1>13. CASE UNCHANGED vars
  BY <1>13 DEF vars, TypeOK
<1> QED
  BY <1>1, <1>2, <1>3, <1>4, <1>5, <1>6, <1>7, <1>8, <1>9, <1>10, <1>11, <1>12, <1>13 DEF Next

LEMMA TypeIfMeasured == Spec /\ []OnlyMeasured => []TypeOK
<1>1. Init => TypeOK /\ NearInv
  <2> SUFFICES ASSUME Init PROVE TypeOK /\ NearInv
    OBVIOUS
  <2>1. <<>> \in Seq(Reports) /\ Len(<<>>) = 0 /\ 0 <= MaxFlight
    BY TbSensorAssumption
  <2>2. TypeOK
    BY <2>1 DEF Init, TypeOK
  <2> QED
    BY <2>2 DEF Init, NearInv, Measuring, Idle
<1>2. TypeOK /\ NearInv /\ OnlyMeasured /\ OnlyMeasured' /\ [Next]_vars => TypeOK' /\ NearInv'
  BY TypeStep, NearStep
<1> QED
  BY <1>1, <1>2, PTL DEF Spec

(* The state of the sensor node: nothing but what the air gave is          *)
(* recorded, sent or received, for any air and any number of datagrams     *)
(* under way.                                                              *)
THEOREM TbTypeOK == MaxFlips <= 3 => (Spec => []TypeOK)
BY TbOnlyMeasured, TypeIfMeasured, PTL
=============================================================================
