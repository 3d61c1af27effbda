---------------------------- MODULE AtUartProofs ----------------------------
(***************************************************************************)
(* Safety of the console's output and power, for every length of the ring, *)
(* with and without the enable pin.  None of the properties is inductive:  *)
(* UartInv adds what holds in the middle of a switch and of a write.       *)
(***************************************************************************)
EXTENDS AtUart, TLAPS

(* Something will take the thread to the ring again.                       *)
Called == tx_sem \/ writer

(* One switch at a time, unless one preempted another; the two variables   *)
(* of a switch are in the order in which it writes them.                   *)
SwitchInv ==
  clash # "preempted" =>
    /\ thread \in {"resume", "listen"} => off = "idle"
    /\ thread = "resume" => uart_power_state = "ACTIVE" /\ device = "SUSPEND"
    /\ thread = "listen" => uart_power_state = "ACTIVE" /\ device = "ACTIVE"
    /\ off = "forget" => uart_power_state = "ACTIVE" /\ device = "ACTIVE"
    /\ off = "suspend" => uart_power_state = "SUSPEND" /\ device = "ACTIVE"
    /\ ~Switching => uart_power_state = device

(* A switch-off begins with an empty ring; what is written since calls the *)
(* thread.                                                                 *)
OffInv == off # "idle" /\ tx_ring > 0 => Called \/ thread = "check"

(* The thread that is about to unmask the transmitter finds the UART on,   *)
(* or is called again.                                                     *)
UnmaskInv ==
  thread = "unmask" /\ tx_ring > 0 /\ clash # "preempted"
    => device = "ACTIVE" \/ off # "idle" \/ Called

OutputInv == NoLostWakeup /\ OffInv /\ UnmaskInv

(* As long as the edge that was missed during initialisation is the last   *)
(* one, nothing has been scheduled.                                        *)
MissedInv ==
  clash = "missed" =>
    /\ ~en_irq
    /\ ~en => /\ uart_power_state = "ACTIVE" /\ off = "idle"
              /\ thread \in {"take", "check", "unmask"}
              /\ ~off_timer /\ ~off_queued

LeakInv ==
  EnPin /\ ~en /\ ~en_irq /\ uart_power_state = "ACTIVE" /\ clash # "missed"
    => off_timer \/ off_queued \/ thread \in {"resume", "listen"} \/ off = "forget"

FollowInv ==
  EnPin /\ en /\ ~en_irq /\ clash = "none" => uart_power_state = "ACTIVE" /\ off = "idle"

ListenInv ==
  uart_power_state = "ACTIVE" /\ cmd = "idle" /\ thread \notin {"resume", "listen"} => rx_irq

UartInv ==
  /\ TypeOK /\ SwitchInv /\ OutputInv
  /\ MissedInv /\ LeakInv /\ FollowInv /\ ListenInv

-----------------------------------------------------------------------------
(* TypeOK in three parts.                                                  *)
RingType == tx_ring \in 0 .. TxCap
FlagType ==
  /\ tx_sem \in BOOLEAN /\ writer \in BOOLEAN /\ tx_irq \in BOOLEAN /\ rx_irq \in BOOLEAN
  /\ en \in BOOLEAN /\ en_irq \in BOOLEAN /\ off_timer \in BOOLEAN /\ off_queued \in BOOLEAN
StateType ==
  /\ cmd \in {"idle", "queued", "running"}
  /\ thread \in {"take", "check", "resume", "listen", "unmask"}
  /\ uart_power_state \in {"ACTIVE", "SUSPEND"} /\ device \in {"ACTIVE", "SUSPEND"}
  /\ off \in {"idle", "forget", "suspend"}
  /\ clash \in {"none", "missed", "preempted"}

LEMMA CapType == TxCap \in Nat
BY AtUartAssumption

LEMMA TypeParts == TypeOK <=> RingType /\ FlagType /\ StateType
BY DEF TypeOK, RingType, FlagType, StateType

(* One lemma per part of the invariant: the actions that touch what it is  *)
(* about, then the others.                                                 *)

(* A received character echoes what fits, and calls the thread if it does. *)
LEMMA Echoed ==
  ASSUME tx_ring \in 0 .. TxCap, RxIsr
  PROVE  /\ tx_ring' \in 0 .. TxCap
         /\ tx_sem' = TRUE \/ UNCHANGED <<tx_ring, tx_sem>>
<1>1. PICK n \in {0, 1, 2} : Echo(n)
  BY DEF RxIsr
<1>2. n \in Nat /\ tx_ring \in Nat /\ TxCap \in Nat /\ tx_ring <= TxCap
  BY CapType
<1>3. tx_ring' \in 0 .. TxCap
  BY <1>1, <1>2 DEF Echo
<1>4. CASE n = 0
  BY <1>1, <1>2, <1>4 DEF Echo
<1>5. CASE n > 0
  BY <1>1, <1>5 DEF Echo
<1>6. n = 0 \/ n > 0
  OBVIOUS
<1> QED
  BY <1>3, <1>4, <1>5, <1>6, Zenon

(* The ring never holds more than it can.                                  *)
LEMMA RingStep ==
  ASSUME UartInv, [Next]_vars
  PROVE  RingType'
<1> USE DEF UartInv, TypeOK, RingType
<1>1. CASE Put
  BY <1>1, CapType DEF Put
<1>2. CASE TxIsr
  <2>1. tx_ring' = tx_ring \/ (tx_ring > 0 /\ tx_ring' = tx_ring - 1)
    BY <1>2 DEF TxIsr
  <2> QED
    BY <2>1, CapType
<1>3. CASE RxIsr
  BY <1>3, Echoed
<1>4. CASE UNCHANGED <<tx_ring>>
  BY <1>4
<1>5. Give \/ CmdStart \/ CmdEnd \/ Take \/ CheckPower \/ Resume \/ Listen \/ Unmask
      \/ PinChange \/ PinOff \/ PinOn \/ OffExpire \/ OffDecide \/ OffForget \/ OffSuspend
      \/ UNCHANGED vars
      => UNCHANGED <<tx_ring>>
  BY DEF Give, CmdStart, CmdEnd, Take, CheckPower, Resume, Listen, Unmask, PinChange,
         PinOff, PinOn, OffExpire, OffDecide, OffForget, OffSuspend, vars, output, pin,
         power, offWork
<1> QED
  BY <1>1, <1>2, <1>3, <1>4, <1>5 DEF Next, Thread, PinIsr, OffHandler

(* Flags are flags.                                                        *)
LEMMA FlagStep ==
  ASSUME UartInv, [Next]_vars
  PROVE  FlagType'
<1> USE DEF UartInv, TypeOK, FlagType
<1>1. CASE Put
  BY <1>1 DEF Put, pin, power, offWork
<1>2. CASE Give
  BY <1>2 DEF Give, pin, power, offWork
<1>3. CASE TxIsr
  BY <1>3 DEF TxIsr, pin, power, offWork
<1>4. CASE RxIsr
  BY <1>4 DEF RxIsr, Echo, pin, power, offWork
<1>5. CASE CmdEnd
  BY <1>5 DEF CmdEnd, output, pin, power, offWork
<1>6. CASE Take
  BY <1>6 DEF Take, pin, power, offWork
<1>7. CASE Listen
  BY <1>7 DEF Listen, output, pin, power
<1>8. CASE Unmask
  BY <1>8 DEF Unmask, pin, power, offWork
<1>9. CASE PinChange
  BY <1>9 DEF PinChange, output, power, offWork
<1>10. CASE PinOff
  BY <1>10 DEF PinOff, output, power, Overlap
<1>11. CASE PinOn
  BY <1>11 DEF PinOn, output, power, Overlap
<1>12. CASE OffExpire
  BY <1>12 DEF OffExpire, output, pin, power
<1>13. CASE OffDecide
  BY <1>13 DEF OffDecide, output, pin, power, Overlap, IsEnable
<1>14. CASE UNCHANGED <<tx_sem, writer, tx_irq, rx_irq, en, en_irq, off_timer, off_queued>>
  BY <1>14
<1>15. CmdStart \/ CheckPower \/ Resume \/ OffForget \/ OffSuspend \/ UNCHANGED vars
      => UNCHANGED <<tx_sem, writer, tx_irq, rx_irq, en, en_irq, off_timer, off_queued>>
  BY DEF CmdStart, CheckPower, Resume, OffForget, OffSuspend, vars, output, pin, power,
         offWork
<1> QED
  BY <1>1, <1>2, <1>3, <1>4, <1>5, <1>6, <1>7, <1>8, <1>9, <1>10, <1>11, <1>12, <1>13,
     <1>14, <1>15
     DEF Next, Thread, PinIsr, OffHandler

(* States are states.                                                      *)
LEMMA StateStep ==
  ASSUME UartInv, [Next]_vars
  PROVE  StateType'
<1> USE DEF UartInv, TypeOK, StateType
<1>1. CASE RxIsr
  BY <1>1 DEF RxIsr, Echo, pin, power, offWork
<1>2. CASE CmdStart
  BY <1>2 DEF CmdStart, output, pin, power, offWork
<1>3. CASE CmdEnd
  BY <1>3 DEF CmdEnd, output, pin, power, offWork
<1>4. CASE Take
  BY <1>4 DEF Take, pin, power, offWork
<1>5. CASE CheckPower
  BY <1>5 DEF CheckPower, output, pin, offWork
<1>6. CASE Resume
  BY <1>6 DEF Resume, output, pin, offWork
<1>7. CASE Listen
  BY <1>7 DEF Listen, output, pin, power
<1>8. CASE Unmask
  BY <1>8 DEF Unmask, pin, power, offWork
<1>9. CASE PinChange
  BY <1>9 DEF PinChange, output, power, offWork
<1>10. CASE PinOff
  BY <1>10 DEF PinOff, output, power, Overlap
<1>11. CASE PinOn
  BY <1>11 DEF PinOn, output, power, Overlap
<1>12. CASE OffDecide
  BY <1>12 DEF OffDecide, output, pin, power, Overlap, IsEnable
<1>13. CASE OffForget
  BY <1>13 DEF OffForget, output, pin
<1>14. CASE OffSuspend
  BY <1>14 DEF OffSuspend, output, pin
<1>15. CASE UNCHANGED <<cmd, thread, uart_power_state, device, off, clash>>
  BY <1>15
<1>16. Put \/ Give \/ TxIsr \/ OffExpire \/ UNCHANGED vars
      => UNCHANGED <<cmd, thread, uart_power_state, device, off, clash>>
  BY DEF Put, Give, TxIsr, OffExpire, vars, output, pin, power, offWork
<1> QED
  BY <1>1, <1>2, <1>3, <1>4, <1>5, <1>6, <1>7, <1>8, <1>9, <1>10, <1>11, <1>12, <1>13,
     <1>14, <1>15, <1>16
     DEF Next, Thread, PinIsr, OffHandler

(* Switches that are not preempted.                                        *)
LEMMA SwitchStep ==
  ASSUME UartInv, [Next]_vars
  PROVE  SwitchInv'
<1> USE DEF UartInv, TypeOK, SwitchInv, Switching
<1>1. CASE Take
  BY <1>1 DEF Take, pin, power, offWork
<1>2. CASE CheckPower
  BY <1>2 DEF CheckPower, output, pin, offWork
<1>3. CASE Resume
  BY <1>3 DEF Resume, output, pin, offWork
<1>4. CASE Listen
  BY <1>4 DEF Listen, output, pin, power
<1>5. CASE Unmask
  BY <1>5 DEF Unmask, pin, power, offWork
<1>6. CASE PinChange
  BY <1>6 DEF PinChange, output, power, offWork
<1>7. CASE PinOff
  BY <1>7 DEF PinOff, output, power, Overlap
<1>8. CASE PinOn
  BY <1>8 DEF PinOn, output, power, Overlap
<1>9. CASE OffDecide
  BY <1>9 DEF OffDecide, output, pin, power, Overlap, IsEnable
<1>10. CASE OffForget
  BY <1>10 DEF OffForget, output, pin
<1>11. CASE OffSuspend
  BY <1>11 DEF OffSuspend, output, pin
<1>12. CASE UNCHANGED <<thread, uart_power_state, device, off, clash>>
  BY <1>12
<1>13. Put \/ Give \/ TxIsr \/ RxIsr \/ CmdStart \/ CmdEnd \/ OffExpire \/ UNCHANGED vars
      => UNCHANGED <<thread, uart_power_state, device, off, clash>>
  BY DEF Put, Give, TxIsr, RxIsr, Echo, CmdStart, CmdEnd, OffExpire, vars, output, pin, power,
         offWork
<1> QED
  BY <1>1, <1>2, <1>3, <1>4, <1>5, <1>6, <1>7, <1>8, <1>9, <1>10, <1>11, <1>12, <1>13
     DEF Next, Thread, PinIsr, OffHandler

(* Producers call the thread; a switch-off begins when the ring is empty.  *)
LEMMA OutputStep ==
  ASSUME UartInv, [Next]_vars
  PROVE  OutputInv'
<1> USE DEF UartInv, TypeOK, SwitchInv, OutputInv, NoLostWakeup, OffInv, UnmaskInv, Called,
            Switching
<1>1. CASE Put
  BY <1>1 DEF Put, pin, power, offWork
<1>2. CASE Give
  BY <1>2 DEF Give, pin, power, offWork
<1>3. CASE TxIsr
  <2>1. (tx_ring > 0 /\ tx_irq' = tx_irq) \/ (tx_ring = 0 /\ tx_ring' = tx_ring)
    BY <1>3 DEF TxIsr
  <2>2. UNCHANGED <<tx_sem, writer, thread, device, off, clash>>
    BY <1>3 DEF TxIsr, power, offWork
  <2> QED
    BY <2>1, <2>2
<1>4. CASE RxIsr
  <2>1. tx_sem' = TRUE \/ UNCHANGED <<tx_ring, tx_sem>>
    BY <1>4, Echoed DEF RingType
  <2>2. UNCHANGED <<writer, tx_irq, thread, device, off, clash>>
    BY <1>4 DEF RxIsr, power, offWork
  <2> QED
    BY <2>1, <2>2
<1>5. CASE Take
  BY <1>5 DEF Take, pin, power, offWork
<1>6. CASE CheckPower
  BY <1>6 DEF CheckPower, output, pin, offWork
<1>7. CASE Resume
  BY <1>7 DEF Resume, output, pin, offWork
<1>8. CASE Listen
  BY <1>8 DEF Listen, output, pin, power
<1>9. CASE Unmask
  BY <1>9 DEF Unmask, pin, power, offWork
<1>10. CASE PinChange
  BY <1>10 DEF PinChange, output, power, offWork
<1>11. CASE PinOff
  BY <1>11 DEF PinOff, output, power, Overlap
<1>12. CASE PinOn
  BY <1>12 DEF PinOn, output, power, Overlap
<1>13. CASE OffDecide
  BY <1>13 DEF OffDecide, output, pin, power, Overlap, IsEnable
<1>14. CASE OffForget
  BY <1>14 DEF OffForget, output, pin
<1>15. CASE OffSuspend
  BY <1>15 DEF OffSuspend, output, pin
<1>16. CASE UNCHANGED <<tx_ring, tx_sem, writer, tx_irq, thread,
                      uart_power_state, device, off, clash>>
  BY <1>16
<1>17. CmdStart \/ CmdEnd \/ OffExpire \/ UNCHANGED vars
      => UNCHANGED <<tx_ring, tx_sem, writer, tx_irq, thread, uart_power_state, device, off, clash>>
  BY DEF CmdStart, CmdEnd, OffExpire, vars, output, pin, power, offWork
<1> QED
  BY <1>1, <1>2, <1>3, <1>4, <1>5, <1>6, <1>7, <1>8, <1>9, <1>10, <1>11, <1>12, <1>13,
     <1>14, <1>15, <1>16, <1>17
     DEF Next, Thread, PinIsr, OffHandler

(* Only an edge of the pin ends the time after a missed one.               *)
LEMMA MissedStep ==
  ASSUME UartInv, [Next]_vars
  PROVE  MissedInv'
<1> USE DEF UartInv, TypeOK, MissedInv
<1>1. CASE Take
  BY <1>1 DEF Take, pin, power, offWork
<1>2. CASE CheckPower
  BY <1>2 DEF CheckPower, output, pin, offWork
<1>3. CASE Resume
  BY <1>3 DEF Resume, output, pin, offWork
<1>4. CASE Listen
  BY <1>4 DEF Listen, output, pin, power
<1>5. CASE Unmask
  BY <1>5 DEF Unmask, pin, power, offWork
<1>6. CASE PinChange
  BY <1>6 DEF PinChange, output, power, offWork
<1>7. CASE PinOff
  BY <1>7 DEF PinOff, output, power, Overlap
<1>8. CASE PinOn
  BY <1>8 DEF PinOn, output, power, Overlap
<1>9. CASE OffExpire
  BY <1>9 DEF OffExpire, output, pin, power
<1>10. CASE OffDecide
  BY <1>10 DEF OffDecide, output, pin, power, Overlap, IsEnable
<1>11. CASE OffForget
  BY <1>11 DEF OffForget, output, pin
<1>12. CASE OffSuspend
  BY <1>12 DEF OffSuspend, output, pin
<1>13. CASE UNCHANGED <<clash, en, en_irq,
                      uart_power_state, off, thread, off_timer, off_queued>>
  BY <1>13
<1>14. Put \/ Give \/ TxIsr \/ RxIsr \/ CmdStart \/ CmdEnd \/ UNCHANGED vars
      => UNCHANGED <<clash, en, en_irq, uart_power_state, off, thread, off_timer, off_queued>>
  BY DEF Put, Give, TxIsr, RxIsr, Echo, CmdStart, CmdEnd, vars, output, pin, power, offWork
<1> QED
  BY <1>1, <1>2, <1>3, <1>4, <1>5, <1>6, <1>7, <1>8, <1>9, <1>10, <1>11, <1>12, <1>13,
     <1>14
     DEF Next, Thread, PinIsr, OffHandler

(* A console nobody asks for.                                              *)
LEMMA LeakStep ==
  ASSUME UartInv, [Next]_vars
  PROVE  LeakInv'
<1> USE DEF UartInv, TypeOK, MissedInv, LeakInv
<1>1. CASE Take
  BY <1>1 DEF Take, pin, power, offWork
<1>2. CASE CheckPower
  BY <1>2 DEF CheckPower, output, pin, offWork
<1>3. CASE Resume
  BY <1>3 DEF Resume, output, pin, offWork
<1>4. CASE Listen
  BY <1>4 DEF Listen, output, pin, power
<1>5. CASE Unmask
  BY <1>5 DEF Unmask, pin, power, offWork
<1>6. CASE PinChange
  BY <1>6 DEF PinChange, output, power, offWork
<1>7. CASE PinOff
  BY <1>7 DEF PinOff, output, power, Overlap
<1>8. CASE PinOn
  BY <1>8 DEF PinOn, output, power, Overlap
<1>9. CASE OffExpire
  BY <1>9 DEF OffExpire, output, pin, power
<1>10. CASE OffDecide
  BY <1>10 DEF OffDecide, output, pin, power, Overlap, IsEnable
<1>11. CASE OffForget
  BY <1>11 DEF OffForget, output, pin
<1>12. CASE OffSuspend
  BY <1>12 DEF OffSuspend, output, pin
<1>13. CASE UNCHANGED <<clash, en, en_irq,
                      uart_power_state, off, thread, off_timer, off_queued>>
  BY <1>13
<1>14. Put \/ Give \/ TxIsr \/ RxIsr \/ CmdStart \/ CmdEnd \/ UNCHANGED vars
      => UNCHANGED <<clash, en, en_irq, uart_power_state, off, thread, off_timer, off_queued>>
  BY DEF Put, Give, TxIsr, RxIsr, Echo, CmdStart, CmdEnd, vars, output, pin, power, offWork
<1> QED
  BY <1>1, <1>2, <1>3, <1>4, <1>5, <1>6, <1>7, <1>8, <1>9, <1>10, <1>11, <1>12, <1>13,
     <1>14
     DEF Next, Thread, PinIsr, OffHandler

(* A console that is asked for.                                            *)
LEMMA FollowStep ==
  ASSUME UartInv, [Next]_vars
  PROVE  FollowInv'
<1> USE DEF UartInv, TypeOK, FollowInv, Switching
<1>1. CASE CheckPower
  BY <1>1 DEF CheckPower, output, pin, offWork
<1>2. CASE PinChange
  BY <1>2 DEF PinChange, output, power, offWork
<1>3. CASE PinOff
  BY <1>3 DEF PinOff, output, power, Overlap
<1>4. CASE PinOn
  BY <1>4 DEF PinOn, output, power, Overlap
<1>5. CASE OffDecide
  BY <1>5 DEF OffDecide, output, pin, power, Overlap, IsEnable
<1>6. CASE OffForget
  BY <1>6 DEF OffForget, output, pin
<1>7. CASE OffSuspend
  BY <1>7 DEF OffSuspend, output, pin
<1>8. CASE UNCHANGED <<clash, en, en_irq, uart_power_state, off>>
  BY <1>8
<1>9. Put \/ Give \/ TxIsr \/ RxIsr \/ CmdStart \/ CmdEnd \/ Take \/ Resume \/ Listen
      \/ Unmask \/ OffExpire \/ UNCHANGED vars
      => UNCHANGED <<clash, en, en_irq, uart_power_state, off>>
  BY DEF Put, Give, TxIsr, RxIsr, Echo, CmdStart, CmdEnd, Take, Resume, Listen, Unmask, OffExpire,
         vars, output, pin, power, offWork
<1> QED
  BY <1>1, <1>2, <1>3, <1>4, <1>5, <1>6, <1>7, <1>8, <1>9 DEF Next, Thread, PinIsr, OffHandler

(* A console that is on.                                                   *)
LEMMA ListenStep ==
  ASSUME UartInv, [Next]_vars
  PROVE  ListenInv'
<1> USE DEF UartInv, TypeOK, ListenInv
<1>1. CASE RxIsr
  BY <1>1 DEF RxIsr, Echo, pin, power, offWork
<1>2. CASE CmdStart
  BY <1>2 DEF CmdStart, output, pin, power, offWork
<1>3. CASE CmdEnd
  BY <1>3 DEF CmdEnd, output, pin, power, offWork
<1>4. CASE Take
  BY <1>4 DEF Take, pin, power, offWork
<1>5. CASE CheckPower
  BY <1>5 DEF CheckPower, output, pin, offWork
<1>6. CASE Resume
  BY <1>6 DEF Resume, output, pin, offWork
<1>7. CASE Listen
  BY <1>7 DEF Listen, output, pin, power
<1>8. CASE Unmask
  BY <1>8 DEF Unmask, pin, power, offWork
<1>9. CASE PinOff
  BY <1>9 DEF PinOff, output, power, Overlap
<1>10. CASE PinOn
  BY <1>10 DEF PinOn, output, power, Overlap
<1>11. CASE OffForget
  BY <1>11 DEF OffForget, output, pin
<1>12. CASE UNCHANGED <<uart_power_state, cmd, thread, rx_irq>>
  BY <1>12
<1>13. Put \/ Give \/ TxIsr \/ PinChange \/ OffExpire \/ OffDecide \/ OffSuspend
      \/ UNCHANGED vars
      => UNCHANGED <<uart_power_state, cmd, thread, rx_irq>>
  BY DEF Put, Give, TxIsr, PinChange, OffExpire, OffDecide, OffSuspend, vars, output, pin,
         power, offWork
<1> QED
  BY <1>1, <1>2, <1>3, <1>4, <1>5, <1>6, <1>7, <1>8, <1>9, <1>10, <1>11, <1>12, <1>13
     DEF Next, Thread, PinIsr, OffHandler

-----------------------------------------------------------------------------
(* The theorems                                                            *)

LEMMA InitInv == Init => UartInv
<1> SUFFICES ASSUME Init PROVE UartInv
  OBVIOUS
<1> USE DEF Init, IsEnable
<1>1. TypeOK
  <2>1. RingType
    BY AtUartAssumption DEF RingType
  <2>2. FlagType
    BY AtUartAssumption DEF FlagType
  <2>3. StateType
    BY DEF StateType
  <2> QED
    BY <2>1, <2>2, <2>3, TypeParts
<1>2. SwitchInv /\ OutputInv
  BY AtUartAssumption DEF SwitchInv, OutputInv, NoLostWakeup, OffInv, UnmaskInv
<1>3. MissedInv /\ LeakInv /\ FollowInv /\ ListenInv
  BY AtUartAssumption DEF MissedInv, LeakInv, FollowInv, ListenInv
<1> QED
  BY <1>1, <1>2, <1>3 DEF UartInv

LEMMA UartAlways == Spec => []UartInv
<1>1. UartInv /\ [Next]_vars => UartInv'
  <2>1. UartInv /\ [Next]_vars => TypeOK'
    BY RingStep, FlagStep, StateStep DEF TypeOK, RingType, FlagType, StateType
  <2> QED
    BY <2>1, SwitchStep, OutputStep, MissedStep, LeakStep, FollowStep, ListenStep DEF UartInv
<1> QED
  BY InitInv, <1>1, PTL DEF Spec

(* The ring is never written past its end, whatever its length.            *)
THEOREM AtUartTypeOK == Spec => []TypeOK
<1>1. UartInv => TypeOK
  BY DEF UartInv
<1> QED
  BY UartAlways, <1>1, PTL

(* ring_buf_put, k_sem_give and the interrupt that masks itself: output is *)
(* never stranded, for every length of the ring.                           *)
THEOREM AtUartNoLostWakeup == Spec => []NoLostWakeup
<1>1. UartInv => NoLostWakeup
  BY DEF UartInv, OutputInv
<1> QED
  BY UartAlways, <1>1, PTL

(* enable_at_console and disable_at_console from three contexts: the       *)
(* console is on when and because it is asked for, and listens when on.    *)
THEOREM AtUartPowerManaged == Spec => []PowerManaged
<1>1. UartInv => PowerAgrees
  BY DEF UartInv, SwitchInv, PowerAgrees
<1>2. UartInv => NoPowerLeak
  BY DEF UartInv, LeakInv, NoPowerLeak, Switching
<1>3. UartInv => EnableFollowed
  BY DEF UartInv, FollowInv, EnableFollowed
<1>4. UartInv => ListensWhenOn
  BY DEF UartInv, ListenInv, ListensWhenOn, Switching
<1>5. UartInv => PowerManaged
  BY <1>1, <1>2, <1>3, <1>4 DEF PowerManaged
<1> QED
  BY UartAlways, <1>5, PTL
=============================================================================
