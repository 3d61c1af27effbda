------------------------------- MODULE AtUart -------------------------------
(***************************************************************************)
(* The sending half and the power state of the AT console, app_at_modem.c  *)
(* of at_server.  Output goes through a ring buffer and a binary semaphore *)
(* to the thread app_at_modem_process, which powers the UART and unmasks   *)
(* the transmit interrupt; the interrupt handler drains the ring and masks *)
(* itself when it is empty.  With CONFIG_APP_MODEM_EN_PIN a pin asks for   *)
(* the console to be on; the pin's interrupt, the thread and a delayed     *)
(* work all switch uart_power_state and then the device.                   *)
(*                                                                         *)
(* Interrupt handlers are atomic.  The system work queue is cooperative:   *)
(* it runs one item at a time and is not preempted by the thread, which    *)
(* has the lowest priority; interrupts preempt both, and the work queue    *)
(* preempts the thread.  Nothing guards the two variables of a switch from *)
(* such a preemption: the history variable clash records the first one, so *)
(* that a property can say what holds without it and what even then.       *)
(***************************************************************************)
EXTENDS Integers

CONSTANTS
  TxCap,      \* bytes in tx_ring_buf
  EnPin       \* CONFIG_APP_MODEM_EN_PIN; without it the pin is as if asserted

ASSUME AtUartAssumption ==
  /\ TxCap \in Nat \ {0}
  /\ EnPin \in BOOLEAN

VARIABLES
  tx_ring,           \* bytes in the ring
  tx_sem,            \* the semaphore, of limit 1
  writer,            \* a thread that has put bytes and not yet given tx_sem
  tx_irq, rx_irq,    \* the UART interrupt masks
  cmd,               \* at_cmd_work: "idle", "queued" or "running"
  thread,            \* what app_at_modem_process does next
  en, en_irq,        \* the pin asks for the console; its interrupt is pending
  uart_power_state,  \* the power state the code believes in
  device,            \* the power state of the UART
  off_timer, off_queued,   \* turn_off_uart_work: delay running, submitted
  off,               \* what its handler does next
  clash              \* history: "missed" an edge of the pin during init, a
                     \* switch was "preempted" by another one, or "none"

output  == <<tx_ring, tx_sem, writer, tx_irq>>
pin     == <<en, en_irq>>
power   == <<uart_power_state, device>>
offWork == <<off_timer, off_queued, off>>
vars == <<tx_ring, tx_sem, writer, tx_irq, rx_irq, cmd, thread, en, en_irq,
          uart_power_state, device, off_timer, off_queued, off, clash>>

(* is_enable *)
IsEnable == EnPin => en

(* Switching the power in thread context has begun and not ended. *)
Switching == thread \in {"resume", "listen"} \/ off \in {"forget", "suspend"}

(* A step that switches the power, taken in the middle of another switch. *)
Overlap == clash' = IF Switching THEN "preempted" ELSE clash

(* app_at_modem_init reads the pin before it enables the pin's events: an  *)
(* edge in between is lost.                                                *)
Init ==
  /\ tx_ring = 0 /\ tx_sem = FALSE /\ writer = FALSE /\ tx_irq = FALSE
  /\ cmd = "idle" /\ thread = "take"
  /\ en \in BOOLEAN /\ en_irq = FALSE
  /\ \E on \in BOOLEAN :
       /\ EnPin \/ on
       /\ clash = IF on = IsEnable THEN "none" ELSE "missed"
       /\ uart_power_state = IF on THEN "ACTIVE" ELSE "SUSPEND"
       /\ device = uart_power_state
       /\ rx_irq = on
  /\ off_timer = FALSE /\ off_queued = FALSE /\ off = "idle"

-----------------------------------------------------------------------------
(* Output *)

(* ring_buf_put from a thread: a full ring, or an interrupt that puts an   *)
(* echo in the middle, stores less than asked.                             *)
Put ==
  /\ ~writer
  /\ \E n \in 0 .. TxCap - tx_ring : tx_ring' = tx_ring + n
  /\ writer' = TRUE
  /\ UNCHANGED <<tx_sem, tx_irq, rx_irq, cmd, thread, pin, power, offWork, clash>>

Give ==
  /\ writer
  /\ writer' = FALSE
  /\ tx_sem' = TRUE
  /\ UNCHANGED <<tx_ring, tx_irq, rx_irq, cmd, thread, pin, power, offWork, clash>>

(* uart_interrupt_handler, transmit part. *)
TxIsr ==
  /\ tx_irq /\ device = "ACTIVE"
  /\ \/ tx_ring > 0 /\ tx_ring' = tx_ring - 1 /\ UNCHANGED tx_irq
     \/ tx_ring = 0 /\ tx_irq' = FALSE /\ UNCHANGED tx_ring
  /\ UNCHANGED <<tx_sem, writer, rx_irq, cmd, thread, pin, power, offWork, clash>>

(* Mutant: an echo does not give the semaphore. *)
EchoSilent(n) ==
  /\ tx_ring' = IF tx_ring + n <= TxCap THEN tx_ring + n ELSE TxCap
  /\ UNCHANGED tx_sem

(* Mutant: an echo into a full ring. *)
EchoOverflow(n) ==
  /\ tx_ring' = tx_ring + n
  /\ tx_sem' = IF n > 0 THEN TRUE ELSE tx_sem

(* at_console_out for n characters, as far as there is room. *)
Echo(n) ==
  /\ tx_ring' = IF tx_ring + n <= TxCap THEN tx_ring + n ELSE TxCap
  /\ tx_sem' = IF n > 0 THEN TRUE ELSE tx_sem

(* uart_interrupt_handler, receive part: a character is echoed, unless     *)
(* ATE0 or a full line suppresses it; a carriage return is echoed with a   *)
(* line feed and submits the line.                                         *)
RxIsr ==
  /\ rx_irq /\ device = "ACTIVE"
  /\ \/ /\ \E n \in {0, 1} : Echo(n)
        /\ UNCHANGED <<rx_irq, cmd>>
     \/ /\ \E n \in {0, 2} : Echo(n)
        /\ rx_irq' = FALSE /\ cmd' = "queued"
  /\ UNCHANGED <<writer, tx_irq, thread, pin, power, offWork, clash>>

(* at_cmd_handler; what it sends is Put and Give. *)
CmdStart ==
  /\ cmd = "queued" /\ off = "idle"
  /\ cmd' = "running"
  /\ UNCHANGED <<output, rx_irq, thread, pin, power, offWork, clash>>

CmdEnd ==
  /\ cmd = "running" /\ ~writer
  /\ cmd' = "idle"
  /\ rx_irq' = TRUE
  /\ UNCHANGED <<output, thread, pin, power, offWork, clash>>

-----------------------------------------------------------------------------
(* app_at_modem_process: take, enable_at_console, uart_irq_tx_enable *)

Take ==
  /\ thread = "take" /\ tx_sem
  /\ tx_sem' = FALSE
  /\ thread' = "check"
  /\ UNCHANGED <<tx_ring, writer, tx_irq, rx_irq, cmd, pin, power, offWork, clash>>

CheckPower ==
  /\ thread = "check" /\ off = "idle"
  /\ \/ /\ uart_power_state = "ACTIVE"
        /\ thread' = "unmask"
        /\ UNCHANGED uart_power_state
     \/ /\ uart_power_state # "ACTIVE"
        /\ uart_power_state' = "ACTIVE"
        /\ thread' = "resume"
  /\ UNCHANGED <<output, rx_irq, cmd, pin, device, offWork, clash>>

Resume ==
  /\ thread = "resume" /\ off = "idle"
  /\ device' = "ACTIVE"
  /\ thread' = "listen"
  /\ UNCHANGED <<output, rx_irq, cmd, pin, uart_power_state, offWork, clash>>

Listen ==
  /\ thread = "listen" /\ off = "idle"
  /\ rx_irq' = TRUE
  /\ off_timer' = TRUE
  /\ thread' = "unmask"
  /\ UNCHANGED <<output, cmd, pin, power, off_queued, off, clash>>

(* Mutant: the transmit interrupt stays masked. *)
UnmaskForgotten ==
  /\ thread = "unmask" /\ off = "idle"
  /\ thread' = "take"
  /\ UNCHANGED <<output, rx_irq, cmd, pin, power, offWork, clash>>

Unmask ==
  /\ thread = "unmask" /\ off = "idle"
  /\ tx_irq' = TRUE
  /\ thread' = "take"
  /\ UNCHANGED <<tx_ring, tx_sem, writer, rx_irq, cmd, pin, power, offWork, clash>>

-----------------------------------------------------------------------------
(* The enable pin *)

PinChange ==
  /\ EnPin
  /\ en' = ~en
  /\ en_irq' = TRUE
  /\ clash' = IF clash = "missed" THEN "none" ELSE clash
  /\ UNCHANGED <<output, rx_irq, cmd, thread, power, offWork>>

(* en_pin_handler on a released pin: disable_at_console. *)
PinOff ==
  /\ en_irq /\ ~en
  /\ en_irq' = FALSE
  /\ \/ /\ uart_power_state = "ACTIVE" /\ tx_ring = 0
        /\ uart_power_state' = "SUSPEND" /\ device' = "SUSPEND"
        /\ UNCHANGED off_timer
     \/ /\ uart_power_state = "ACTIVE" /\ tx_ring > 0
        /\ off_timer' = TRUE
        /\ UNCHANGED power
     \/ uart_power_state # "ACTIVE" /\ UNCHANGED <<power, off_timer>>
  /\ Overlap
  /\ UNCHANGED <<output, rx_irq, cmd, thread, en, off_queued, off>>

(* en_pin_handler on an asserted pin: enable_at_console. *)
PinOn ==
  /\ en_irq /\ en
  /\ en_irq' = FALSE
  /\ \/ uart_power_state = "ACTIVE" /\ UNCHANGED <<power, rx_irq, off_timer>>
     \/ /\ uart_power_state # "ACTIVE"
        /\ uart_power_state' = "ACTIVE" /\ device' = "ACTIVE"
        /\ rx_irq' = TRUE
        /\ off_timer' = TRUE
  /\ Overlap
  /\ UNCHANGED <<output, cmd, thread, en, off_queued, off>>

OffExpire ==
  /\ off_timer
  /\ off_timer' = FALSE
  /\ off_queued' = TRUE
  /\ UNCHANGED <<output, rx_irq, cmd, thread, pin, power, off, clash>>

(* Mutant: the delayed work does not look at the pin. *)
OffDecideBlind ==
  /\ off_queued /\ off = "idle" /\ cmd # "running"
  /\ off_queued' = FALSE
  /\ \/ /\ uart_power_state = "ACTIVE" /\ tx_ring = 0
        /\ off' = "forget"
        /\ UNCHANGED off_timer
     \/ /\ uart_power_state = "ACTIVE" /\ tx_ring > 0
        /\ off_timer' = TRUE
        /\ UNCHANGED off
     \/ uart_power_state # "ACTIVE" /\ UNCHANGED <<off_timer, off>>
  /\ Overlap
  /\ UNCHANGED <<output, rx_irq, cmd, thread, pin, power>>

(* turn_off_uart_work_handler: disable_at_console up to the decision ... *)
OffDecide ==
  /\ off_queued /\ off = "idle" /\ cmd # "running"
  /\ off_queued' = FALSE
  /\ \/ /\ ~IsEnable /\ uart_power_state = "ACTIVE" /\ tx_ring = 0
        /\ off' = "forget"
        /\ UNCHANGED off_timer
     \/ /\ ~IsEnable /\ uart_power_state = "ACTIVE" /\ tx_ring > 0
        /\ off_timer' = TRUE
        /\ UNCHANGED off
     \/ (IsEnable \/ uart_power_state # "ACTIVE") /\ UNCHANGED <<off_timer, off>>
  /\ Overlap
  /\ UNCHANGED <<output, rx_irq, cmd, thread, pin, power>>

(* ... the state the code remembers, and the device. *)
OffForget ==
  /\ off = "forget"
  /\ uart_power_state' = "SUSPEND"
  /\ off' = "suspend"
  /\ UNCHANGED <<output, rx_irq, cmd, thread, pin, device, off_timer, off_queued, clash>>

OffSuspend ==
  /\ off = "suspend"
  /\ device' = "SUSPEND"
  /\ off' = "idle"
  /\ UNCHANGED <<output, rx_irq, cmd, thread, pin, uart_power_state, off_timer, off_queued, clash>>

Thread == Take \/ CheckPower \/ Resume \/ Listen \/ Unmask
PinIsr == PinOff \/ PinOn
OffHandler == OffDecide \/ OffForget \/ OffSuspend

Next ==
  \/ Put \/ Give \/ TxIsr \/ RxIsr \/ CmdStart \/ CmdEnd
  \/ Thread \/ PinChange \/ PinIsr \/ OffExpire \/ OffHandler

Spec == Init /\ [][Next]_vars

(* Interrupts are served, delays end, commands end, and the work queue and *)
(* even the lowest-priority thread get to run.                             *)
Fairness ==
  /\ WF_vars(Give) /\ WF_vars(TxIsr)
  /\ WF_vars(CmdStart) /\ WF_vars(CmdEnd)
  /\ SF_vars(Thread) /\ SF_vars(PinIsr)
  /\ WF_vars(OffExpire) /\ SF_vars(OffHandler)

FairSpec == Spec /\ Fairness

-----------------------------------------------------------------------------

(* Every variable stays in its type. *)
TypeOK ==
  /\ tx_ring \in 0 .. TxCap /\ tx_sem \in BOOLEAN /\ writer \in BOOLEAN
  /\ tx_irq \in BOOLEAN /\ rx_irq \in BOOLEAN
  /\ cmd \in {"idle", "queued", "running"}
  /\ thread \in {"take", "check", "resume", "listen", "unmask"}
  /\ en \in BOOLEAN /\ en_irq \in BOOLEAN
  /\ uart_power_state \in {"ACTIVE", "SUSPEND"} /\ device \in {"ACTIVE", "SUSPEND"}
  /\ off_timer \in BOOLEAN /\ off_queued \in BOOLEAN
  /\ off \in {"idle", "forget", "suspend"}
  /\ clash \in {"none", "missed", "preempted"}

(* Bytes in the ring are never stranded: the transmit interrupt drains     *)
(* them, or the thread is on its way to unmask it, or a semaphore that     *)
(* wakes the thread is given or about to be.  The interrupt masking itself *)
(* on an empty ring races with every producer.                             *)
NoLostWakeup ==
  tx_ring > 0 /\ clash # "preempted"
    => \/ tx_irq /\ (device = "ACTIVE" \/ Switching)
       \/ tx_sem \/ writer \/ thread # "take"

(* Between switches the device is in the state the code believes in,       *)
(* unless one switch preempted another: the console is neither dead while  *)
(* asked for nor burning power unnoticed.                                  *)
PowerAgrees == ~Switching /\ clash # "preempted" => uart_power_state = device

(* Even when switches preempt each other, a console nobody asks for is on  *)
(* only while something is scheduled to switch it off.                     *)
NoPowerLeak ==
  (EnPin /\ ~en /\ ~en_irq /\ uart_power_state = "ACTIVE" /\ ~Switching
     /\ clash # "missed")
    => off_timer \/ off_queued

(* A console the pin asks for is on, unless the pin's edge was missed or   *)
(* its switch was overtaken by another.                                    *)
EnableFollowed ==
  (EnPin /\ en /\ ~en_irq /\ ~Switching /\ clash = "none")
    => uart_power_state = "ACTIVE"

(* A console that is on and has no command listens to its host, whatever   *)
(* switched it on and whatever preempted that.                             *)
ListensWhenOn ==
  (uart_power_state = "ACTIVE" /\ cmd = "idle" /\ ~Switching) => rx_irq

(* The console is on when and because it is asked for, as far as the races *)
(* of the switches allow.                                                  *)
PowerManaged == PowerAgrees /\ NoPowerLeak /\ EnableFollowed /\ ListensWhenOn

(* Pending output reaches a powered UART with the transmit interrupt on,   *)
(* however often the console is switched off meanwhile, unless a switch is *)
(* preempted by another.                                                   *)
OutputStarts ==
  tx_ring > 0 ~> \/ tx_ring = 0 \/ (tx_irq /\ device = "ACTIVE")
                 \/ clash = "preempted"

(* Left alone, with the pin released and nothing to say, the console goes  *)
(* to sleep and stays asleep.                                              *)
GoesToSleep ==
  <>[](EnPin /\ ~en /\ tx_ring = 0 /\ ~writer /\ cmd = "idle" /\ clash = "none")
    => <>[](device = "SUSPEND")

(* What is said comes out, and then there is silence. *)
SpeaksAndSleeps == OutputStarts /\ GoesToSleep
=============================================================================
