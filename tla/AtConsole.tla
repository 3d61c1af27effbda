------------------------------ MODULE AtConsole ------------------------------
(***************************************************************************)
(* The receiving half of the AT console, app_at_modem.c of at_server built *)
(* without CONFIG_APP_MODEM_EN_PIN: the UART interrupt handler feeds bytes *)
(* to the line editor at_data_handler, which hands a complete line to the  *)
(* system work queue through the shared buffer at_buf and masks the        *)
(* receive interrupt; at_cmd_handler executes it, answers and unmasks.     *)
(*                                                                         *)
(* The interrupt handler reads until the UART FIFO is empty: bytes that    *)
(* follow a carriage return in the same interrupt reach the editor while   *)
(* the command waits, whatever the mask says.                              *)
(***************************************************************************)
EXTENDS Integers, Sequences, FiniteSetsExt

CONSTANTS
  Plain,      \* ordinary characters
  CmdMax,     \* CONFIG_APP_AT_CMD_MAX_LEN
  FifoCap,    \* depth of the UART receive FIFO
  HostWaits   \* does the host wait for the answer to a line before the next?

ASSUME AtConsoleAssumption ==
  /\ CmdMax \in Nat /\ CmdMax >= 2
  /\ FifoCap \in Nat \ {0}
  /\ HostWaits \in BOOLEAN

VARIABLES
  fifo,           \* bytes received by the UART and not read
  rx_irq,         \* is the receive interrupt enabled?
  in_isr,         \* is the read loop of uart_interrupt_handler running?
  at_buf, cmd_len, inside_quotes,  \* the line editor
  at_buf_len,     \* length handed to the work
  queued,         \* at_cmd_work is in the system work queue
  running,        \* at_cmd_handler runs a command
  cmd,            \* the string the parsers were given
  submitted       \* ghost: the line as it was when it was submitted

editor  == <<at_buf, cmd_len, inside_quotes>>
handler == <<queued, running, cmd>>
vars == <<fifo, rx_irq, in_isr, at_buf, cmd_len, inside_quotes, at_buf_len,
          queued, running, cmd, submitted>>

NUL == "nul"
CR == "cr"
BS == "bs"
QUOTE == "quote"
Char == Plain \cup {NUL, CR, BS, QUOTE}
Pos == 0 .. CmdMax - 1

(* The first n characters of the buffer, as a sequence. *)
FirstChars(buf, n) == [i \in 1 .. n |-> buf[i - 1]]

(* What strlen, strcmp and the parsers see: the characters before the      *)
(* first NUL.                                                              *)
CString(buf) == FirstChars(buf, Min({i \in Pos : buf[i] = NUL}))

Init ==
  /\ fifo = <<>> /\ rx_irq = TRUE /\ in_isr = FALSE
  /\ at_buf = [i \in Pos |-> NUL] /\ cmd_len = 0 /\ inside_quotes = FALSE
  /\ at_buf_len = 0 /\ queued = FALSE /\ running = FALSE
  /\ cmd = <<>> /\ submitted = <<>>

(* The host sends a byte; one that waits lets the console settle first. *)
HostSend(c) ==
  /\ Len(fifo) < FifoCap
  /\ HostWaits => fifo = <<>> /\ ~in_isr /\ ~queued /\ ~running
  /\ fifo' = Append(fifo, c)
  /\ UNCHANGED <<rx_irq, in_isr, editor, at_buf_len, handler, submitted>>

EnterIsr ==
  /\ ~in_isr /\ rx_irq /\ fifo # <<>>
  /\ in_isr' = TRUE
  /\ UNCHANGED <<fifo, rx_irq, editor, at_buf_len, handler, submitted>>

LeaveIsr ==
  /\ in_isr /\ fifo = <<>>
  /\ in_isr' = FALSE
  /\ UNCHANGED <<fifo, rx_irq, editor, at_buf_len, handler, submitted>>

(* uart_fifo_read(at_dev, &c, 1) in the read loop. *)
ReadByte(c) == in_isr /\ fifo # <<>> /\ c = Head(fifo) /\ fifo' = Tail(fifo)

(* at_data_handler: backspace and delete. *)
EraseChar ==
  /\ ReadByte(BS)
  /\ at_buf' = [at_buf EXCEPT ![IF cmd_len = 0 THEN 0 ELSE cmd_len - 1] = NUL]
  /\ cmd_len' = IF cmd_len = 0 THEN 0 ELSE cmd_len - 1
  /\ UNCHANGED <<rx_irq, in_isr, inside_quotes, at_buf_len, handler, submitted>>

(* Every other character; a quote toggles inside_quotes even if dropped. *)
QuotesAfter(c) == IF c = QUOTE THEN ~inside_quotes ELSE inside_quotes

(* Mutant: the position is not put back after an overflow. *)
DropCharOnward ==
  \E c \in Char \ {BS} :
    /\ ReadByte(c)
    /\ cmd_len + 1 >= CmdMax
    /\ inside_quotes' = QuotesAfter(c)
    /\ cmd_len' = cmd_len + 1
    /\ UNCHANGED <<rx_irq, in_isr, at_buf, at_buf_len, handler, submitted>>

(* at_data_handler: "Buffer overflow, dropping". *)
DropChar ==
  \E c \in Char \ {BS} :
    /\ ReadByte(c)
    /\ cmd_len + 1 >= CmdMax
    /\ inside_quotes' = QuotesAfter(c)
    /\ cmd_len' = CmdMax - 1
    /\ UNCHANGED <<rx_irq, in_isr, at_buf, at_buf_len, handler, submitted>>

(* Mutant: the overflow test is off by one. *)
StoreCharOneMore ==
  \E c \in Char \ {BS} :
    /\ ReadByte(c)
    /\ cmd_len + 1 <= CmdMax
    /\ c # CR \/ inside_quotes
    /\ inside_quotes' = QuotesAfter(c)
    /\ at_buf' = [at_buf EXCEPT ![cmd_len] = c]
    /\ cmd_len' = IF cmd_len + 1 < CmdMax THEN cmd_len + 1 ELSE cmd_len
    /\ UNCHANGED <<rx_irq, in_isr, at_buf_len, handler, submitted>>

(* at_data_handler: the character is stored and does not end the line. *)
StoreChar ==
  \E c \in Char \ {BS} :
    /\ ReadByte(c)
    /\ cmd_len + 1 < CmdMax
    /\ c # CR \/ inside_quotes
    /\ inside_quotes' = QuotesAfter(c)
    /\ at_buf' = [at_buf EXCEPT ![cmd_len] = c]
    /\ cmd_len' = cmd_len + 1
    /\ UNCHANGED <<rx_irq, in_isr, at_buf_len, handler, submitted>>

(* Mutant: the receive interrupt stays enabled. *)
SubmitLineListening ==
  /\ ReadByte(CR)
  /\ cmd_len + 1 < CmdMax
  /\ ~inside_quotes
  /\ at_buf' = [at_buf EXCEPT ![cmd_len] = CR]
  /\ queued' = TRUE
  /\ at_buf_len' = cmd_len + 1
  /\ cmd_len' = 0
  /\ submitted' = FirstChars(at_buf', cmd_len + 1)
  /\ UNCHANGED <<rx_irq, in_isr, inside_quotes, running, cmd>>

(* Mutant: the length is taken after it was reset. *)
SubmitLineReset ==
  /\ ReadByte(CR)
  /\ cmd_len + 1 < CmdMax
  /\ ~inside_quotes
  /\ at_buf' = [at_buf EXCEPT ![cmd_len] = CR]
  /\ rx_irq' = FALSE
  /\ queued' = TRUE
  /\ at_buf_len' = 0
  /\ cmd_len' = 0
  /\ submitted' = FirstChars(at_buf', cmd_len + 1)
  /\ UNCHANGED <<in_isr, inside_quotes, running, cmd>>

(* at_data_handler: the carriage return that submits the line. *)
SubmitLine ==
  /\ ReadByte(CR)
  /\ cmd_len + 1 < CmdMax
  /\ ~inside_quotes
  /\ at_buf' = [at_buf EXCEPT ![cmd_len] = CR]
  /\ rx_irq' = FALSE
  /\ queued' = TRUE
  /\ at_buf_len' = cmd_len + 1
  /\ cmd_len' = 0
  /\ submitted' = FirstChars(at_buf', cmd_len + 1)
  /\ UNCHANGED <<in_isr, inside_quotes, running, cmd>>

(* Mutant: the line is not terminated. *)
CmdStartOpen ==
  /\ queued /\ ~running /\ ~in_isr
  /\ queued' = FALSE /\ running' = TRUE
  /\ cmd' = CString(at_buf)
  /\ UNCHANGED <<fifo, rx_irq, in_isr, editor, at_buf_len, submitted>>

(* at_cmd_handler up to the parsers: the string is 0-terminated and read.  *)
CmdStart ==
  /\ queued /\ ~running /\ ~in_isr
  /\ queued' = FALSE /\ running' = TRUE
  /\ LET end == IF at_buf_len < CmdMax - 1 THEN at_buf_len ELSE CmdMax - 1
     IN  at_buf' = [at_buf EXCEPT ![end] = NUL]
  /\ cmd' = CString(at_buf')
  /\ UNCHANGED <<fifo, rx_irq, in_isr, cmd_len, inside_quotes, at_buf_len, submitted>>

(* at_cmd_handler after a parser took the command, or none did: the answer *)
(* is sent and the receive interrupt enabled again.                        *)
CmdEnd ==
  /\ running /\ ~in_isr
  /\ running' = FALSE
  /\ cmd' = <<>>
  /\ rx_irq' = TRUE
  /\ UNCHANGED <<fifo, in_isr, editor, at_buf_len, queued, submitted>>

ReadLoop == EraseChar \/ DropChar \/ StoreChar \/ SubmitLine

Next ==
  \/ \E c \in Char : HostSend(c)
  \/ EnterIsr \/ ReadLoop \/ LeaveIsr
  \/ CmdStart \/ CmdEnd

(* Interrupts run at once and the work queue runs what is queued. *)
Fairness ==
  /\ WF_vars(EnterIsr) /\ WF_vars(ReadLoop) /\ WF_vars(LeaveIsr)
  /\ WF_vars(CmdStart) /\ WF_vars(CmdEnd)

Spec == Init /\ [][Next]_vars
FairSpec == Spec /\ Fairness

-----------------------------------------------------------------------------

(* Every variable stays in its type; the editor position stays inside the  *)
(* buffer with one byte to spare.                                          *)
TypeOK ==
  /\ fifo \in Seq(Char) /\ Len(fifo) <= FifoCap
  /\ rx_irq \in BOOLEAN /\ in_isr \in BOOLEAN
  /\ at_buf \in [Pos -> Char \ {BS}] /\ cmd_len \in Pos
  /\ inside_quotes \in BOOLEAN /\ at_buf_len \in Pos
  /\ queued \in BOOLEAN /\ running \in BOOLEAN
  /\ cmd \in Seq(Char) /\ submitted \in Seq(Char)

(* app_at_modem.c:260 "Make sure the string is 0-terminated": whatever the *)
(* host sends and however long it types, the last byte of at_buf stays 0,  *)
(* so that a parser never reads past the buffer.                           *)
Terminated == at_buf[CmdMax - 1] = NUL

(* One command at a time: while a line waits or is executed the receive    *)
(* interrupt is masked and no second line is submitted, so the handler is  *)
(* the only user of the shared parser state.                               *)
OneCommand ==
  /\ queued \/ running => ~rx_irq
  /\ ~(queued /\ running)

(* A submitted line is never lost to the mask: with the receive interrupt  *)
(* off there is always a handler left that will switch it on again.        *)
NeverDeaf == ~rx_irq => queued \/ running

(* The receive interrupt is masked exactly while a command is in progress. *)
HandOver == OneCommand /\ NeverDeaf

(* The line that waits in at_buf for the work queue is the line the host   *)
(* submitted: app_at_modem.c:218 says received data is saved and waits for *)
(* the thread to process it.                                               *)
PendingIntact == queued => FirstChars(at_buf, at_buf_len) = submitted

(* The console is a line editor with strict alternation (AtSession), for a *)
(* host that waits for its answers: in particular stale characters beyond  *)
(* the line, erased ones and the shared length never leak into a command.  *)
Session ==
  INSTANCE AtSession
    WITH LineMax <- CmdMax - 1,
         line <- IF running THEN <<>>
                 ELSE FirstChars(at_buf, IF queued THEN at_buf_len ELSE cmd_len),
         quoted <- inside_quotes,
         phase <- IF running THEN "running"
                  ELSE IF queued THEN "submitted" ELSE "typing"

ImplementsSession == Session!SessionSpec

(* Its safety part alone: every step is a step of the session or none. *)
SessionSafety == Session!SessionInit /\ [][Session!SessionNext]_(Session!sessionVars)
=============================================================================
