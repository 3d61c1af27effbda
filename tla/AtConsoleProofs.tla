--------------------------- MODULE AtConsoleProofs ---------------------------
(***************************************************************************)
(* The AT console's receiving half for every buffer size, FIFO depth and   *)
(* alphabet: its safety properties for any host, and the implementation of *)
(* AtSession (its safety part) for a host that waits for its answers.      *)
(***************************************************************************)
EXTENDS AtConsole, WellFoundedInduction, SequenceTheorems, TLAPS

(* A line is submitted from the interrupt handler, which neither starts    *)
(* nor goes on while a command runs.                                       *)
NoIsrWhileRunning == in_isr => ~running

SafeInv == TypeOK /\ Terminated /\ OneCommand /\ NeverDeaf /\ NoIsrWhileRunning

-----------------------------------------------------------------------------

(* Every non-empty set of naturals has a least element, so Min is defined. *)
LEMMA MinNat ==
  ASSUME NEW S \in SUBSET Nat, S # {}
  PROVE  Min(S) \in S /\ \A y \in S : Min(S) <= y
<1>1. PICK x \in S : \A y \in S : ~(<<y, x>> \in OpToRel(<, Nat))
  BY NatLessThanWellFounded, WFMin
<1>2. ASSUME NEW y \in S PROVE x <= y
  <2>1. <<y, x>> \notin OpToRel(<, Nat)
    BY <1>1
  <2>2. <<y, x>> \in Nat \X Nat
    BY S \subseteq Nat
  <2>3. ~(y < x)
    BY <2>1, <2>2 DEF OpToRel
  <2> QED
    BY <2>3, S \subseteq Nat
<1> QED
  BY <1>2 DEF Min

(* A terminated buffer holds a string shorter than the buffer: its         *)
(* characters are those before the first NUL.                              *)
LEMMA CStringOf ==
  ASSUME NEW buf \in [Pos -> Char], buf[CmdMax - 1] = NUL
  PROVE  \E n \in Pos : /\ buf[n] = NUL
                        /\ \A i \in Pos : i < n => buf[i] # NUL
                        /\ CString(buf) = FirstChars(buf, n)
<1> DEFINE nuls == {i \in Pos : buf[i] = NUL}
<1>1. nuls \in SUBSET Nat /\ nuls # {}
  BY AtConsoleAssumption DEF AtConsoleAssumption, Pos
<1>2. Min(nuls) \in nuls /\ \A y \in nuls : Min(nuls) <= y
  BY <1>1, MinNat
<1>3. \A i \in Pos : i < Min(nuls) => i \notin nuls
  BY <1>2 DEF Pos
<1> QED
  BY <1>2, <1>3 DEF CString

(* FirstChars is a sequence of characters. *)
LEMMA FirstCharsSeq ==
  ASSUME NEW buf \in [Pos -> Char], NEW n \in Nat, n <= CmdMax
  PROVE  FirstChars(buf, n) \in Seq(Char) /\ Len(FirstChars(buf, n)) = n
<1>1. \A i \in 1 .. n : buf[i - 1] \in Char
  BY AtConsoleAssumption DEF AtConsoleAssumption, Pos
<1> QED
  BY <1>1 DEF FirstChars

(* In particular the prefix that ends at a position of the buffer. *)
LEMMA FirstCharsPos ==
  ASSUME NEW buf \in [Pos -> Char], NEW n \in Pos
  PROVE  FirstChars(buf, n) \in Seq(Char) /\ Len(FirstChars(buf, n)) = n
<1>1. n \in Nat /\ n <= CmdMax
  BY AtConsoleAssumption DEF AtConsoleAssumption, Pos
<1> QED
  BY <1>1, FirstCharsSeq

(* The initial states satisfy the safety invariant. *)
LEMMA InitSafe == Init => SafeInv
<1> SUFFICES ASSUME Init PROVE SafeInv
  OBVIOUS
<1> USE AtConsoleAssumption DEF AtConsoleAssumption, Init
<1>1. at_buf \in [Pos -> Char \ {BS}]
  BY DEF Char, NUL, BS
<1>2. 0 \in Pos /\ CmdMax - 1 \in Pos
  BY DEF Pos
<1>3. fifo \in Seq(Char) /\ Len(fifo) <= FifoCap
  OBVIOUS
<1>4. cmd \in Seq(Char) /\ submitted \in Seq(Char)
  OBVIOUS
<1> QED
  BY <1>1, <1>2, <1>3, <1>4
  DEF SafeInv, TypeOK, Terminated, OneCommand, NeverDeaf, NoIsrWhileRunning

(* Every step keeps the variables in their types and at_buf terminated. *)
LEMMA NextType == TypeOK /\ Terminated /\ [Next]_vars => TypeOK' /\ Terminated'
<1> SUFFICES ASSUME TypeOK, Terminated, [Next]_vars PROVE TypeOK' /\ Terminated'
  OBVIOUS
<1> USE AtConsoleAssumption DEF AtConsoleAssumption, TypeOK, Terminated
<1>a. Char \ {BS} \subseteq Char /\ NUL \in Char \ {BS} /\ CR \in Char \ {BS}
  BY DEF Char, NUL, CR, BS
<1>b. ASSUME NEW c, ReadByte(c)
      PROVE  fifo' \in Seq(Char) /\ Len(fifo') <= FifoCap /\ c \in Char
  BY <1>b DEF ReadByte
<1>1. ASSUME NEW c \in Char, HostSend(c) PROVE TypeOK' /\ Terminated'
  BY <1>1 DEF HostSend, editor, handler
<1>2. CASE EnterIsr
  BY <1>2 DEF EnterIsr, editor, handler
<1>3. CASE LeaveIsr
  BY <1>3 DEF LeaveIsr, editor, handler
<1>4. CASE EraseChar
  BY <1>4, <1>a, <1>b DEF EraseChar, handler, Pos
<1>5. CASE DropChar
  <2>1. PICK c \in Char \ {BS} : ReadByte(c) /\ inside_quotes' = QuotesAfter(c)
    BY <1>5 DEF DropChar
  <2>2. inside_quotes' \in BOOLEAN
    BY <2>1 DEF QuotesAfter
  <2>3. fifo' \in Seq(Char) /\ Len(fifo') <= FifoCap
    BY <1>b, <2>1
  <2> QED
    BY <1>5, <2>2, <2>3 DEF DropChar, handler, Pos
<1>6. CASE StoreChar
  <2>1. PICK c \in Char \ {BS} :
          /\ ReadByte(c) /\ cmd_len + 1 < CmdMax
          /\ inside_quotes' = QuotesAfter(c)
          /\ at_buf' = [at_buf EXCEPT ![cmd_len] = c]
          /\ cmd_len' = cmd_len + 1
          /\ UNCHANGED <<rx_irq, in_isr, at_buf_len, handler, submitted>>
    BY <1>6 DEF StoreChar
  <2>2. inside_quotes' \in BOOLEAN
    BY <2>1 DEF QuotesAfter
  <2>3. fifo' \in Seq(Char) /\ Len(fifo') <= FifoCap
    BY <1>b, <2>1
  <2>4. cmd_len' \in Pos /\ at_buf' \in [Pos -> Char \ {BS}] /\ Terminated'
    BY <2>1 DEF Pos
  <2> QED
    BY <2>1, <2>2, <2>3, <2>4 DEF handler
<1>7. CASE SubmitLine
  <2>1. at_buf' \in [Pos -> Char \ {BS}] /\ cmd_len + 1 \in Nat /\ cmd_len + 1 < CmdMax
    BY <1>7, <1>a DEF SubmitLine, Pos
  <2>2. submitted' \in Seq(Char)
    <3>1. at_buf' \in [Pos -> Char] /\ cmd_len + 1 <= CmdMax
      BY <1>a, <2>1
    <3>2. FirstChars(at_buf', cmd_len + 1) \in Seq(Char)
      BY <2>1, <3>1, FirstCharsSeq
    <3> QED
      BY <1>7, <3>2 DEF SubmitLine
  <2>3. fifo' \in Seq(Char) /\ Len(fifo') <= FifoCap
    BY <1>7, <1>b DEF SubmitLine
  <2>4. cmd_len' \in Pos /\ at_buf_len' \in Pos /\ Terminated'
    BY <1>7, <2>1 DEF SubmitLine, Pos
  <2> QED
    BY <1>7, <2>1, <2>2, <2>3, <2>4 DEF SubmitLine
<1>8. CASE CmdStart
  <2>1. at_buf' \in [Pos -> Char \ {BS}] /\ Terminated'
    BY <1>8, <1>a DEF CmdStart, Pos
  <2>2. cmd' \in Seq(Char)
    <3>1. at_buf' \in [Pos -> Char] /\ at_buf'[CmdMax - 1] = NUL
      BY <1>a, <2>1
    <3>2. PICK n \in Pos : CString(at_buf') = FirstChars(at_buf', n)
      BY <3>1, CStringOf
    <3>3. n \in Nat /\ n <= CmdMax
      BY DEF Pos
    <3>4. FirstChars(at_buf', n) \in Seq(Char)
      BY <3>1, <3>3, FirstCharsSeq
    <3> QED
      BY <1>8, <3>2, <3>4 DEF CmdStart
  <2> QED
    BY <1>8, <2>1, <2>2 DEF CmdStart
<1>9. CASE CmdEnd
  <2>1. cmd' \in Seq(Char)
    BY <1>9 DEF CmdEnd
  <2> QED
    BY <1>9, <2>1 DEF CmdEnd, editor
<1>10. CASE UNCHANGED vars
  BY <1>10 DEF vars
<1> QED
  BY <1>1, <1>2, <1>3, <1>4, <1>5, <1>6, <1>7, <1>8, <1>9, <1>10 DEF Next, ReadLoop

(* Every step keeps the hand-over between interrupt and work queue exact. *)
LEMMA NextSafe == SafeInv /\ [Next]_vars => SafeInv'
<1> SUFFICES ASSUME SafeInv, [Next]_vars
             PROVE  OneCommand' /\ NeverDeaf' /\ NoIsrWhileRunning'
  BY NextType DEF SafeInv
<1> USE DEF SafeInv, TypeOK, OneCommand, NeverDeaf, NoIsrWhileRunning, handler
<1>1. ASSUME NEW c \in Char, HostSend(c)
      PROVE  OneCommand' /\ NeverDeaf' /\ NoIsrWhileRunning'
  BY <1>1 DEF HostSend
<1>2. CASE EnterIsr
  BY <1>2 DEF EnterIsr
<1>3. CASE LeaveIsr
  BY <1>3 DEF LeaveIsr
<1>4. CASE EraseChar
  BY <1>4 DEF EraseChar
<1>5. CASE DropChar
  BY <1>5 DEF DropChar
<1>6. CASE StoreChar
  BY <1>6 DEF StoreChar
<1>7. CASE SubmitLine
  BY <1>7 DEF SubmitLine, ReadByte
<1>8. CASE CmdStart
  BY <1>8 DEF CmdStart
<1>9. CASE CmdEnd
  BY <1>9 DEF CmdEnd
<1>10. CASE UNCHANGED vars
  BY <1>10 DEF vars
<1> QED
  BY <1>1, <1>2, <1>3, <1>4, <1>5, <1>6, <1>7, <1>8, <1>9, <1>10 DEF Next, ReadLoop

(* Type correctness: no index ever leaves at_buf. *)
THEOREM AtConsoleTypeOK == Spec => []TypeOK
<1>1. Init => TypeOK /\ Terminated
  BY InitSafe DEF SafeInv
<1>2. (TypeOK /\ Terminated) /\ [Next]_vars => (TypeOK /\ Terminated)'
  BY NextType
<1> QED
  BY <1>1, <1>2, PTL DEF Spec

(* For any host, however fast, and any line: at_buf stays terminated. *)
THEOREM AtConsoleTerminated == Spec => []Terminated
<1>1. SafeInv => Terminated
  BY DEF SafeInv
<1> QED
  BY InitSafe, NextSafe, <1>1, PTL DEF Spec

(* For any host: one command is in flight at most, with reception masked,  *)
(* and reception is never left masked with nothing to unmask it.           *)
THEOREM AtConsoleHandOver == Spec => []HandOver
<1>1. SafeInv => HandOver
  BY DEF SafeInv, HandOver
<1> QED
  BY InitSafe, NextSafe, <1>1, PTL DEF Spec

-----------------------------------------------------------------------------

(* A host that waits has one byte under way at most, and none while a line *)
(* waits or is executed.                                                   *)
PoliteHost ==
  /\ Len(fifo) <= 1
  /\ queued \/ running => fifo = <<>> /\ cmd_len = 0

WaitInv == SafeInv /\ PoliteHost /\ PendingIntact

(* The line the refinement mapping gives the session. *)
Line == IF running THEN <<>>
        ELSE FirstChars(at_buf, IF queued THEN at_buf_len ELSE cmd_len)
Phase == IF running THEN "running" ELSE IF queued THEN "submitted" ELSE "typing"

(* Storing a character behind the first n appends it. *)
LEMMA FirstCharsAppend ==
  ASSUME NEW buf \in [Pos -> Char], NEW n \in Pos, NEW c \in Char
  PROVE  FirstChars([buf EXCEPT ![n] = c], n + 1) = Append(FirstChars(buf, n), c)
<1>1. FirstChars([buf EXCEPT ![n] = c], n + 1)
        = [i \in 1 .. n + 1 |-> IF i <= n THEN buf[i - 1] ELSE c]
  BY AtConsoleAssumption DEF AtConsoleAssumption, FirstChars, Pos
<1>2. FirstChars(buf, n) \in Seq(Char) /\ Len(FirstChars(buf, n)) = n
  BY FirstCharsPos
<1>3. \A i \in 1 .. n : FirstChars(buf, n)[i] = buf[i - 1]
  BY DEF FirstChars
<1> QED
  <2> DEFINE longer == Append(FirstChars(buf, n), c)
  <2>1. /\ longer \in Seq(Char) /\ Len(longer) = n + 1
        /\ \A i \in 1 .. n + 1 : longer[i] = IF i = n + 1 THEN c ELSE FirstChars(buf, n)[i]
    BY <1>2, AppendProperties
  <2> DEFINE stored == FirstChars([buf EXCEPT ![n] = c], n + 1)
  <2>2. stored \in Seq(Char) /\ Len(stored) = n + 1
    <3>1. n + 1 \in Nat /\ n + 1 <= CmdMax
      BY AtConsoleAssumption DEF AtConsoleAssumption, Pos
    <3> QED
      BY <3>1, FirstCharsSeq
  <2>3. \A i \in 1 .. n + 1 : longer[i] = stored[i]
    BY <1>1, <1>3, <2>1 DEF Pos
  <2> QED
    BY <2>1, <2>2, <2>3, SeqEqual

(* A shorter prefix is a prefix of the longer one, and unaffected by a     *)
(* write at or behind its end.                                             *)
LEMMA FirstCharsPrefix ==
  ASSUME NEW buf \in [Pos -> Char], NEW m \in Pos, NEW n \in Pos, NEW k \in Pos,
         NEW c \in Char, m <= n, m <= k
  PROVE  FirstChars([buf EXCEPT ![k] = c], m) = SubSeq(FirstChars(buf, n), 1, m)
<1>1. FirstChars(buf, n) \in Seq(Char) /\ Len(FirstChars(buf, n)) = n
  BY FirstCharsPos
<1>2. SubSeq(FirstChars(buf, n), 1, m) = [i \in 1 .. m |-> FirstChars(buf, n)[i]]
  BY <1>1 DEF Pos
<1>3. \A i \in 1 .. m : FirstChars(buf, n)[i] = buf[i - 1]
  BY DEF FirstChars, Pos
<1>4. \A i \in 1 .. m : [buf EXCEPT ![k] = c][i - 1] = buf[i - 1]
  BY AtConsoleAssumption DEF AtConsoleAssumption, Pos
<1> QED
  BY <1>2, <1>3, <1>4 DEF FirstChars

(* The terminated buffer holds, as a C string, the line up to its first    *)
(* NUL, whatever an earlier and longer line has left behind it.            *)
LEMMA TerminatedLine ==
  ASSUME NEW buf \in [Pos -> Char], NEW n \in Pos,
         [buf EXCEPT ![n] = NUL][CmdMax - 1] = NUL
  PROVE  CString([buf EXCEPT ![n] = NUL]) = Session!UpToNul(FirstChars(buf, n))
<1> DEFINE ended == [buf EXCEPT ![n] = NUL]
           chars == FirstChars(buf, n)
           nuls == {i \in 1 .. Len(chars) : chars[i] = NUL}
<1>1. ended \in [Pos -> Char] /\ ended[n] = NUL
  BY DEF Char
<1>2. PICK m \in Pos : /\ ended[m] = NUL
                       /\ \A i \in Pos : i < m => ended[i] # NUL
                       /\ CString(ended) = FirstChars(ended, m)
  BY <1>1, CStringOf
<1>3. m <= n
  BY <1>1, <1>2 DEF Pos
<1>4. CString(ended) = SubSeq(chars, 1, m)
  <2>1. NUL \in Char
    BY DEF Char
  <2>2. FirstChars([buf EXCEPT ![n] = NUL], m) = SubSeq(FirstChars(buf, n), 1, m)
    BY <1>3, <2>1, FirstCharsPrefix
  <2> QED
    BY <1>2, <2>2
<1>5. chars \in Seq(Char) /\ Len(chars) = n
  BY FirstCharsPos
<1>6. \A i \in 1 .. n : chars[i] = buf[i - 1] /\ buf[i - 1] = ended[i - 1]
  BY AtConsoleAssumption DEF AtConsoleAssumption, FirstChars, Pos
<1>7. \A i \in 1 .. n : i <= m => i \notin nuls
  <2> SUFFICES ASSUME NEW i \in 1 .. n, i <= m PROVE chars[i] # NUL
    OBVIOUS
  <2>1. i - 1 \in Pos /\ i - 1 < m
    BY AtConsoleAssumption DEF AtConsoleAssumption, Pos
  <2> QED
    BY <1>2, <1>6, <2>1
<1>8. Session!UpToNul(chars) = IF nuls = {} THEN chars ELSE SubSeq(chars, 1, Min(nuls) - 1)
  BY DEF Session!UpToNul, Session!NUL, NUL, Session!Min, Min
<1>9. CASE m = n
  <2>1. nuls = {}
    BY <1>5, <1>7, <1>9
  <2>2. SubSeq(chars, 1, n) = chars
    BY <1>5
  <2> QED
    BY <1>4, <1>8, <1>9, <2>1, <2>2
<1>10. CASE m < n
  <2>1. m + 1 \in nuls
    BY <1>2, <1>5, <1>6, <1>10 DEF Pos
  <2>2. nuls \in SUBSET Nat
    OBVIOUS
  <2>3. Min(nuls) \in nuls /\ \A y \in nuls : Min(nuls) <= y
    BY <2>1, <2>2, MinNat
  <2>4. Min(nuls) = m + 1
    BY <1>5, <1>7, <2>1, <2>3 DEF Pos
  <2> HIDE DEF nuls
  <2>5. nuls # {} /\ Min(nuls) - 1 = m
    BY <2>1, <2>4 DEF Pos
  <2> QED
    BY <1>4, <1>8, <2>5
<1> QED
  BY <1>3, <1>9, <1>10 DEF Pos

(* Every step of a console with a waiting host keeps the host's byte and   *)
(* the pending line where they are.                                        *)
LEMMA NextWait == HostWaits /\ WaitInv /\ [Next]_vars => WaitInv'
<1> SUFFICES ASSUME HostWaits, WaitInv, [Next]_vars
             PROVE  PoliteHost' /\ PendingIntact'
  BY NextSafe DEF WaitInv
<1> USE DEF WaitInv, PoliteHost, SafeInv, TypeOK, OneCommand, NoIsrWhileRunning,
            PendingIntact, handler, editor
<1>a. ASSUME NEW c, ReadByte(c) PROVE ~queued /\ ~running /\ fifo' = <<>>
  BY <1>a DEF ReadByte
<1>1. ASSUME NEW c \in Char, HostSend(c) PROVE PoliteHost' /\ PendingIntact'
  BY <1>1 DEF HostSend
<1>2. CASE EnterIsr
  BY <1>2 DEF EnterIsr
<1>3. CASE LeaveIsr
  BY <1>3 DEF LeaveIsr
<1>4. CASE EraseChar
  BY <1>4, <1>a DEF EraseChar
<1>5. CASE DropChar
  BY <1>5, <1>a DEF DropChar
<1>6. CASE StoreChar
  BY <1>6, <1>a DEF StoreChar
<1>7. CASE SubmitLine
  <2>1. fifo' = <<>> /\ cmd_len' = 0
    BY <1>7, <1>a DEF SubmitLine
  <2>2. PendingIntact'
    BY <1>7 DEF SubmitLine
  <2> QED
    BY <2>1, <2>2
<1>8. CASE CmdStart
  BY <1>8 DEF CmdStart
<1>9. CASE CmdEnd
  BY <1>9 DEF CmdEnd
<1>10. CASE UNCHANGED vars
  BY <1>10 DEF vars
<1> QED
  BY <1>1, <1>2, <1>3, <1>4, <1>5, <1>6, <1>7, <1>8, <1>9, <1>10 DEF Next, ReadLoop

(* What the session's actions say of the mapped state. *)
SessionType(c) ==
  /\ Phase = "typing" /\ c # BS
  /\ inside_quotes' = IF c = QUOTE THEN ~inside_quotes ELSE inside_quotes
  /\ Line' = IF Len(Line) < CmdMax - 1 THEN Append(Line, c) ELSE Line
  /\ Phase' = IF c = CR /\ ~inside_quotes /\ Len(Line) < CmdMax - 1
              THEN "submitted" ELSE "typing"
  /\ UNCHANGED cmd

SessionErase ==
  /\ Phase = "typing"
  /\ Line' = IF Line = <<>> THEN <<>> ELSE SubSeq(Line, 1, Len(Line) - 1)
  /\ UNCHANGED <<inside_quotes, Phase, cmd>>

LEMMA SessionTypeDef ==
  ASSUME NEW c \in Char, SessionType(c) PROVE Session!SessionNext
<1>1. Session!Type(c)
  BY DEF SessionType, Session!Type, Session!BS, Session!QUOTE, Session!CR,
         BS, QUOTE, CR, Line, Phase
<1>2. c \in Session!Char
  BY DEF Session!Char, Session!NUL, Session!CR, Session!BS, Session!QUOTE,
         Char, NUL, CR, BS, QUOTE
<1> QED
  BY <1>1, <1>2 DEF Session!SessionNext

LEMMA SessionEraseDef == SessionErase => Session!SessionNext
  BY DEF SessionErase, Session!SessionNext, Session!Erase, Line, Phase

(* Every step of a console with a waiting host is a step of the session or *)
(* leaves it unchanged.                                                    *)
LEMMA StepSimulation ==
  HostWaits /\ WaitInv /\ [Next]_vars => [Session!SessionNext]_(Session!sessionVars)
<1> SUFFICES ASSUME HostWaits, WaitInv, [Next]_vars,
                    ~(UNCHANGED <<Line, inside_quotes, Phase, cmd>>)
             PROVE  Session!SessionNext
  BY DEF Session!sessionVars, Line, Phase
<1> USE DEF WaitInv, PoliteHost, SafeInv, OneCommand, NoIsrWhileRunning
<1>t. /\ at_buf \in [Pos -> Char] /\ cmd_len \in Pos /\ at_buf_len \in Pos
      /\ inside_quotes \in BOOLEAN /\ NUL \in Char /\ CR \in Char
      /\ CmdMax \in Nat /\ CmdMax >= 2
  BY AtConsoleAssumption DEF AtConsoleAssumption, TypeOK, Char
<1>a. ASSUME NEW c, ReadByte(c)
      PROVE  /\ ~queued /\ ~running /\ Phase = "typing"
             /\ Line = FirstChars(at_buf, cmd_len)
             /\ Line \in Seq(Char) /\ Len(Line) = cmd_len
  <2>1. ~queued /\ ~running
    BY <1>a DEF ReadByte
  <2> QED
    BY <1>t, <2>1, FirstCharsPos DEF Line, Phase
<1>1. ASSUME NEW c \in Char, HostSend(c) PROVE FALSE
  BY <1>1 DEF HostSend, editor, handler, Line, Phase
<1>2. CASE EnterIsr
  BY <1>2 DEF EnterIsr, editor, handler, Line, Phase
<1>3. CASE LeaveIsr
  BY <1>3 DEF LeaveIsr, editor, handler, Line, Phase
<1>4. CASE EraseChar
  <2> DEFINE k == IF cmd_len = 0 THEN 0 ELSE cmd_len - 1
  <2>1. /\ at_buf' = [at_buf EXCEPT ![k] = NUL] /\ cmd_len' = k
        /\ UNCHANGED <<queued, running, cmd, inside_quotes>>
    BY <1>4 DEF EraseChar, handler
  <2>2. k \in Pos /\ k <= cmd_len
    BY <1>t DEF Pos
  <2>3. Line' = SubSeq(Line, 1, k)
    <3>1. Line' = FirstChars([at_buf EXCEPT ![k] = NUL], k)
      BY <1>4, <1>a, <2>1 DEF EraseChar, Line
    <3>2. k <= k
      BY <2>2 DEF Pos
    <3> HIDE DEF k
    <3>3. FirstChars([at_buf EXCEPT ![k] = NUL], k) = SubSeq(FirstChars(at_buf, cmd_len), 1, k)
      BY <1>t, <2>2, <3>2, FirstCharsPrefix
    <3> QED
      BY <1>4, <1>a, <3>1, <3>3 DEF EraseChar
  <2>4. Line' = IF Line = <<>> THEN <<>> ELSE SubSeq(Line, 1, Len(Line) - 1)
    BY <1>4, <1>a, <1>t, <2>3 DEF EraseChar, Pos
  <2>5. Phase' = Phase
    BY <2>1 DEF Phase
  <2> QED
    BY <1>4, <1>a, <2>1, <2>4, <2>5, SessionEraseDef DEF SessionErase, EraseChar
<1>5. CASE DropChar
  <2>1. PICK c \in Char \ {BS} :
          /\ ReadByte(c) /\ cmd_len + 1 >= CmdMax
          /\ inside_quotes' = QuotesAfter(c) /\ cmd_len' = CmdMax - 1
          /\ UNCHANGED <<at_buf, queued, running, cmd>>
    BY <1>5 DEF DropChar, handler
  <2>2. cmd_len = CmdMax - 1 /\ ~queued /\ ~running
    BY <1>a, <1>t, <2>1 DEF Pos
  <2>3. Line' = Line /\ Phase' = Phase
    BY <2>1, <2>2 DEF Line, Phase
  <2> QED
    BY <1>a, <2>1, <2>2, <2>3, SessionTypeDef DEF SessionType, QuotesAfter, Pos
<1>6. CASE StoreChar
  <2>1. PICK c \in Char \ {BS} :
          /\ ReadByte(c) /\ cmd_len + 1 < CmdMax /\ (c # CR \/ inside_quotes)
          /\ inside_quotes' = QuotesAfter(c)
          /\ at_buf' = [at_buf EXCEPT ![cmd_len] = c]
          /\ cmd_len' = cmd_len + 1
          /\ UNCHANGED <<queued, running, cmd>>
    BY <1>6 DEF StoreChar, handler
  <2>2. Line' = FirstChars([at_buf EXCEPT ![cmd_len] = c], cmd_len + 1)
    BY <1>a, <2>1 DEF Line
  <2>3. Line' = Append(Line, c)
    <3>1. FirstChars([at_buf EXCEPT ![cmd_len] = c], cmd_len + 1)
            = Append(FirstChars(at_buf, cmd_len), c)
      BY <1>t, FirstCharsAppend
    <3> QED
      BY <1>a, <2>1, <2>2, <3>1
  <2>4. Phase' = "typing" /\ cmd_len < CmdMax - 1
    BY <1>a, <1>t, <2>1 DEF Phase, Pos
  <2> QED
    BY <1>a, <2>1, <2>3, <2>4, SessionTypeDef DEF SessionType, QuotesAfter
<1>7. CASE SubmitLine
  <2>1. /\ ReadByte(CR) /\ cmd_len + 1 < CmdMax /\ ~inside_quotes
        /\ at_buf' = [at_buf EXCEPT ![cmd_len] = CR]
        /\ queued' = TRUE /\ at_buf_len' = cmd_len + 1
        /\ UNCHANGED <<inside_quotes, running, cmd>>
    BY <1>7 DEF SubmitLine
  <2>2. Line' = FirstChars([at_buf EXCEPT ![cmd_len] = CR], cmd_len + 1)
    BY <1>a, <2>1 DEF Line
  <2>3. Line' = Append(Line, CR)
    BY <1>a, <1>t, <2>1, <2>2, FirstCharsAppend
  <2>4. Phase' = "submitted" /\ cmd_len < CmdMax - 1
    BY <1>a, <1>t, <2>1 DEF Phase, Pos
  <2>5. CR # BS /\ CR # QUOTE
    BY DEF CR, BS, QUOTE
  <2> QED
    BY <1>a, <1>t, <2>1, <2>3, <2>4, <2>5, SessionTypeDef DEF SessionType
<1>8. CASE CmdStart
  <2>1. queued /\ ~running /\ Phase = "submitted" /\ Line = FirstChars(at_buf, at_buf_len)
    BY <1>8 DEF CmdStart, Line, Phase
  <2>2. at_buf' = [at_buf EXCEPT ![at_buf_len] = NUL]
    <3>1. (IF at_buf_len < CmdMax - 1 THEN at_buf_len ELSE CmdMax - 1) = at_buf_len
      BY <1>t DEF Pos
    <3> QED
      BY <1>8, <3>1 DEF CmdStart
  <2>3. cmd' = Session!UpToNul(Line)
    <3>1. at_buf'[CmdMax - 1] = NUL
      BY NextSafe DEF Terminated
    <3>2. CString(at_buf') = Session!UpToNul(FirstChars(at_buf, at_buf_len))
      BY <1>t, <2>2, <3>1, TerminatedLine
    <3> QED
      BY <1>8, <2>1, <3>2 DEF CmdStart
  <2>4. Phase' = "running" /\ Line' = <<>> /\ inside_quotes' = inside_quotes
    BY <1>8 DEF CmdStart, Phase, Line
  <2>5. Session!Execute
    BY <2>1, <2>3, <2>4 DEF Session!Execute, Line, Phase
  <2> QED
    BY <2>5 DEF Session!SessionNext
<1>9. CASE CmdEnd
  <2>1. running /\ ~queued /\ cmd_len = 0
    BY <1>9 DEF CmdEnd
  <2>2. Phase' = "typing" /\ cmd' = <<>> /\ UNCHANGED inside_quotes
    BY <1>9, <2>1 DEF CmdEnd, Phase, editor
  <2>3. Line' = <<>>
    BY <1>9, <2>1 DEF CmdEnd, Line, editor, FirstChars
  <2>4. Session!Answer
    BY <2>1, <2>2, <2>3 DEF Session!Answer, Line, Phase
  <2> QED
    BY <2>4 DEF Session!SessionNext
<1>10. CASE UNCHANGED vars
  BY <1>10 DEF vars, Line, Phase
<1> QED
  BY <1>1, <1>2, <1>3, <1>4, <1>5, <1>6, <1>7, <1>8, <1>9, <1>10 DEF Next, ReadLoop

(* For a host that waits for its answers, the line that waits in at_buf is *)
(* the line the host submitted, and the console implements the session:    *)
(* it edits, executes exactly the typed line, answers, in strict turn.     *)
THEOREM AtConsoleImplementsSession ==
  HostWaits => (Spec => []PendingIntact /\ SessionSafety)
<1> SUFFICES ASSUME HostWaits PROVE Spec => []PendingIntact /\ SessionSafety
  OBVIOUS
<1>1. Init => WaitInv
  BY InitSafe DEF Init, WaitInv, PoliteHost, PendingIntact
<1>2. WaitInv /\ [Next]_vars => WaitInv'
  BY NextWait
<1>3. Init => Session!SessionInit
  BY DEF Init, Session!SessionInit, FirstChars
<1>4. WaitInv /\ [Next]_vars => [Session!SessionNext]_(Session!sessionVars)
  BY StepSimulation
<1>5. WaitInv => PendingIntact
  BY DEF WaitInv
<1> QED
  BY <1>1, <1>2, <1>3, <1>4, <1>5, PTL DEF Spec, SessionSafety
=============================================================================
