--------------------------- MODULE AtThreadProofs ---------------------------
(***************************************************************************)
(* Safety of the Thread and CoAP commands, for any set of poll periods.    *)
(* ThreadInv says where a command may have something open, what the link   *)
(* agrees with, and what has been seen when a command can end with OK.     *)
(***************************************************************************)
EXTENDS AtThread, Integers, TLAPS

(* Commands that poll fast while they wait for the network. *)
Bracketed == {"ping", "sntp"} \cup Requests

(* Stages belong to commands; only a request holds a socket or a buffer. *)
StageInv ==
  /\ Idle <=> stage = None
  /\ stage \in {"store", "answer"} <=> cmd = "sed"
  /\ stage \in {"open", "send", "exit"} => cmd \in Requests
  /\ cmd \notin Requests => ~sock /\ ~buffer

(* Only inside a bracket does a sleepy link poll at the active period. *)
QuietInv ==
  cached.poll \notin Refused /\ (rxOn \/ cmd \notin Bracketed) => poll # Active

(* What flash may hold; a full Thread device never stores that it sleeps. *)
FlashInv ==
  /\ FlashKept
  /\ ftd => ~Load.sed
  /\ stage = "answer" => Load = draft.set

(* While AT+SED has still to store or to answer, the link follows its draft. *)
DraftInv ==
  stage \in {"store", "answer"} =>
    /\ draft.set \in tried
    /\ rxOn = ~draft.set.sed
    /\ ftd => ~draft.set.sed
    /\ draft.named /\ draft.set.poll \notin Refused => poll = draft.set.poll
    /\ ~draft.named => draft.set.poll = Load.poll

(* The period of a sleepy start is kept as long as the cache agrees with   *)
(* flash, also while the node listens all the time and it has no effect.   *)
PeriodInv ==
  /\ cached.sed /\ cached.poll = Load.poll /\ cached.poll \notin Refused
  /\ rxOn \/ cmd \notin Bracketed
  => poll \in {s.poll : s \in {Load} \cup tried}

(* What has been seen when a join or a request can answer. *)
SeenInv ==
  /\ cmd = "join" /\ ~joiner => "result" \in seen
  /\ cmd \in Requests =>
       /\ stage \in {"open", "send", "wait", "exit"}
       /\ stage = "wait" \/ (stage = "exit" /\ ret # "negative") => "sent" \in seen
       /\ stage # "exit" \/ ret = "negative" => "answer" \notin seen

ThreadInv ==
  /\ TypeOK /\ StageInv /\ QuietInv /\ StaysOnline /\ SeenInv
  /\ FlashInv /\ DraftInv /\ ModeKept /\ PeriodInv

-----------------------------------------------------------------------------
(* Constants, settings and the start *)

LEMMA ActiveApart == Active \notin Periods \cup {Default, Unset}
<1>1. Active \notin Periods
  BY AtThreadAssumption
<1>2. Active # Default /\ Active # Unset
  BY DEF Active, Default, Unset
<1> QED
  BY <1>1, <1>2

LEMMA DefaultTaken == Default \notin Refused
BY AtThreadAssumption DEF Default

LEMMA AbsentApart == Absent \notin Settings
BY AtThreadAssumption DEF Settings

LEMMA SettingsParts == \A s \in Settings : s.poll \in Periods \cup {Default} /\ s.sed \in BOOLEAN
BY DEF Settings

LEMMA DefaultsType == Defaults \in Settings /\ NoDraft \in [set : Settings, named : BOOLEAN]
BY DEF Defaults, Settings, NoDraft

LEMMA LoadType == TypeOK => Load \in Settings
BY DefaultsType DEF TypeOK, DataType, Load

LEMMA BootStep ==
  ASSUME TypeOK, Wipe \/ Reset
  PROVE  /\ cached' = Load /\ Load' = Load /\ Load \in Settings
         /\ Load.sed => rxOn' = ftd
         /\ rxOn' \in BOOLEAN
         /\ poll' = IF Load.sed /\ Load.poll \notin Refused THEN Load.poll ELSE Unset
         /\ enabled' = commissioned' /\ commissioned' \in BOOLEAN /\ joiner' = FALSE
         /\ draft' = NoDraft /\ sock' = FALSE /\ buffer' = FALSE /\ ret' = "zero"
         /\ cmd' = None /\ stage' = None /\ verdict' = None
         /\ seen' = {} /\ spoiled' = FALSE
         /\ stored' = stored /\ ftd' = ftd /\ promised' = promised
         /\ \/ tried' = {Load} /\ (~Load.sed => rxOn' = TRUE)
            \/ tried' = tried /\ ~Load.sed /\ rxOn' \in {TRUE, rxOn}
<1>1. Load \in Settings /\ Load.sed \in BOOLEAN
  BY LoadType DEF Settings
<1>2. ASSUME NEW mode \in BOOLEAN, Boot(mode)
      PROVE  /\ cached' = Load /\ Load' = Load
             /\ rxOn' = IF Load.sed THEN ftd ELSE mode
             /\ poll' = IF Load.sed /\ Load.poll \notin Refused THEN Load.poll ELSE Unset
  <2>1. cached' = Load /\ stored' = stored
    BY <1>2 DEF Boot
  <2>2. Load' = Load
    BY <2>1 DEF Load
  <2>3. rxOn' = IF Load.sed THEN ftd ELSE mode
    BY <1>2, <2>1 DEF Boot
  <2>4. poll' = IF Load.sed /\ Load.poll \notin Refused THEN Load.poll ELSE Unset
    BY <1>1, <1>2, <2>1 DEF Boot, PollAfter
  <2> QED
    BY <2>1, <2>2, <2>3, <2>4
<1>3. CASE Wipe
  <2>1. Boot(TRUE) /\ commissioned' = FALSE /\ tried' = {Load}
    BY <1>3 DEF Wipe
  <2> QED
    BY <1>1, <1>2, <2>1 DEF Boot, TypeOK, DataType
<1>4. CASE Reset
  <2>1. PICK mode \in BOOLEAN : mode \in {TRUE, rxOn} /\ Boot(mode)
    BY <1>4 DEF Reset, TypeOK, DataType
  <2>2. commissioned' = commissioned /\ tried' = IF Load.sed THEN {Load} ELSE tried
    BY <1>4 DEF Reset
  <2> QED
    BY <1>1, <1>2, <2>1, <2>2 DEF Boot, TypeOK, DataType, ControlType
<1> QED
  BY <1>3, <1>4

(* The settings, the ghosts and the link keep their types. *)
LEMMA DataStep ==
  ASSUME TypeOK, [Next]_vars
  PROVE  DataType'
<1> USE DEF TypeOK, DataType, link, node, request, flash, told
<1>1. CASE SedRefused \/ PingAtOnce \/ SntpRefused \/ CoapRefused \/ JoinRefused
  BY <1>1 DEF SedRefused, AtOnce, Answer, End, PingAtOnce, SntpRefused, CoapRefused,
     JoinRefused
<1>2. CASE \E on \in BOOLEAN, p \in Periods \cup {None} : SedLink(on, p)
  BY LoadType, <1>2 DEF SedLink, Begin, PollAfter, Settings, None
<1>3. CASE SedStore \/ SedAnswer
  BY DefaultsType, <1>3 DEF SedStore, SedAnswer, End, Settings
<1>4. CASE SedStoreFails
  BY DefaultsType, <1>4 DEF SedStoreFails, End
<1>5. CASE SntpNoSocket
  BY SettingsParts, <1>5 DEF SntpNoSocket, Answer, End, SetSleepy, PollAfter
<1>6. CASE \E c \in {"ping", "sntp"} : Ask(c)
  BY <1>6 DEF Ask, Begin, SetActive
<1>7. CASE Asked
  BY SettingsParts, <1>7 DEF Asked, End, SetSleepy, PollAfter
<1>8. CASE \E c \in Requests : CoapStart(c)
  BY <1>8 DEF CoapStart, Begin, SetActive
<1>9. CASE CoapOpen \/ CoapSend \/ CoapWait
  BY <1>9 DEF CoapOpen, CoapSend, CoapWait
<1>10. CASE CoapExit
  BY SettingsParts, <1>10 DEF CoapExit, End, SetSleepy, PollAfter
<1>11. CASE JoinStart \/ JoinEnd \/ FactoryReset
  BY <1>11 DEF JoinStart, Begin, JoinEnd, End, FactoryReset
<1>12. CASE \E ok \in BOOLEAN : JoinerDone(ok)
  BY <1>12 DEF JoinerDone
<1>13. CASE Wipe \/ Reset
  BY BootStep, DefaultsType, SettingsParts, <1>13
<1>14. CASE UNCHANGED vars
  BY <1>14 DEF vars
<1> QED
  BY <1>1, <1>2, <1>3, <1>4, <1>5, <1>6, <1>7, <1>8, <1>9, <1>10, <1>11, <1>12, <1>13,
     <1>14 DEF Next

(* So do Thread, the command in progress and the request. *)
LEMMA ControlStep ==
  ASSUME TypeOK, [Next]_vars
  PROVE  ControlType'
<1> USE DEF TypeOK, ControlType, Requests, link, node, request, flash, told
<1>1. CASE SedRefused \/ PingAtOnce \/ SntpRefused \/ CoapRefused \/ JoinRefused
  BY <1>1 DEF SedRefused, AtOnce, Answer, End, PingAtOnce, SntpRefused, CoapRefused,
     JoinRefused
<1>2. CASE \E on \in BOOLEAN, p \in Periods \cup {None} : SedLink(on, p)
  BY <1>2 DEF SedLink, Begin, PollAfter
<1>3. CASE SedStore \/ SedAnswer
  BY <1>3 DEF SedStore, SedAnswer, End
<1>4. CASE SedStoreFails
  BY <1>4 DEF SedStoreFails, End
<1>5. CASE SntpNoSocket
  BY <1>5 DEF SntpNoSocket, Answer, End, SetSleepy, PollAfter
<1>6. CASE \E c \in {"ping", "sntp"} : Ask(c)
  BY <1>6 DEF Ask, Begin, SetActive
<1>7. CASE Asked
  BY <1>7 DEF Asked, End, SetSleepy, PollAfter
<1>8. CASE \E c \in Requests : CoapStart(c)
  BY <1>8 DEF CoapStart, Begin, SetActive
<1>9. CASE CoapOpen \/ CoapSend \/ CoapWait
  BY <1>9 DEF CoapOpen, CoapSend, CoapWait
<1>10. CASE CoapExit
  BY <1>10 DEF CoapExit, End, SetSleepy, PollAfter
<1>11. CASE JoinStart \/ JoinEnd \/ FactoryReset
  BY <1>11 DEF JoinStart, Begin, JoinEnd, End, FactoryReset
<1>12. CASE \E ok \in BOOLEAN : JoinerDone(ok)
  <2>1. PICK ok \in BOOLEAN : JoinerDone(ok)
    BY <1>12
  <2>2. joiner' = FALSE /\ enabled' = (enabled \/ ok) /\ commissioned' = (commissioned \/ ok)
        /\ spoiled' = ~ok /\ UNCHANGED <<cmd, stage, request, verdict>>
    BY <2>1 DEF JoinerDone
  <2>3. enabled' \in BOOLEAN /\ commissioned' \in BOOLEAN /\ spoiled' \in BOOLEAN
    BY <2>2
  <2> QED
    BY <2>2, <2>3
<1>13. CASE Wipe \/ Reset
  BY BootStep, <1>13
<1>14. CASE UNCHANGED vars
  BY <1>14 DEF vars
<1> QED
  BY <1>1, <1>2, <1>3, <1>4, <1>5, <1>6, <1>7, <1>8, <1>9, <1>10, <1>11, <1>12, <1>13,
     <1>14 DEF Next

(* The events seen stay those a command can cause. *)
LEMMA SeenTypeStep ==
  ASSUME TypeOK, [Next]_vars
  PROVE  SeenType'
<1> USE DEF TypeOK, SeenType, link, node, request, flash, told
<1>1. CASE SedRefused \/ PingAtOnce \/ SntpRefused \/ CoapRefused \/ JoinRefused
  BY <1>1 DEF SedRefused, AtOnce, Answer, End, PingAtOnce, SntpRefused, CoapRefused,
     JoinRefused
<1>2. CASE \E on \in BOOLEAN, p \in Periods \cup {None} : SedLink(on, p)
  BY <1>2 DEF SedLink, Begin, PollAfter
<1>3. CASE SedStore \/ SedAnswer
  BY <1>3 DEF SedStore, SedAnswer, End
<1>4. CASE SedStoreFails
  BY <1>4 DEF SedStoreFails, End
<1>5. CASE SntpNoSocket
  BY <1>5 DEF SntpNoSocket, Answer, End, SetSleepy, PollAfter
<1>6. CASE \E c \in {"ping", "sntp"} : Ask(c)
  BY <1>6 DEF Ask, Begin, SetActive
<1>7. CASE Asked
  BY <1>7 DEF Asked, End, SetSleepy, PollAfter
<1>8. CASE \E c \in Requests : CoapStart(c)
  BY <1>8 DEF CoapStart, Begin, SetActive
<1>9. CASE CoapOpen \/ CoapSend \/ CoapWait
  BY <1>9 DEF CoapOpen, CoapSend, CoapWait
<1>10. CASE CoapExit
  BY <1>10 DEF CoapExit, End, SetSleepy, PollAfter
<1>11. CASE JoinStart \/ JoinEnd \/ FactoryReset
  BY <1>11 DEF JoinStart, Begin, JoinEnd, End, FactoryReset
<1>12. CASE \E ok \in BOOLEAN : JoinerDone(ok)
  BY <1>12 DEF JoinerDone
<1>13. CASE Wipe \/ Reset
  BY BootStep, <1>13
<1>14. CASE UNCHANGED vars
  BY <1>14 DEF vars
<1> QED
  BY <1>1, <1>2, <1>3, <1>4, <1>5, <1>6, <1>7, <1>8, <1>9, <1>10, <1>11, <1>12, <1>13,
     <1>14 DEF Next

(* Stages belong to commands; each path of a request ends in its clean-up. *)
LEMMA StageStep ==
  ASSUME TypeOK, StageInv, [Next]_vars
  PROVE  StageInv'
<1> USE DEF StageInv, Idle, None, Requests, link, node, request, flash, told
<1>1. CASE SedRefused \/ PingAtOnce \/ SntpRefused \/ CoapRefused \/ JoinRefused
  BY <1>1 DEF SedRefused, AtOnce, Answer, End, PingAtOnce, SntpRefused, CoapRefused,
     JoinRefused
<1>2. CASE \E on \in BOOLEAN, p \in Periods \cup {None} : SedLink(on, p)
  BY <1>2 DEF SedLink, Begin, PollAfter
<1>3. CASE SedStore \/ SedAnswer
  BY <1>3 DEF SedStore, SedAnswer, End
<1>4. CASE SedStoreFails
  BY <1>4 DEF SedStoreFails, End
<1>5. CASE SntpNoSocket
  BY <1>5 DEF SntpNoSocket, Answer, End, SetSleepy, PollAfter
<1>6. CASE \E c \in {"ping", "sntp"} : Ask(c)
  BY <1>6 DEF Ask, Begin, SetActive
<1>7. CASE Asked
  BY <1>7 DEF Asked, End, SetSleepy, PollAfter
<1>8. CASE \E c \in Requests : CoapStart(c)
  BY <1>8 DEF CoapStart, Begin, SetActive
<1>9. CASE CoapOpen \/ CoapSend \/ CoapWait
  BY <1>9 DEF CoapOpen, CoapSend, CoapWait
<1>10. CASE CoapExit
  BY <1>10 DEF CoapExit, End, SetSleepy, PollAfter
<1>11. CASE JoinStart \/ JoinEnd \/ FactoryReset
  BY <1>11 DEF JoinStart, Begin, JoinEnd, End, FactoryReset
<1>12. CASE \E ok \in BOOLEAN : JoinerDone(ok)
  BY <1>12 DEF JoinerDone
<1>13. CASE Wipe \/ Reset
  BY BootStep, <1>13
<1>14. CASE UNCHANGED vars
  BY <1>14 DEF vars
<1> QED
  BY <1>1, <1>2, <1>3, <1>4, <1>5, <1>6, <1>7, <1>8, <1>9, <1>10, <1>11, <1>12, <1>13,
     <1>14 DEF Next

(* A bracket that was opened is closed; no start is at the active period. *)
LEMMA QuietStep ==
  ASSUME TypeOK, StageInv, QuietInv, [Next]_vars
  PROVE  QuietInv'
<1> USE DEF QuietInv, StageInv, Bracketed, Idle, None, Requests, link, node, request,
           flash, told
<1>1. CASE SedRefused \/ PingAtOnce \/ SntpRefused \/ CoapRefused \/ JoinRefused
  BY <1>1 DEF SedRefused, AtOnce, Answer, End, PingAtOnce, SntpRefused, CoapRefused,
     JoinRefused
<1>2. CASE \E on \in BOOLEAN, p \in Periods \cup {None} : SedLink(on, p)
  BY SettingsParts, ActiveApart, DefaultTaken, <1>2 DEF SedLink, Begin, PollAfter
<1>3. CASE SedStore \/ SedAnswer
  BY <1>3 DEF SedStore, SedAnswer, End
<1>4. CASE SedStoreFails
  BY <1>4 DEF SedStoreFails, End
<1>5. CASE SntpNoSocket
  BY SettingsParts, ActiveApart, DefaultTaken, <1>5 DEF SntpNoSocket, Answer, End,
     SetSleepy, PollAfter, TypeOK, DataType
<1>6. CASE \E c \in {"ping", "sntp"} : Ask(c)
  BY <1>6 DEF Ask, Begin, SetActive
<1>7. CASE Asked
  BY SettingsParts, ActiveApart, DefaultTaken, <1>7 DEF Asked, End, SetSleepy,
     PollAfter, TypeOK, DataType
<1>8. CASE \E c \in Requests : CoapStart(c)
  BY <1>8 DEF CoapStart, Begin, SetActive
<1>9. CASE CoapOpen \/ CoapSend \/ CoapWait
  BY <1>9 DEF CoapOpen, CoapSend, CoapWait
<1>10. CASE CoapExit
  BY SettingsParts, ActiveApart, DefaultTaken, <1>10 DEF CoapExit, End, SetSleepy,
     PollAfter, TypeOK, DataType
<1>11. CASE JoinStart \/ JoinEnd \/ FactoryReset
  BY <1>11 DEF JoinStart, Begin, JoinEnd, End, FactoryReset
<1>12. CASE \E ok \in BOOLEAN : JoinerDone(ok)
  BY <1>12 DEF JoinerDone
<1>13. CASE Wipe \/ Reset
  BY BootStep, SettingsParts, ActiveApart, DefaultTaken, <1>13
<1>14. CASE UNCHANGED vars
  BY <1>14 DEF vars
<1> QED
  BY <1>1, <1>2, <1>3, <1>4, <1>5, <1>6, <1>7, <1>8, <1>9, <1>10, <1>11, <1>12, <1>13,
     <1>14 DEF Next

(* Thread is taken down only for a join, whose failure is noted. *)
LEMMA OnlineStep ==
  ASSUME TypeOK, StaysOnline, [Next]_vars
  PROVE  StaysOnline'
<1> USE DEF StaysOnline, TypeOK, link, node, request, flash, told
<1>1. CASE SedRefused \/ PingAtOnce \/ SntpRefused \/ CoapRefused \/ JoinRefused
  BY <1>1 DEF SedRefused, AtOnce, Answer, End, PingAtOnce, SntpRefused, CoapRefused,
     JoinRefused
<1>2. CASE \E on \in BOOLEAN, p \in Periods \cup {None} : SedLink(on, p)
  BY <1>2 DEF SedLink, Begin, PollAfter
<1>3. CASE SedStore \/ SedAnswer
  BY <1>3 DEF SedStore, SedAnswer, End
<1>4. CASE SedStoreFails
  BY <1>4 DEF SedStoreFails, End
<1>5. CASE SntpNoSocket
  BY <1>5 DEF SntpNoSocket, Answer, End, SetSleepy, PollAfter
<1>6. CASE \E c \in {"ping", "sntp"} : Ask(c)
  BY <1>6 DEF Ask, Begin, SetActive
<1>7. CASE Asked
  BY <1>7 DEF Asked, End, SetSleepy, PollAfter
<1>8. CASE \E c \in Requests : CoapStart(c)
  BY <1>8 DEF CoapStart, Begin, SetActive
<1>9. CASE CoapOpen \/ CoapSend \/ CoapWait
  BY <1>9 DEF CoapOpen, CoapSend, CoapWait
<1>10. CASE CoapExit
  BY <1>10 DEF CoapExit, End, SetSleepy, PollAfter
<1>11. CASE JoinStart \/ JoinEnd \/ FactoryReset
  BY <1>11 DEF JoinStart, Begin, JoinEnd, End, FactoryReset
<1>12. CASE \E ok \in BOOLEAN : JoinerDone(ok)
  BY <1>12 DEF JoinerDone
<1>13. CASE Wipe \/ Reset
  BY BootStep, <1>13
<1>14. CASE UNCHANGED vars
  BY <1>14 DEF vars
<1> QED
  BY <1>1, <1>2, <1>3, <1>4, <1>5, <1>6, <1>7, <1>8, <1>9, <1>10, <1>11, <1>12, <1>13,
     <1>14 DEF Next

(* A join or a request reaches a stage only after the events that lead to it. *)
LEMMA SeenStep ==
  ASSUME TypeOK, StageInv, SeenInv, [Next]_vars
  PROVE  SeenInv'
<1> USE DEF SeenInv, StageInv, Idle, None, Requests, link, node, request, flash, told
<1>1. CASE SedRefused \/ PingAtOnce \/ SntpRefused \/ CoapRefused \/ JoinRefused
  BY <1>1 DEF SedRefused, AtOnce, Answer, End, PingAtOnce, SntpRefused, CoapRefused,
     JoinRefused
<1>2. CASE \E on \in BOOLEAN, p \in Periods \cup {None} : SedLink(on, p)
  BY <1>2 DEF SedLink, Begin, PollAfter
<1>3. CASE SedStore \/ SedAnswer
  BY <1>3 DEF SedStore, SedAnswer, End
<1>4. CASE SedStoreFails
  BY <1>4 DEF SedStoreFails, End
<1>5. CASE SntpNoSocket
  BY <1>5 DEF SntpNoSocket, Answer, End, SetSleepy, PollAfter
<1>6. CASE \E c \in {"ping", "sntp"} : Ask(c)
  BY <1>6 DEF Ask, Begin, SetActive
<1>7. CASE Asked
  BY <1>7 DEF Asked, End, SetSleepy, PollAfter
<1>8. CASE \E c \in Requests : CoapStart(c)
  BY <1>8 DEF CoapStart, Begin, SetActive
<1>9. CASE CoapOpen \/ CoapSend \/ CoapWait
  BY <1>9 DEF CoapOpen, CoapSend, CoapWait
<1>10. CASE CoapExit
  BY <1>10 DEF CoapExit, End, SetSleepy, PollAfter
<1>11. CASE JoinStart \/ JoinEnd \/ FactoryReset
  BY <1>11 DEF JoinStart, Begin, JoinEnd, End, FactoryReset
<1>12. CASE \E ok \in BOOLEAN : JoinerDone(ok)
  BY <1>12 DEF JoinerDone
<1>13. CASE Wipe \/ Reset
  BY BootStep, <1>13
<1>14. CASE UNCHANGED vars
  BY <1>14 DEF vars
<1> QED
  BY <1>1, <1>2, <1>3, <1>4, <1>5, <1>6, <1>7, <1>8, <1>9, <1>10, <1>11, <1>12, <1>13,
     <1>14 DEF Next

(* The steps of AT+SED. *)
SedStep ==
  \/ \E on \in BOOLEAN, p \in Periods \cup {None} : SedLink(on, p)
  \/ SedStore \/ SedStoreFails \/ SedAnswer

(* No other command changes the settings or the mode; one that closes a     *)
(* bracket restores the cached period.                                      *)
LEMMA Elsewhere ==
  ASSUME TypeOK, StageInv, [Next]_vars, ~SedStep, ~(Wipe \/ Reset)
  PROVE  /\ stored' = stored /\ cached' = cached /\ draft' = draft
         /\ promised' = promised /\ tried' = tried
         /\ ftd' = ftd /\ rxOn' = rxOn
         /\ stage' \in {"store", "answer"} => stage' = stage /\ poll' = poll
         /\ \/ poll' = poll /\ (cmd' \in Bracketed <=> cmd \in Bracketed)
            \/ rxOn /\ poll' = poll
            \/ cmd' \in Bracketed /\ ~rxOn
            \/ poll' = PollAfter(cached.poll, poll)
<1> USE DEF StageInv, Bracketed, Idle, None, Requests, link, node, request, flash, told
<1>1. CASE SedRefused \/ PingAtOnce \/ SntpRefused \/ CoapRefused \/ JoinRefused
  BY <1>1 DEF SedRefused, AtOnce, Answer, End, PingAtOnce, SntpRefused, CoapRefused,
     JoinRefused
<1>2. CASE SntpNoSocket
  BY <1>2 DEF SntpNoSocket, Answer, End, SetSleepy
<1>3. CASE \E c \in {"ping", "sntp"} : Ask(c)
  BY <1>3 DEF Ask, Begin, SetActive
<1>4. CASE Asked
  BY <1>4 DEF Asked, End, SetSleepy
<1>5. CASE \E c \in Requests : CoapStart(c)
  BY <1>5 DEF CoapStart, Begin, SetActive
<1>6. CASE CoapOpen \/ CoapSend \/ CoapWait
  BY <1>6 DEF CoapOpen, CoapSend, CoapWait
<1>7. CASE CoapExit
  BY <1>7 DEF CoapExit, End, SetSleepy
<1>8. CASE JoinStart \/ JoinEnd \/ FactoryReset
  BY <1>8 DEF JoinStart, Begin, JoinEnd, End, FactoryReset
<1>9. CASE \E ok \in BOOLEAN : JoinerDone(ok)
  BY <1>9 DEF JoinerDone
<1>10. CASE UNCHANGED vars
  BY <1>10 DEF vars
<1> QED
  BY <1>1, <1>2, <1>3, <1>4, <1>5, <1>6, <1>7, <1>8, <1>9, <1>10 DEF Next, SedStep

(* What AT+SED does, step by step. *)
LEMMA SedSteps ==
  ASSUME TypeOK, StageInv, FlashInv, DraftInv, SedStep
  PROVE  /\ cached' = cached /\ ftd' = ftd
         /\ cmd \notin Bracketed /\ cmd' \notin Bracketed
         /\ \/ /\ stage' = "store" /\ Load' = Load /\ promised' = promised
               /\ tried' = tried \cup {draft'.set} /\ rxOn' = ~draft'.set.sed
               /\ ftd => ~draft'.set.sed
               /\ \/ draft'.named /\ poll' = PollAfter(draft'.set.poll, poll)
                  \/ ~draft'.named /\ poll' = poll /\ draft'.set.poll = Load.poll
            \/ /\ stage = "store" /\ stage' = "answer" /\ Load' = draft.set
               /\ draft' = draft /\ promised' = promised /\ tried' = tried
               /\ rxOn' = rxOn /\ poll' = poll
            \/ /\ stage = "store" /\ stage' = None /\ Load' = Load
               /\ promised' = promised /\ tried' = tried
               /\ rxOn' = rxOn /\ poll' = poll
            \/ /\ stage = "answer" /\ stage' = None /\ Load' = Load
               /\ promised' = draft.set
               /\ tried' = IF draft.named THEN {}
                          ELSE {[s EXCEPT !.sed = draft.set.sed] : s \in tried}
               /\ rxOn' = rxOn /\ poll' = poll
<1> USE DEF StageInv, Bracketed, Idle, None, Requests, link, node, request, flash, told
<1>1. CASE \E on \in BOOLEAN, p \in Periods \cup {None} : SedLink(on, p)
  <2>1. PICK on \in BOOLEAN, p \in Periods \cup {None} : SedLink(on, p)
    BY <1>1
  <2> DEFINE named == on /\ p # None
             set   == [sed |-> on, poll |-> IF named THEN p ELSE Load.poll]
  <2>2. /\ cached' = cached /\ ftd' = ftd /\ stored' = stored /\ promised' = promised
        /\ cmd = None /\ cmd' = "sed" /\ stage' = "store"
        /\ rxOn' = ~on /\ ~(on /\ ftd)
        /\ poll' = IF named THEN PollAfter(p, poll) ELSE poll
        /\ draft' = [set |-> set, named |-> named]
        /\ tried' = tried \cup {set}
    BY <2>1 DEF SedLink, Begin
  <2>3. draft'.set = set /\ draft'.named = named
    BY <2>2
  <2>4. Load' = Load
    BY <2>2 DEF Load
  <2> HIDE DEF set
  <2>5. set.sed = on /\ set.poll = IF named THEN p ELSE Load.poll
    BY DEF set
  <2> HIDE DEF named
  <2> QED
    BY <2>2, <2>3, <2>4, <2>5
<1>2. CASE SedStore
  BY AbsentApart, <1>2 DEF SedStore, Load, TypeOK, DataType
<1>3. CASE SedStoreFails
  BY <1>3 DEF SedStoreFails, End, Load
<1>4. CASE SedAnswer
  BY <1>4 DEF SedAnswer, End, Load
<1> QED
  BY <1>1, <1>2, <1>3, <1>4 DEF SedStep

(* Flash changes before it is acknowledged, to what the link has been given. *)
LEMMA FlashStep ==
  ASSUME TypeOK, StageInv, FlashInv, DraftInv, [Next]_vars
  PROVE  FlashInv'
<1> USE DEF FlashInv, FlashKept, DraftInv, None
<1>1. CASE ~SedStep /\ ~(Wipe \/ Reset)
  <2>1. Load' = Load
    BY <1>1, Elsewhere DEF Load
  <2> QED
    BY <1>1, <2>1, Elsewhere
<1>2. CASE SedStep
  BY <1>2, SedSteps
<1>3. CASE Wipe \/ Reset
  <2>1. /\ Load' = Load /\ promised' = promised /\ ftd' = ftd /\ stage' = None
        /\ tried' = {Load} \/ tried' = tried
    BY <1>3, BootStep
  <2> QED
    BY <2>1
<1> QED
  BY <1>1, <1>2, <1>3

(* The link is given what the draft holds. *)
LEMMA DraftStep ==
  ASSUME TypeOK, StageInv, FlashInv, DraftInv, [Next]_vars
  PROVE  DraftInv'
<1> USE DEF FlashInv, DraftInv, None
<1>1. CASE ~SedStep /\ ~(Wipe \/ Reset)
  <2>1. Load' = Load
    BY <1>1, Elsewhere DEF Load
  <2> QED
    BY <1>1, <2>1, Elsewhere
<1>2. CASE SedStep
  BY <1>2, SedSteps DEF PollAfter
<1>3. CASE Wipe \/ Reset
  BY <1>3, BootStep
<1> QED
  BY <1>1, <1>2, <1>3

(* The mode: acknowledged, tried since, or restored by a start. *)
LEMMA ModeStep ==
  ASSUME TypeOK, StageInv, FlashInv, DraftInv, ModeKept, [Next]_vars
  PROVE  ModeKept'
<1> USE DEF ModeKept
<1>1. CASE ~SedStep /\ ~(Wipe \/ Reset)
  BY <1>1, Elsewhere
<1>2. CASE SedStep
  BY <1>2, SedSteps DEF DraftInv
<1>3. CASE Wipe \/ Reset
  <2>1. Load.sed \in BOOLEAN /\ rxOn \in BOOLEAN /\ ftd \in BOOLEAN
    BY LoadType, SettingsParts DEF TypeOK, DataType
  <2>2. Load.sed => rxOn' = FALSE
    BY <1>3, <2>1, BootStep DEF FlashInv
  <2>3. CASE tried' = {Load} /\ (~Load.sed => rxOn' = TRUE)
    <3>1. rxOn' = ~Load.sed
      BY <2>1, <2>2, <2>3
    <3> QED
      BY <2>3, <3>1
  <2>4. CASE tried' = tried /\ ~Load.sed /\ rxOn' \in {TRUE, rxOn}
    BY <1>3, <2>4, BootStep DEF FlashInv, FlashKept
  <2> QED
    BY <1>3, <2>3, <2>4, BootStep
<1> QED
  BY <1>1, <1>2, <1>3

(* The period: an end of a bracket restores the cached one. *)
LEMMA PeriodStep ==
  ASSUME TypeOK, StageInv, FlashInv, DraftInv, PeriodInv, [Next]_vars
  PROVE  PeriodInv'
<1> DEFINE Polls == {s.poll : s \in {Load} \cup tried}
<1>1. CASE ~SedStep /\ ~(Wipe \/ Reset)
  <2>1. Load' = Load /\ cached' = cached /\ rxOn' = rxOn /\ tried' = tried
    BY <1>1, Elsewhere DEF Load
  <2>2. Polls' = Polls
    BY <2>1
  <2>3. cached.poll = Load.poll => cached.poll \in Polls
    OBVIOUS
  <2> HIDE DEF Polls
  <2>4. PeriodInv <=>
          (/\ cached.sed /\ cached.poll = Load.poll /\ cached.poll \notin Refused
           /\ rxOn \/ cmd \notin Bracketed
           => poll \in Polls)
    BY DEF PeriodInv, Polls
  <2>5. PeriodInv' <=>
          (/\ cached'.sed /\ cached'.poll = Load'.poll /\ cached'.poll \notin Refused
           /\ rxOn' \/ cmd' \notin Bracketed
           => poll' \in Polls')
    BY DEF PeriodInv, Polls, Bracketed
  <2>6. \/ poll' = poll /\ (cmd' \in Bracketed <=> cmd \in Bracketed)
        \/ rxOn /\ poll' = poll
        \/ cmd' \in Bracketed /\ ~rxOn
        \/ poll' = IF cached.poll \in Refused THEN poll ELSE cached.poll
    BY <1>1, Elsewhere DEF PollAfter
  <2> QED
    BY <2>1, <2>2, <2>3, <2>4, <2>5, <2>6
<1>2. CASE SedStep
  <2>1. /\ cached' = cached /\ cmd \notin Bracketed /\ cmd' \notin Bracketed
    BY <1>2, SedSteps
  <2>2. ASSUME cached.sed, cached.poll = Load'.poll, cached.poll \notin Refused
        PROVE  poll' \in Polls'
    <3>1. CASE stage' = "store"
      <4>1. /\ Load' = Load /\ tried' = tried \cup {draft'.set}
            /\ \/ draft'.named /\ poll' = PollAfter(draft'.set.poll, poll)
               \/ ~draft'.named /\ poll' = poll /\ draft'.set.poll = Load.poll
        BY <1>2, <3>1, SedSteps DEF None
      <4>2. poll \in Polls
        BY <2>1, <2>2, <4>1 DEF PeriodInv
      <4> QED
        BY <4>1, <4>2 DEF PollAfter
    <3>2. CASE stage' = "answer"
      <4>1. /\ Load' = draft.set /\ tried' = tried /\ poll' = poll /\ stage = "store"
        BY <1>2, <3>2, SedSteps DEF None
      <4>2. CASE draft.named
        BY <2>2, <4>1, <4>2 DEF DraftInv
      <4>3. CASE ~draft.named
        <5>1. Load.poll = draft.set.poll
          BY <4>1, <4>3 DEF DraftInv
        <5>2. poll \in Polls
          BY <2>1, <2>2, <4>1, <5>1 DEF PeriodInv
        <5> QED
          BY <4>1, <5>1, <5>2
      <4> QED
        BY <4>2, <4>3
    <3>3. CASE stage' = None /\ stage = "store"
      BY <1>2, <2>1, <2>2, <3>3, SedSteps DEF None, PeriodInv
    <3>4. CASE stage' = None /\ stage = "answer"
      <4>1. /\ Load' = Load /\ Load = draft.set /\ poll' = poll
            /\ tried' = IF draft.named THEN {}
                       ELSE {[s EXCEPT !.sed = draft.set.sed] : s \in tried}
        BY <1>2, <3>4, SedSteps DEF None, FlashInv
      <4>2. CASE draft.named
        BY <2>2, <3>4, <4>1, <4>2 DEF DraftInv
      <4>3. CASE ~draft.named
        <5>1. poll \in Polls
          BY <2>1, <2>2, <4>1 DEF PeriodInv
        <5>2. ASSUME NEW s \in tried PROVE \E t \in tried' : t.poll = s.poll
          <6> DEFINE t == [s EXCEPT !.sed = draft.set.sed]
          <6>1. t \in tried'
            BY <4>1, <4>3
          <6>2. s \in Settings
            BY DEF TypeOK, DataType
          <6>3. t.poll = s.poll
            BY <6>2 DEF Settings
          <6> QED
            BY <6>1, <6>3
        <5>3. PICK s \in {Load} \cup tried : s.poll = poll
          BY <5>1
        <5>4. PICK t \in {Load'} \cup tried' : t.poll = poll
          BY <4>1, <5>2, <5>3
        <5> QED
          BY <4>1, <5>4
      <4> QED
        BY <4>2, <4>3
    <3> QED
      BY <1>2, <3>1, <3>2, <3>3, <3>4, SedSteps
  <2>3. PeriodInv' <=>
          (/\ cached'.sed /\ cached'.poll = Load'.poll /\ cached'.poll \notin Refused
           /\ rxOn' \/ cmd' \notin Bracketed
           => poll' \in Polls')
    BY DEF PeriodInv, Bracketed
  <2> QED
    BY <2>1, <2>2, <2>3
<1>3. CASE Wipe \/ Reset
  BY <1>3, BootStep DEF PeriodInv
<1> QED
  BY <1>1, <1>2, <1>3

-----------------------------------------------------------------------------
(* The theorems *)

LEMMA InitInv == Init => ThreadInv
<1> SUFFICES ASSUME Init PROVE ThreadInv
  OBVIOUS
<1> USE DEF Init
<1>1. Load = Defaults /\ Defaults.sed = FALSE /\ cached.sed = FALSE
  BY DEF Load, Defaults
<1>2. TypeOK
  BY DefaultsType DEF TypeOK, DataType, ControlType, SeenType
<1>3. StageInv /\ StaysOnline /\ SeenInv
  BY DEF StageInv, StaysOnline, SeenInv, Idle, None, Requests
<1>4. QuietInv
  BY ActiveApart DEF QuietInv
<1>5. FlashInv /\ DraftInv /\ ModeKept /\ PeriodInv
  BY <1>1 DEF FlashInv, FlashKept, DraftInv, ModeKept, PeriodInv, None
<1> QED
  BY <1>2, <1>3, <1>4, <1>5 DEF ThreadInv

LEMMA InvStep == ThreadInv /\ [Next]_vars => ThreadInv'
BY DataStep, ControlStep, SeenTypeStep, StageStep, QuietStep, OnlineStep, SeenStep,
   FlashStep, DraftStep, ModeStep, PeriodStep DEF ThreadInv, TypeOK

(* Every variable keeps its type. *)
THEOREM AtThreadTypeOK == Spec => []TypeOK
<1>1. ThreadInv => TypeOK
  BY DEF ThreadInv
<1> QED
  BY <1>1, InitInv, InvStep, PTL DEF Spec

(* No command leaves a socket, a buffer or a fast radio behind. *)
THEOREM AtThreadAtRest == Spec => []AtRest
<1>1. ASSUME ThreadInv PROVE AtRest
  BY <1>1 DEF ThreadInv, StageInv, QuietInv, AtRest, Idle, None, Requests, Bracketed
<1> QED
  BY <1>1, InitInv, InvStep, PTL DEF Spec

(* Through failing writes and restarts anywhere, flash and link hold the   *)
(* settings acknowledged, or some tried since.                             *)
THEOREM AtThreadSettingsKept == Spec => []SettingsKept
<1>1. ASSUME ThreadInv PROVE SettingsKept
  <2>1. ModeKept
    BY <1>1 DEF ThreadInv
  <2>2. FlashKept
    BY <1>1 DEF ThreadInv, FlashInv
  <2>3. PollKept
    BY <1>1 DEF ThreadInv, StageInv, PeriodInv, PollKept, Idle, None, Requests, Bracketed
  <2> QED
    BY <2>1, <2>2, <2>3 DEF SettingsKept
<1> QED
  BY <1>1, InitInv, InvStep, PTL DEF Spec

(* A commissioned node stays on the network until a join fails. *)
THEOREM AtThreadStaysOnline == Spec => []StaysOnline
<1>1. ThreadInv => StaysOnline
  BY DEF ThreadInv
<1> QED
  BY <1>1, InitInv, InvStep, PTL DEF Spec

(* A join answers OK only after the joiner has reported, a request only    *)
(* when it was sent; AT+COAPTB answers ERROR only when it got no answer.   *)
THEOREM AtThreadVerdictTells == Spec => VerdictTells
<1> DEFINE Tells ==
      ~Idle /\ cmd' = None =>
        /\ cmd = "join" /\ verdict' = "OK" => "result" \in seen
        /\ cmd \in Requests /\ verdict' = "OK" => "sent" \in seen
        /\ cmd = "tb" /\ verdict' = "ERROR" => "answer" \notin seen
<1>1. ASSUME ThreadInv, [Next]_vars PROVE [Tells]_vars
  <2> USE <1>1 DEF Idle, None, Requests
  <2>1. CASE JoinEnd
    BY <2>1 DEF JoinEnd, End, ThreadInv, SeenInv
  <2>2. CASE CoapExit
    <3>1. cmd \in Requests /\ stage = "exit" /\ SeenInv
      BY <2>2 DEF CoapExit, ThreadInv, StageInv
    <3>2. verdict' = "OK" => ret # "negative"
      BY <2>2 DEF CoapExit, End
    <3>3. cmd = "tb" /\ verdict' = "ERROR" => ret # "zero" /\ ret # "positive"
      BY <2>2 DEF CoapExit, End
    <3>4. ret \in {"negative", "zero", "positive"}
      BY DEF ThreadInv, TypeOK, ControlType
    <3> QED
      BY <3>1, <3>2, <3>3, <3>4 DEF SeenInv
  <2>3. CASE SedStore \/ SedStoreFails \/ SedAnswer
    BY <2>3 DEF SedStore, SedStoreFails, SedAnswer, ThreadInv, StageInv
  <2>4. CASE Asked
    BY <2>4 DEF Asked
  <2>5. CASE Wipe \/ Reset
    BY <2>5, BootStep DEF ThreadInv
  <2>6. CASE CoapOpen \/ CoapSend \/ CoapWait \/ \E ok \in BOOLEAN : JoinerDone(ok)
    BY <2>6 DEF CoapOpen, CoapSend, CoapWait, JoinerDone
  <2>7. CASE UNCHANGED vars
    BY <2>7
  <2>8. ASSUME ~Idle, Next
        PROVE  \/ JoinEnd \/ CoapExit \/ SedStore \/ SedStoreFails \/ SedAnswer
               \/ Asked \/ Wipe \/ Reset \/ CoapOpen \/ CoapSend \/ CoapWait
               \/ \E ok \in BOOLEAN : JoinerDone(ok)
    BY <2>8 DEF Next, SedRefused, SedLink, PingAtOnce, SntpRefused, SntpNoSocket, Ask,
                CoapRefused, CoapStart, JoinRefused, JoinStart, FactoryReset,
                AtOnce, Answer, End, Begin
  <2> QED
    BY <2>1, <2>2, <2>3, <2>4, <2>5, <2>6, <2>7, <2>8
<1> QED
  BY <1>1, InitInv, InvStep, PTL DEF Spec, VerdictTells

-----------------------------------------------------------------------------
(* That commands end: the part of CommandEnds that is not fairness *)

(* What a command in progress waits for; each has an action of its own. *)
Waits ==
  \/ cmd = "sed" /\ stage \in {"store", "answer"}
  \/ cmd \in {"ping", "sntp", "join", "frst"} /\ stage = "wait"
  \/ cmd \in Requests /\ stage \in {"open", "send", "wait", "exit"}

(* How many steps it can still take, the report of the joiner included. *)
Ahead(s) ==
  CASE s = "open" -> 4 [] s = "send" -> 3 [] s \in {"wait", "store"} -> 2
    [] s \in {"exit", "answer"} -> 1 [] OTHER -> 0
StepsLeft == Ahead(stage) + IF joiner THEN 1 ELSE 0

Shrinks == [][~Idle => cmd' = None \/ (cmd' = cmd /\ StepsLeft' < StepsLeft)]_vars

(* A command in progress always waits for something that has an end, and   *)
(* every step of the node ends it or brings it nearer to its end: none     *)
(* starts another command, repeats a stage or goes back, so that after at  *)
(* most five steps the work queue is free.                                 *)
THEOREM AtThreadShrinks == Spec => [](~Idle => Waits) /\ Shrinks
<1>1. ThreadInv => (~Idle => Waits)
  BY DEF ThreadInv, TypeOK, ControlType, StageInv, SeenInv, Waits, Idle, None, Requests
<1>2. ASSUME ThreadInv, [Next]_vars
      PROVE  [~Idle => cmd' = None \/ (cmd' = cmd /\ StepsLeft' < StepsLeft)]_vars
  <2> USE <1>2 DEF Idle, None, Requests
  <2>1. CASE JoinEnd \/ SedStoreFails \/ SedAnswer \/ Asked \/ CoapExit
    BY <2>1 DEF JoinEnd, SedStoreFails, SedAnswer, Asked, CoapExit, End
  <2>2. CASE Wipe \/ Reset
    BY <2>2, BootStep DEF ThreadInv
  <2>3. CASE SedStore \/ CoapOpen \/ CoapSend \/ CoapWait
    <3>1. cmd' = cmd /\ joiner' = joiner /\ Ahead(stage') < Ahead(stage)
      BY <2>3 DEF SedStore, CoapOpen, CoapSend, CoapWait, Ahead, node
    <3> QED
      BY <3>1 DEF StepsLeft, Ahead
  <2>4. CASE \E ok \in BOOLEAN : JoinerDone(ok)
    <3>1. cmd' = cmd /\ stage' = stage /\ joiner /\ ~joiner'
      BY <2>4 DEF JoinerDone
    <3> QED
      BY <3>1 DEF StepsLeft, Ahead
  <2>5. CASE UNCHANGED vars
    BY <2>5
  <2>6. ASSUME ~Idle, Next
        PROVE  \/ JoinEnd \/ SedStoreFails \/ SedAnswer \/ Asked \/ CoapExit \/ Wipe \/ Reset
               \/ SedStore \/ CoapOpen \/ CoapSend \/ CoapWait
               \/ \E ok \in BOOLEAN : JoinerDone(ok)
    BY <2>6 DEF Next, SedRefused, SedLink, PingAtOnce, SntpRefused, SntpNoSocket, Ask,
                CoapRefused, CoapStart, JoinRefused, JoinStart, FactoryReset,
                AtOnce, Answer, End, Begin
  <2> QED
    BY <2>1, <2>2, <2>3, <2>4, <2>5, <2>6
<1> QED
  BY <1>1, <1>2, InitInv, InvStep, PTL DEF Spec, Shrinks
=============================================================================
