------------------------------ MODULE AtThread ------------------------------
(***************************************************************************)
(* The commands of at_server that change the Thread node: AT+SED, AT+JOIN, *)
(* AT+PING, AT+SNTP, AT+FRST (at_openthread.c), the CoAP requests          *)
(* (at_coap.c, app_coap.c) and what they share: the link mode and the poll *)
(* period of the radio, the settings in flash and their copy in RAM        *)
(* (app_openthread.c, app_settings.c), one socket and one buffer.          *)
(*                                                                         *)
(* Commands run one after another in the system work queue.  Each is cut   *)
(* where it sleeps or blocks, AT+SED before its flash write and before its *)
(* answer; there the OpenThread thread may run, and the device may restart *)
(* between any two steps.  The child timeout, which is stored and          *)
(* restored with the period and switched by nothing, and the PAN id, which *)
(* AT+JOIN clears while Thread is off, are left out.  So are the commands  *)
(* that only read and answer.                                              *)
(***************************************************************************)
CONSTANTS
  Periods,    \* poll periods a host asks for
  Refused,    \* those below OpenThread's minimum
  Absent      \* what flash holds before the first AT+SED

Default == "default"   \* CONFIG_APP_OPENTHREAD_SLEEPY_POLL_PERIOD
Active  == "active"    \* CONFIG_APP_OPENTHREAD_ACTIVE_POLL_PERIOD
Unset   == "unset"     \* OpenThread's own choice
None    == "none"

(* Periods stands for the periods that differ from the configured ones. *)
ASSUME AtThreadAssumption ==
  /\ Refused \subseteq Periods
  /\ \A p \in {Default, Active, Unset, None} : p \notin Periods
  /\ Absent \notin [sed : BOOLEAN, poll : Periods \cup {Default}]

VARIABLES
  stored,           \* the settings in flash, or Absent
  cached,           \* ot_settings of app_openthread.c
  ftd, rxOn, poll,  \* the link: full Thread device, mRxOnWhenIdle, poll period
  commissioned,     \* there is a dataset, which is kept in flash
  enabled, joiner,  \* Thread is on; the joiner is not idle
  cmd, stage,       \* the command in progress and where it sleeps or blocks
  draft,            \* AT+SED: the settings to store, and whether a period was given
  sock, buffer,     \* CoAP: the socket is open, the payload is allocated
  ret,              \* CoAP: sign of the value app_coap_send_request returns
  verdict,          \* final line of the last command
  promised,         \* ghost: settings of the last AT+SED answered OK
  tried,            \* ghost: what AT+SED has given the link since, as far as it may last
  seen, spoiled     \* ghosts: events of this command; the last join did not succeed

link    == <<ftd, rxOn, poll>>
node    == <<commissioned, enabled, joiner>>
request == <<sock, buffer, ret>>
flash   == <<stored, cached, draft>>
told    == <<promised, tried>>
vars == <<stored, cached, ftd, rxOn, poll, commissioned, enabled, joiner, cmd, stage,
          draft, sock, buffer, ret, verdict, promised, tried, seen, spoiled>>

Settings == [sed : BOOLEAN, poll : Periods \cup {Default}]
Defaults == [sed |-> FALSE, poll |-> Default]
NoDraft  == [set |-> Defaults, named |-> FALSE]   \* outside AT+SED
Requests == {"get", "tb"}     \* AT+COAPGET and AT+COAPPOST; AT+COAPTB
Idle     == cmd = None

DataType ==
  /\ stored \in Settings \cup {Absent} /\ cached \in Settings /\ promised \in Settings
  /\ draft \in [set : Settings, named : BOOLEAN]
  /\ tried \subseteq Settings
  /\ ftd \in BOOLEAN /\ rxOn \in BOOLEAN
  /\ poll \in Periods \cup {Default, Active, Unset}

ControlType ==
  /\ commissioned \in BOOLEAN /\ enabled \in BOOLEAN /\ joiner \in BOOLEAN
  /\ cmd \in {None, "sed", "ping", "sntp", "join", "frst"} \cup Requests
  /\ stage \in {None, "store", "answer", "open", "send", "wait", "exit"}
  /\ sock \in BOOLEAN /\ buffer \in BOOLEAN /\ spoiled \in BOOLEAN
  /\ ret \in {"negative", "zero", "positive"}
  /\ verdict \in {None, "OK", "ERROR"}

SeenType == seen \subseteq {"sent", "answer", "result"}

TypeOK == DataType /\ ControlType /\ SeenType

-----------------------------------------------------------------------------
(* Helpers *)

(* app_settings_get, and the default of its callers when nothing is stored. *)
Load == IF stored = Absent THEN Defaults ELSE stored

(* otLinkSetPollPeriod: a period below the minimum is refused, which every *)
(* caller ignores.                                                         *)
PollAfter(p, was) == IF p \in Refused THEN was ELSE p

(* app_ot_set_power_state; a radio that always listens has no poll period. *)
SetActive == poll' = IF rxOn THEN poll ELSE Active
SetSleepy == poll' = IF rxOn THEN poll ELSE PollAfter(cached.poll, poll)

Begin(c, s) ==
  /\ Idle
  /\ cmd' = c /\ stage' = s
  /\ seen' = {}
  /\ UNCHANGED verdict

(* The parser returns to at_cmd_handler, which answers; locals are gone. *)
End(v) ==
  /\ cmd' = None /\ stage' = None
  /\ verdict' = v /\ seen' = {}

(* A command that ends without having slept. *)
Answer(v) == Idle /\ End(v)

(* A command that ends before it has changed anything. *)
AtOnce(v) ==
  /\ Answer(v)
  /\ UNCHANGED <<flash, link, node, request, told, spoiled>>

(* Mutant: when nothing is stored, no default is set. *)
BootBlank(mode) ==
  /\ cached' = stored
  /\ rxOn' = mode /\ poll' = Unset
  /\ enabled' = commissioned' /\ joiner' = FALSE
  /\ draft' = NoDraft /\ sock' = FALSE /\ buffer' = FALSE /\ ret' = "zero"
  /\ cmd' = None /\ stage' = None /\ verdict' = None
  /\ seen' = {} /\ spoiled' = FALSE
  /\ UNCHANGED <<stored, ftd, promised>>

(* app_openthread_network_start after a reset in which OpenThread has       *)
(* brought back the mode, from its own flash.  Switching on Thread fails    *)
(* only with IPv6 down, which the step before excludes.                     *)
Boot(mode) ==
  /\ cached' = Load
  /\ rxOn' = IF cached'.sed THEN ftd ELSE mode
  /\ poll' = IF cached'.sed THEN PollAfter(cached'.poll, Unset) ELSE Unset
  /\ enabled' = commissioned' /\ joiner' = FALSE
  /\ draft' = NoDraft /\ sock' = FALSE /\ buffer' = FALSE /\ ret' = "zero"
  /\ cmd' = None /\ stage' = None /\ verdict' = None
  /\ seen' = {} /\ spoiled' = FALSE
  /\ UNCHANGED <<stored, ftd, promised>>

Init ==
  /\ stored = Absent /\ cached = Defaults
  /\ ftd \in BOOLEAN /\ rxOn = TRUE /\ poll = Unset
  /\ commissioned \in BOOLEAN /\ enabled = commissioned /\ joiner = FALSE
  /\ cmd = None /\ stage = None
  /\ draft = NoDraft
  /\ sock = FALSE /\ buffer = FALSE /\ ret = "zero"
  /\ verdict = None
  /\ promised = Defaults /\ tried = {}
  /\ seen = {} /\ spoiled = FALSE

-----------------------------------------------------------------------------
(* AT+SED=<on>,<period>: the link first, then the flash, then the answer *)

(* Wrong parameters are refused first; OpenThread refuses a full Thread *)
(* device that sleeps.                                                  *)
SedRefused == AtOnce("ERROR")

(* Mutant: what is not given is taken from the copy in RAM. *)
SedLinkCached(on, p) ==
  /\ ~(on /\ ftd)
  /\ Begin("sed", "store")
  /\ rxOn' = ~on
  /\ LET named == on /\ p # None
         set   == [sed |-> on, poll |-> IF named THEN p ELSE cached.poll]
     IN /\ poll' = IF named THEN PollAfter(p, poll) ELSE poll
        /\ draft' = [set |-> set, named |-> named]
        /\ tried' = tried \cup {set}
  /\ UNCHANGED <<stored, cached, ftd, node, request, promised, spoiled>>

(* p is None when the parameter is missing or not a number. *)
SedLink(on, p) ==
  /\ ~(on /\ ftd)
  /\ Begin("sed", "store")
  /\ rxOn' = ~on
  /\ LET named == on /\ p # None
         set   == [sed |-> on, poll |-> IF named THEN p ELSE Load.poll]
     IN /\ poll' = IF named THEN PollAfter(p, poll) ELSE poll
        /\ draft' = [set |-> set, named |-> named]
        /\ tried' = tried \cup {set}
  /\ UNCHANGED <<stored, cached, ftd, node, request, promised, spoiled>>

SedStore ==
  /\ stage = "store" /\ stage' = "answer"
  /\ stored' = draft.set
  /\ UNCHANGED <<cached, draft, link, node, request, cmd, verdict, told, seen, spoiled>>

(* app_settings_set fails: the link keeps what it was given. *)
SedStoreFails ==
  /\ stage = "store"
  /\ draft' = NoDraft
  /\ End("ERROR")
  /\ UNCHANGED <<stored, cached, link, node, request, told, spoiled>>

(* Now the mode is the one acknowledged, whatever was tried before; the     *)
(* period is unless none was given, which leaves the one the link has.      *)
SedAnswer ==
  /\ stage = "answer"
  /\ draft' = NoDraft
  /\ promised' = draft.set
  /\ tried' = IF draft.named THEN {}
              ELSE {[s EXCEPT !.sed = draft.set.sed] : s \in tried}
  /\ End("OK")
  /\ UNCHANGED <<stored, cached, link, node, request, spoiled>>

-----------------------------------------------------------------------------
(* AT+PING and AT+SNTP *)

(* OK without an interface, ERROR for wrong parameters. *)
PingAtOnce == \E v \in {"OK", "ERROR"} : AtOnce(v)

(* An address that cannot be read. *)
SntpRefused == AtOnce("ERROR")

(* sntp_init fails: the bracket is closed without having been opened. *)
SntpNoSocket ==
  /\ Answer("ERROR")
  /\ SetSleepy
  /\ UNCHANGED <<flash, ftd, rxOn, node, request, told, spoiled>>

Ask(c) ==
  /\ c \in {"ping", "sntp"}
  /\ Begin(c, "wait")
  /\ SetActive
  /\ UNCHANGED <<flash, ftd, rxOn, node, request, told, spoiled>>

(* The sleep of three seconds or the query ends, either way. *)
Asked ==
  /\ cmd \in {"ping", "sntp"}
  /\ \E v \in {"OK", "ERROR"} : End(v)
  /\ SetSleepy
  /\ UNCHANGED <<flash, ftd, rxOn, node, request, told, spoiled>>

-----------------------------------------------------------------------------
(* CoAP *)

(* Wrong parameters, or no memory for the payload. *)
CoapRefused == AtOnce("ERROR")

CoapStart(c) ==
  /\ c \in Requests
  /\ Begin(c, "open")
  /\ buffer' = TRUE
  /\ SetActive
  /\ UNCHANGED <<flash, ftd, rxOn, node, sock, ret, told, spoiled>>

(* Mutant: a failing connect returns past the clean-up. *)
CoapOpenReturns ==
  /\ stage = "open"
  /\ \/ sock' = TRUE /\ stage' = "send" /\ UNCHANGED <<cmd, ret, verdict>>
     \/ sock' = FALSE /\ stage' = "exit" /\ ret' = "negative" /\ UNCHANGED <<cmd, verdict>>
     \/ /\ sock' = TRUE /\ stage' = None /\ ret' = "negative"
        /\ cmd' = None /\ verdict' = "ERROR"
  /\ UNCHANGED <<flash, link, node, buffer, told, seen, spoiled>>

CoapOpen ==
  /\ stage = "open"
  /\ \/ sock' = TRUE /\ stage' = "send" /\ UNCHANGED ret
     \/ \* socket or connect fails
        sock' \in BOOLEAN /\ stage' = "exit" /\ ret' = "negative"
  /\ UNCHANGED <<cmd, flash, link, node, buffer, verdict, told, seen, spoiled>>

CoapSend ==
  /\ stage = "send"
  /\ \/ stage' = "wait" /\ seen' = seen \cup {"sent"} /\ UNCHANGED ret
     \/ \* no memory, a message too long, or send fails
        stage' = "exit" /\ ret' = "negative" /\ UNCHANGED seen
  /\ UNCHANGED <<cmd, flash, link, node, sock, buffer, verdict, told, spoiled>>

(* One poll of ten seconds.  Its value, the number of ready sockets, is    *)
(* returned for an answer; recv turns silence into 0.  An answer that just *)
(* misses the end of the poll is taken by recv, and 0 returned.            *)
CoapWait ==
  /\ cmd \in Requests /\ stage = "wait"
  /\ stage' = "exit"
  /\ \/ ret' \in {"zero", "positive"} /\ seen' = seen \cup {"answer"}
     \/ ret' \in {"zero", "negative"} /\ UNCHANGED seen
  /\ UNCHANGED <<cmd, flash, link, node, sock, buffer, verdict, told, spoiled>>

(* at_cmd_handler takes every value but 0 for an error; AT+COAPTB returns *)
(* 0 where the others return what they got.                               *)
CoapExit ==
  /\ stage = "exit"
  /\ SetSleepy
  /\ sock' = FALSE /\ buffer' = FALSE /\ ret' = "zero"
  /\ End(IF ret = "zero" \/ (cmd = "tb" /\ ret = "positive") THEN "OK" ELSE "ERROR")
  /\ UNCHANGED <<flash, ftd, rxOn, node, told, spoiled>>

-----------------------------------------------------------------------------
(* AT+JOIN and the joiner *)

(* There is no PSKd, otJoinerStart refuses it, or is busy with an earlier *)
(* join.  Thread has been taken down by then.                             *)
JoinRefused ==
  /\ Answer("ERROR")
  /\ enabled' = FALSE
  /\ spoiled' = TRUE
  /\ UNCHANGED <<flash, link, commissioned, joiner, request, told>>

JoinStart ==
  /\ ~joiner
  /\ Begin("join", "wait")
  /\ enabled' = FALSE /\ joiner' = TRUE
  /\ UNCHANGED <<flash, link, commissioned, request, told, spoiled>>

(* Mutant: the loop is left at its end like by its break. *)
JoinEndOK ==
  /\ cmd = "join"
  /\ End("OK")
  /\ UNCHANGED <<flash, link, node, request, told, spoiled>>

(* Mutant: the loop has no end. *)
JoinEndIdle ==
  /\ cmd = "join" /\ ~joiner
  /\ End("OK")
  /\ UNCHANGED <<flash, link, node, request, told, spoiled>>

(* The loop over otJoinerGetState: a look finds the joiner idle, or 60 of   *)
(* them are over.  It may have become idle in the sleep behind the last.    *)
JoinEnd ==
  /\ cmd = "join"
  /\ \/ ~joiner /\ End("OK")
     \/ End("ERROR")
  /\ UNCHANGED <<flash, link, node, request, told, spoiled>>

(* Mutant: the callback only reports. *)
JoinerDoneReports(ok) ==
  /\ joiner
  /\ joiner' = FALSE
  /\ commissioned' = (commissioned \/ ok)
  /\ seen' = seen \cup {"result"}
  /\ spoiled' = ~ok
  /\ UNCHANGED <<flash, link, enabled, cmd, stage, request, verdict, told>>

(* The callback on the OpenThread thread sends the result line. *)
JoinerDone(ok) ==
  /\ joiner
  /\ joiner' = FALSE
  /\ enabled' = (enabled \/ ok) /\ commissioned' = (commissioned \/ ok)
  /\ seen' = seen \cup {"result"}
  /\ spoiled' = ~ok
  /\ UNCHANGED <<flash, link, cmd, stage, request, verdict, told>>

-----------------------------------------------------------------------------
(* Restarts *)

(* AT+FRST answers, sleeps and erases what OpenThread stored; the settings *)
(* of the application stay.                                                *)
FactoryReset ==
  /\ Begin("frst", "wait")
  /\ UNCHANGED <<flash, link, node, request, told, spoiled>>

Wipe ==
  /\ cmd = "frst"
  /\ commissioned' = FALSE
  /\ Boot(TRUE)
  /\ tried' = {Load}

(* AT+RST or a loss of power.  OpenThread restores the mode it last stored; *)
(* the settings in flash overrule it only if they say that the node sleeps. *)
Reset ==
  /\ UNCHANGED commissioned
  /\ \E mode \in {TRUE, rxOn} : Boot(mode)
  /\ tried' = IF Load.sed THEN {Load} ELSE tried

-----------------------------------------------------------------------------
Next ==
  \/ SedRefused
  \/ \E on \in BOOLEAN, p \in Periods \cup {None} : SedLink(on, p)
  \/ SedStore \/ SedStoreFails \/ SedAnswer
  \/ PingAtOnce \/ SntpRefused \/ SntpNoSocket
  \/ (\E c \in {"ping", "sntp"} : Ask(c)) \/ Asked
  \/ CoapRefused \/ (\E c \in Requests : CoapStart(c))
  \/ CoapOpen \/ CoapSend \/ CoapWait \/ CoapExit
  \/ JoinRefused \/ JoinStart \/ JoinEnd
  \/ \E ok \in BOOLEAN : JoinerDone(ok)
  \/ FactoryReset \/ Wipe \/ Reset

Spec == Init /\ [][Next]_vars

(* Sleeps and blocking calls of a command end: all have a time limit. *)
Fairness ==
  /\ WF_vars(SedStore \/ SedStoreFails) /\ WF_vars(SedAnswer) /\ WF_vars(Asked)
  /\ WF_vars(CoapOpen) /\ WF_vars(CoapSend) /\ WF_vars(CoapWait) /\ WF_vars(CoapExit)
  /\ WF_vars(JoinEnd) /\ WF_vars(Wipe)

FairSpec == Spec /\ Fairness

-----------------------------------------------------------------------------
(* Properties *)

(* A command leaves nothing behind, on any path: no socket, no buffer, and *)
(* a sleepy radio no longer polls at the active period.  The last fails if *)
(* the node started with a stored period OpenThread refuses: AT+SED stores *)
(* what otLinkSetPollPeriod refused, and then the end of every bracket is  *)
(* refused too.                                                            *)
AtRest ==
  Idle =>
    /\ ~sock /\ ~buffer
    /\ ~rxOn /\ cached.poll \notin Refused => poll # Active

(* Through failing writes and restarts anywhere, flash and the link hold    *)
(* the settings last acknowledged, or some that an AT+SED has given the     *)
(* link since and that failed, was cut off or is in progress.  The next OK  *)
(* ends that, and a start with settings that say that the node sleeps; a    *)
(* start with others does not, because OpenThread restores the mode from    *)
(* its own flash.  AT+SED does not update the copy in RAM, so that after it *)
(* the first ping or request goes back to the period of the last start: of  *)
(* the period this is said while the copy agrees with flash.                *)
FlashKept == Load \in {promised} \cup tried
ModeKept  == \E s \in {promised} \cup tried : rxOn = ~s.sed
PollKept  ==
  Idle /\ cached = Load /\ Load.sed /\ Load.poll \notin Refused
    => poll \in {s.poll : s \in {Load} \cup tried}
SettingsKept == FlashKept /\ ModeKept /\ PollKept

(* A commissioned node is off the network only by a join that is going on  *)
(* or has not succeeded; one refused for its parameters is enough.         *)
StaysOnline == commissioned /\ ~enabled /\ ~joiner => spoiled

(* What the final line tells.  OK after AT+JOIN: the joiner has reported,  *)
(* well or badly.  OK after a request: it was sent; it says nothing of an  *)
(* answer, and an answered AT+COAPGET or AT+COAPPOST mostly ends in ERROR. *)
(* ERROR after AT+COAPTB: no answer was received.                          *)
VerdictTells ==
  [][~Idle /\ cmd' = None =>
       /\ cmd = "join" /\ verdict' = "OK" => "result" \in seen
       /\ cmd \in Requests /\ verdict' = "OK" => "sent" \in seen
       /\ cmd = "tb" /\ verdict' = "ERROR" => "answer" \notin seen]_vars

(* The work queue gets every command behind it, whatever the network does. *)
CommandEnds == ~Idle ~> Idle
=============================================================================
