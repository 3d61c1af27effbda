---------------------------- MODULE DisplayNode ----------------------------
(***************************************************************************)
(* The LwM2M display, lwm2m_display/src, with lib/sensor/app_sensor.c and  *)
(* the driver of its panel, drivers/display/w4in2.c.                       *)
(*                                                                         *)
(*   sensor    the sensor thread measures, writes the two values word by   *)
(*             word, and gives a semaphore that counts to one;             *)
(*   main      starts the panel, waits for the network, orders one ping,   *)
(*             and then reports the values and draws them whenever the     *)
(*             semaphore is given;                                         *)
(*   queue     the ping, and the client's start for the server that        *)
(*             answered first;                                             *)
(*   engine    the client's events.  A read, the server's or the           *)
(*             drawing's, is answered from sensors[] by a callback         *)
(*             (main.c:175); what main hands to lwm2m_engine_set_float32   *)
(*             tells the observers, and nobody reads the engine's copy.    *)
(*                                                                         *)
(* The sensor thread has the lowest priority: it stops between any two     *)
(* words when main wakes up, and goes on when main blocks.                 *)
(*                                                                         *)
(* The panel keeps a picture in its memory and another on the glass.  Of   *)
(* its surroundings this is assumed: the SoC's own port can always be read *)
(* (w4in2_busy_wait asserts it), and the panel is busy before the driver   *)
(* looks, 4 s later after a refresh.                                       *)
(***************************************************************************)
EXTENDS Paint, Sequences

CONSTANTS
  Readings,     \* what the sensor may measure: [whole, part, humi]
  Servers,      \* servers that answer the ping
  MaxReplies,   \* bound: replies to the pings
  OutdoorValues, BatValues,  \* what the server and the ADC may have written
  None          \* no server, no client, no values, a frame cut in transfer

Zero == [whole |-> 0, part |-> 0, humi |-> 0]

(* Values as they may be found: each word from some measurement. *)
Words == [whole : {r.whole : r \in Readings \cup {Zero}},
          part  : {r.part : r \in Readings \cup {Zero}},
          humi  : {r.humi : r \in Readings \cup {Zero}}]
Blank == [Zero EXCEPT !.humi = -1]           \* a drawing without values

ASSUME DisplayAssumption ==
  /\ \A r \in Readings : /\ DOMAIN r = DOMAIN Zero
                         /\ \A f \in DOMAIN r : r[f] \in Int
  /\ MaxReplies \in Nat /\ None \notin Servers /\ None \notin Words \cup {Blank}
  /\ \A v \in OutdoorValues : v.whole \in Int /\ v.part \in Int
  /\ BatValues \subseteq Int

VARIABLES
  fetch, sample, sensors, sem,             \* sensor thread, its driver, sensors[], sensor_sem
  main, position, frame, complete,         \* main; ghost: the last round had values, and was drawn
  ram, glass, busy,                        \* the panel: frames in its memory and shown; None: unknown
  connected, thread,                       \* OpenThread
  ping, replies, lwm2mServer, work, target, gaveUp,   \* ping_work, lwm2m_work
  client, starts, status                   \* the client; ghost: times it was started

measuring == <<fetch, sample, sensors>>
panel     == <<ram, glass, busy>>
network   == <<connected, thread>>
search    == <<ping, replies, lwm2mServer, work, target, gaveUp>>
lwm2m     == <<client, starts, status>>
loop      == <<main, position, frame, complete>>
vars == <<fetch, sample, sensors, sem, main, position, frame, complete, ram, glass, busy,
          connected, thread, ping, replies, lwm2mServer, work, target, gaveUp, client, starts,
          status>>

(* w4in2_controller_init and w4in2_init_lut: what the panel is sent, and   *)
(* where the driver waits for it.                                          *)
InitCommands == <<"reset", "wait", "power setting", "boost", "power on", "wait", "panel",
                  "pll", "resolution", "vcm dc", "vcom", "lut vcom0", "lut ww", "lut bw",
                  "lut wb", "lut bb">>
Configured == position > Len(InitCommands)
Busying    == {"reset", "power on"}

ValuesType ==
  /\ fetch \in {"rest", "whole", "part", "humi", "give"} /\ sem \in 0 .. 1
  /\ sample \in Readings \cup {Zero} /\ sensors \in Words

MainType ==
  /\ main \in {"init", "boot", "join", "ping", "poll", "draw", "send", "refresh",
               "settle", "sleep", "fault"}
  /\ position \in 1 .. Len(InitCommands) + 1
  /\ {frame, ram, glass} \subseteq Words \cup {Blank, None}
  /\ complete \in BOOLEAN /\ busy \in BOOLEAN

SearchType ==
  /\ connected \in BOOLEAN /\ thread \in {"on", "joining", "off"}
  /\ ping \in {"none", "queued", "sent"} /\ replies \in 0 .. MaxReplies
  /\ work \in {"none", "queued", "setup"} /\ gaveUp \in BOOLEAN
  /\ {lwm2mServer, target, client} \subseteq Servers \cup {None}
  /\ starts \in 0 .. MaxReplies /\ status \in {"connect", "disconnect"}

TypeOK == ValuesType /\ MainType /\ SearchType

Init ==
  /\ fetch = "rest" /\ sample = Zero /\ sensors = Zero /\ sem = 0
  /\ main = "init" /\ position = 1 /\ frame = None /\ complete = FALSE
  /\ ram = None /\ glass = None /\ busy = FALSE
  /\ connected = FALSE /\ thread = "on"
  /\ ping = "none" /\ replies = MaxReplies /\ lwm2mServer = None /\ work = "none"
  /\ target = None /\ gaveUp = FALSE
  /\ client = None /\ starts = 0 /\ status = "disconnect"

-----------------------------------------------------------------------------
(* The sensor thread: it runs while main is blocked. *)

MainBlocked ==
  \/ main \in {"boot", "join", "send", "refresh", "settle", "sleep", "fault"}
  \/ main = "poll" /\ sem = 0

SensorRuns == MainBlocked /\ UNCHANGED <<loop, panel, network, search, lwm2m>>

Fetch(r) ==
  /\ fetch = "rest" /\ SensorRuns
  /\ sample' = r /\ fetch' = "whole"
  /\ UNCHANGED <<sensors, sem>>

(* The semaphore is given all the same. *)
FetchFails ==
  /\ fetch = "rest" /\ SensorRuns
  /\ fetch' = "give"
  /\ UNCHANGED <<sample, sensors, sem>>

After == [whole |-> "part", part |-> "humi", humi |-> "give"]
WriteWord ==
  /\ fetch \in DOMAIN After /\ SensorRuns
  /\ sensors' = [sensors EXCEPT ![fetch] = sample[fetch]]
  /\ fetch' = After[fetch]
  /\ UNCHANGED <<sample, sem>>

(* Mutant: a semaphore without a limit. *)
GiveUnlimited ==
  /\ fetch = "give" /\ SensorRuns
  /\ sem' = sem + 1 /\ fetch' = "rest"
  /\ UNCHANGED <<sample, sensors>>

Give ==
  /\ fetch = "give" /\ SensorRuns
  /\ sem' = 1 /\ fetch' = "rest"
  /\ UNCHANGED <<sample, sensors>>

Sensor == FetchFails \/ WriteWord \/ Give \/ \E r \in Readings : Fetch(r)

-----------------------------------------------------------------------------
(* The start *)

(* Mutant: the driver goes on after the time the panel should take. *)
InitStepHasty ==
  /\ main = "init"
  /\ position' = position + 1
  /\ main' = IF position = Len(InitCommands) THEN "boot" ELSE "init"
  /\ busy' = (busy \/ InitCommands[position] \in Busying)
  /\ UNCHANGED <<measuring, sem, frame, complete, ram, glass, network, search, lwm2m>>

(* A command that fails ends the initialisation; there is no device then,  *)
(* and nobody asks how far it came.  While it waits the driver sends the   *)
(* status query 0x71 over and over; that changes nothing in the panel and  *)
(* is no step here.                                                        *)
InitStep ==
  /\ main = "init"
  /\ InitCommands[position] = "wait" => ~busy
  /\ \/ /\ position' = position + 1
        /\ main' = IF position = Len(InitCommands) THEN "boot" ELSE "init"
        /\ busy' = (busy \/ InitCommands[position] \in Busying)
     \/ /\ InitCommands[position] \notin {"wait", "reset"}
        /\ main' = "boot" /\ position' = 1 /\ busy' = FALSE
  /\ UNCHANGED <<measuring, sem, frame, complete, ram, glass, network, search, lwm2m>>

(* Ten looks at the connection, one every three seconds. *)
Found ==
  /\ main \in {"boot", "join"} /\ connected
  /\ main' = "ping"
  /\ UNCHANGED <<measuring, sem, position, frame, complete, panel, network, search, lwm2m>>

(* app_ot_start_join takes the node out of the network first. *)
StartJoin ==
  /\ main = "boot" /\ ~connected
  /\ main' = "join" /\ thread' = "joining"
  /\ UNCHANGED <<measuring, sem, position, frame, complete, panel, connected, search, lwm2m>>

GiveUpWaiting ==
  /\ main = "join"
  /\ main' = "ping"
  /\ UNCHANGED <<measuring, sem, position, frame, complete, panel, network, search, lwm2m>>

OrderPing ==
  /\ main = "ping" /\ main' = "poll" /\ ping' = "queued"
  /\ UNCHANGED <<measuring, sem, position, frame, complete, panel, network, replies, lwm2mServer,
                 work, target, gaveUp, lwm2m>>

-----------------------------------------------------------------------------
(* One round of main *)

Take ==
  /\ main = "poll" /\ sem = 1
  /\ sem' = 0 /\ main' = "draw"
  /\ UNCHANGED <<measuring, position, frame, complete, panel, network, search, lwm2m>>

(* Mutant: the humidity of the first drawing stays. *)
DrawTemperatureOnly ==
  /\ main = "draw"
  /\ IF Configured
     THEN /\ main' = "send"
          /\ frame' = IF status # "connect" THEN Blank
                      ELSE [sensors EXCEPT !.humi = IF frame = None THEN @ ELSE frame.humi]
          /\ complete' = (status = "connect")
     ELSE main' = "fault" /\ UNCHANGED <<frame, complete>>
  /\ UNCHANGED <<measuring, sem, position, panel, network, search, lwm2m>>

(* app_display_update: the values are those main was woken for, for main   *)
(* ran on since.  Without a device it draws nothing and calls through a    *)
(* null pointer.                                                           *)
Draw ==
  /\ main = "draw"
  /\ IF Configured
     THEN /\ main' = "send"
          /\ frame' = IF status = "connect" THEN sensors ELSE Blank
          /\ complete' = (status = "connect")
     ELSE main' = "fault" /\ UNCHANGED <<frame, complete>>
  /\ UNCHANGED <<measuring, sem, position, panel, network, search, lwm2m>>

(* w4in2_blanking_off: the white frame and then the drawing go into the    *)
(* panel's memory; the bus may fail at any byte of them, and what is in    *)
(* the memory is then the old picture or no whole one.  Nobody looks at    *)
(* what display_blanking_off returns.                                      *)
Transfer ==
  /\ main = "send" /\ main' = "refresh" /\ ram' = frame
  /\ UNCHANGED <<measuring, sem, position, frame, complete, glass, busy, network, search, lwm2m>>

(* Mutant: the result of the transfer is not looked at either.             *)
TransferFailsUnseen ==
  /\ main = "send" /\ main' = "refresh" /\ ram' \in {ram, None} /\ complete' = FALSE
  /\ UNCHANGED <<measuring, sem, position, frame, glass, busy, network, search, lwm2m>>

TransferFails ==
  /\ main = "send" /\ main' = "sleep" /\ ram' \in {ram, None} /\ complete' = FALSE
  /\ UNCHANGED <<measuring, sem, position, frame, glass, busy, network, search, lwm2m>>

(* The command to refresh, which shows what is in the memory. *)
Refresh ==
  /\ main = "refresh" /\ main' = "settle"
  /\ glass' = ram /\ busy' = TRUE
  /\ UNCHANGED <<measuring, sem, position, frame, complete, ram, network, search, lwm2m>>

RefreshFails ==
  /\ main = "refresh" /\ main' = "sleep" /\ complete' = FALSE
  /\ UNCHANGED <<measuring, sem, position, frame, panel, network, search, lwm2m>>

Settle ==
  /\ main = "settle" /\ ~busy /\ main' = "sleep"
  /\ UNCHANGED <<measuring, sem, position, frame, complete, panel, network, search, lwm2m>>

(* Mutant: the semaphore is emptied before main polls again. *)
AwakeForgets ==
  /\ main = "sleep" /\ main' = "poll" /\ sem' = 0
  /\ UNCHANGED <<measuring, position, frame, complete, panel, network, search, lwm2m>>

Awake ==
  /\ main = "sleep" /\ main' = "poll"
  /\ UNCHANGED <<measuring, sem, position, frame, complete, panel, network, search, lwm2m>>

Main ==
  \/ InitStep \/ Found \/ StartJoin \/ GiveUpWaiting \/ OrderPing
  \/ Take \/ Draw \/ Transfer \/ TransferFails \/ Refresh \/ RefreshFails \/ Settle \/ Awake

PanelReady ==
  /\ busy /\ busy' = FALSE
  /\ UNCHANGED <<measuring, sem, loop, ram, glass, network, search, lwm2m>>

-----------------------------------------------------------------------------
(* The network and the search for a server *)

RoleChange ==
  /\ connected \/ thread = "on"
  /\ connected' = ~connected
  /\ UNCHANGED <<measuring, sem, loop, panel, thread, search, lwm2m>>

(* handle_openthread_join_callback: a join that failed leaves the node out. *)
JoinDone ==
  /\ thread = "joining" /\ thread' \in {"on", "off"}
  /\ UNCHANGED <<measuring, sem, loop, panel, connected, search, lwm2m>>

SendPing ==
  /\ ping = "queued" /\ ping' = "sent"
  /\ UNCHANGED <<measuring, sem, loop, panel, network, replies, lwm2mServer, work, target,
                 gaveUp, lwm2m>>

(* Mutant: every answer is taken for the first. *)
ReplyAlways(s) ==
  /\ ping = "sent" /\ connected /\ replies > 0
  /\ replies' = replies - 1
  /\ lwm2mServer' = s /\ work' = (IF work = "none" THEN "queued" ELSE work)
  /\ UNCHANGED <<measuring, sem, loop, panel, network, ping, target, gaveUp, lwm2m>>

(* handlePingReply; serverFound is lwm2mServer # None. *)
Reply(s) ==
  /\ ping = "sent" /\ connected /\ replies > 0
  /\ replies' = replies - 1
  /\ IF lwm2mServer = None
     THEN lwm2mServer' = s /\ work' = "queued"
     ELSE UNCHANGED <<lwm2mServer, work>>
  /\ UNCHANGED <<measuring, sem, loop, panel, network, ping, target, gaveUp, lwm2m>>

(* startLWM2M to its sleep: without a connection it returns, and nobody    *)
(* submits it again.                                                       *)
StartLWM2M ==
  /\ work = "queued"
  /\ IF connected /\ lwm2mServer # None
     THEN work' = "setup" /\ target' = lwm2mServer /\ UNCHANGED gaveUp
     ELSE work' = "none" /\ gaveUp' = TRUE /\ UNCHANGED target
  /\ UNCHANGED <<measuring, sem, loop, panel, network, ping, replies, lwm2mServer, lwm2m>>

Setup ==
  /\ work = "setup" /\ work' = "none" /\ target' = None
  /\ \/ client' = target /\ starts' = starts + 1 /\ UNCHANGED gaveUp
     \/ gaveUp' = TRUE /\ UNCHANGED <<client, starts>>
  /\ UNCHANGED <<measuring, sem, loop, panel, network, ping, replies, lwm2mServer, status>>

-----------------------------------------------------------------------------
(* rd_client_event, in the engine's thread. *)

Report(s) ==
  /\ client # None /\ status' = s /\ s # status
  /\ UNCHANGED <<measuring, sem, loop, panel, network, search, client, starts>>

-----------------------------------------------------------------------------
Next ==
  \/ Sensor \/ Main \/ PanelReady
  \/ RoleChange \/ JoinDone \/ SendPing \/ StartLWM2M \/ Setup
  \/ \E s \in Servers : Reply(s)
  \/ \E s \in {"connect", "disconnect"} : Report(s)

(* main and the panel go on; the sensor thread gets the processor again    *)
(* and again, for main blocks for seconds; a bus that fails works again.   *)
Fairness ==
  /\ WF_vars(Main) /\ WF_vars(PanelReady)
  /\ SF_vars(Sensor) /\ SF_vars(\E r \in Readings : Fetch(r))
  /\ SF_vars(Transfer) /\ SF_vars(Refresh)

Spec == Init /\ [][Next]_vars /\ Fairness

-----------------------------------------------------------------------------
(* What app_display_update draws for values v, with what the server wrote  *)
(* last and the battery's state.                                           *)

Paper == Frame(400, 300)
Digits == 48 .. 57
Minus  == 45
Percent == 37

(* What the provers' library does not say of powers. *)
ASSUME PowersOfTen == 10^0 = 1 /\ \A d \in 0 .. 8 : 10^d \in Nat /\ 10^(d + 1) = 10 * 10^d

NumberLength(n) ==
  LET abs == IF n < 0 THEN -n ELSE n
      digits == CHOOSE d \in 1 .. 10 : /\ d = 10 \/ abs < 10^d
                                       /\ d = 1 \/ abs >= 10^(d - 1)
  IN IF n < 0 THEN digits + 1 ELSE digits

DrawNumber(x, y, n, font) ==
  DrawString(x, y, NumberLength(n), IF n < 0 THEN Digits \cup {Minus} ELSE Digits, font)

(* Mutant: the fraction in millionths. *)
TenthsWhole(v) == v.part

Tenth == 100000           \* of a degree or percent, in the millionths of val2

(* val2 / 100000 in C: towards zero. *)
Tenths(v) == IF v.part < 0 THEN -((-v.part) \div Tenth) ELSE v.part \div Tenth

DrawTemperature(v, down) ==
  <<DrawNumber(270, 30 + down, v.whole, Font1632),
    DrawNumber(303, 45 + down, Tenths(v), Font815),
    DrawCircle(306, 41 + down, 2), DrawCircle(306, 41 + down, 3)>>

DrawHumidity(v) ==
  LET s == DrawNumber(340, 30, v.humi, Font1632)
  IN <<[s EXCEPT !.box.right = s.box.right + Font1632.width, !.chars = s.chars \cup {Percent}]>>

Letters == 32 .. 126
Labels == [i \in 1 .. 4 |-> DrawString(255, 75 * (i - 1) + 5, <<6, 7, 5, 2>>[i], Letters, Font815)]
Rules  == <<DrawVerticalLine(250, 2, 296)>> \o [i \in 1 .. 3 |-> DrawHorizontalLine(250, 75 * i, 148)]

Icon(bat, charging) ==
  LET vm100 == (bat * 600) \div 4096
  IN Space + (IF charging THEN 0
              ELSE IF vm100 >= 400 THEN 5
              ELSE IF vm100 >= 387 THEN 4
              ELSE IF vm100 >= 379 THEN 3
              ELSE IF vm100 >= 370 THEN 2 ELSE 1)

DrawIcon(bat, charging) == <<DrawString(380, 0, 1, {Icon(bat, charging)}, FontICON)>>

Values(v, outdoor) ==
  IF v = Blank THEN <<>> ELSE DrawTemperature(v, 0) \o DrawHumidity(v) \o DrawTemperature(outdoor, 75)

Drawing(v, outdoor, bat, charging) ==
  Rules \o Labels \o Values(v, outdoor) \o DrawIcon(bat, charging)

-----------------------------------------------------------------------------
(* While main waits for the next measurement, the panel shows the values   *)
(* the sensor thread wrote last: whole ones, even when main woke up while  *)
(* they were being written, for the semaphore makes main look again.  The  *)
(* last round must have had values to show, and a transfer that worked.    *)
ShownIsCurrent ==
  main = "poll" /\ sem = 0 /\ fetch = "rest" /\ complete => glass = sensors

(* Through failed transfers and failed commands, what a refresh shows is   *)
(* the whole of the last drawing, never a picture cut in transfer or an    *)
(* older one left in the panel's memory; the glass keeps a whole drawing   *)
(* from then on.  The panel is refreshed only when it was configured to    *)
(* the end, and while it is busy it is sent nothing but the status query   *)
(* (w4in2_busy_wait): the driver is then at a wait.                        *)
GlassWhole ==
  /\ main = "refresh" => ram = frame
  /\ main = "settle" => glass = frame
  /\ glass # None => Configured
  /\ busy => \/ main = "init" /\ InitCommands[position] = "wait"
             \/ main = "settle"

(* The client is started at most once, for the server whose answer came    *)
(* first; and a server that was found is being turned to, unless the work  *)
(* found no connection or the setup was refused.                           *)
OneServer ==
  /\ starts <= 1 /\ client \in {None, lwm2mServer}
  /\ work = "setup" => target = lwm2mServer
  /\ lwm2mServer # None => work # "none" \/ client # None \/ gaveUp

(* Whatever the values, a drawing reads no byte outside a font and writes  *)
(* none outside the frame buffer; and values of at most two digits that    *)
(* are not negative stand apart from each other and are not cut.           *)
Ordinary(v) == v.whole \in 0 .. 99 /\ v.part \in 0 .. 10 * Tenth - 1

Inside(v) ==
  \A outdoor \in OutdoorValues, bat \in BatValues, charging \in BOOLEAN :
    LET items == Drawing(v, outdoor, bat, charging)
    IN /\ \A i \in DOMAIN items : ReadsTable(items[i]) /\ WritesFrame(Paper, items[i])
       /\ (v = Blank \/ (Ordinary(v) /\ v.humi \in 0 .. 99)) /\ Ordinary(outdoor) =>
            \A i \in DOMAIN items :
              /\ Visible(Paper, items[i])
              /\ \A j \in DOMAIN items : Nested(items[i], items[j]) \/ Apart(items[i], items[j])

Verdicts == {<<v, Inside(v)>> : v \in Words \cup {Blank}}

DrawnInside == frame # None => <<frame, TRUE>> \in Verdicts

(* A steady reading reaches the panel and stays there, when the client is  *)
(* registered from some time on and the panel was found.                   *)
KeepsUp ==
  \A r \in Readings :
    <>[](status = "connect" /\ sample = r /\ Configured) => <>[](glass = r)
=============================================================================
