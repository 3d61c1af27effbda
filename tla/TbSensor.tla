------------------------------ MODULE TbSensor ------------------------------
(***************************************************************************)
(* The ThingsBoard sensor, thingsboard_coap_sensor/src/main.c: a timer     *)
(* submits one work item while the node is connected; the work measures    *)
(* with lib/sht30d, and reports through lib/coap what differs enough from  *)
(* the last values.  A report is one datagram nobody acknowledges; the     *)
(* network may lose it, or deliver two in the wrong order.                 *)
(*                                                                         *)
(* The work sleeps twice while the sensor measures and is cut there, and   *)
(* between the calls of a request; the air, the connection and the network *)
(* change at any time, and the device may restart.                         *)
(***************************************************************************)
EXTENDS Sht30d, Sequences

CONSTANTS
  Air,         \* pairs of samples the air may give
  MaxFlips,    \* bound: bits an error on the bus may flip in a word and its checksum
  MaxFlight,   \* bound: datagrams under way
  Nothing      \* no sample; no report

ASSUME TbSensorAssumption ==
  /\ Air \subseteq (0 .. FullScale) \X (0 .. FullScale) /\ Nothing \notin Air
  /\ MaxFlips \in 0 .. 24 /\ MaxFlight \in Nat

VARIABLES
  air,         \* what there is to measure
  connected,   \* is_connected of app_openthread.c
  queued,      \* sensor_work is submitted
  stage,       \* where the work is
  power,       \* the sensor's supply and the bus are on
  latched,     \* sample the sensor took at its last command
  sampled,     \* sample app_sht30d_fetch_raw returned last
  fetched,     \* result of the last fetch, once it returned
  pre,         \* pre_temp, pre_hum
  fast, sock,  \* the radio polls at the active period; the socket is open
  flight,      \* datagrams under way, oldest first
  server,      \* values the server has, in tenths
  missed       \* ghost: the values last recorded have not reached the server, or no longer count

sensor == <<power, latched, sampled, fetched>>
radio  == <<fast, sock>>
remote == <<flight, server, missed>>
vars == <<air, connected, queued, stage, power, latched, sampled, fetched, pre, fast,
          sock, flight, server, missed>>

Idle == stage = "idle"
Reading(s) == [t |-> Temperature(s[1]), h |-> Humidity(s[2])]
Zero       == [t |-> 0, h |-> 0]         \* 0.0f, 0.0f
Readings   == {Reading(s) : s \in Air}

(* "%.1f": the nearest number of tenths.  There is never a tie, because     *)
(* FullScale is odd.                                                        *)
Tenths(value) == (20 * value + FullScale) \div (2 * FullScale)
Payload(r)    == [t |-> Tenths(r.t), h |-> Tenths(r.h)]
Reports       == {Payload(r) : r \in Readings}

TypeOK ==
  /\ air \in Air /\ connected \in BOOLEAN /\ queued \in BOOLEAN
  /\ stage \in {"idle", "wake", "measure", "open", "send", "exit"}
  /\ power \in BOOLEAN /\ fast \in BOOLEAN /\ sock \in BOOLEAN /\ missed \in BOOLEAN
  /\ latched \in Air \cup {Nothing} /\ sampled \in Air \cup {Nothing}
  /\ fetched \in {"none", "ok", "bad"}
  /\ pre \in Readings \cup {Zero}
  /\ server \in Reports \cup {Nothing}
  /\ flight \in Seq(Reports) /\ Len(flight) <= MaxFlight

Init ==
  /\ air \in Air /\ connected = FALSE /\ queued = FALSE /\ stage = "idle"
  /\ power = FALSE /\ latched = Nothing /\ sampled = Nothing /\ fetched = "none"
  /\ pre = Zero /\ fast = FALSE /\ sock = FALSE
  /\ flight = <<>> /\ server = Nothing /\ missed = TRUE

-----------------------------------------------------------------------------
(* The timer and the measurement *)

(* sensor_timer_handler; an item that is queued is not queued twice. *)
Timer ==
  /\ connected /\ ~queued
  /\ queued' = TRUE
  /\ UNCHANGED <<air, connected, stage, sensor, pre, radio, remote>>

(* app_sht30d_fetch_raw to its first sleep. *)
Wake ==
  /\ queued /\ Idle
  /\ queued' = FALSE /\ stage' = "wake"
  /\ power' = TRUE /\ fetched' = "none"
  /\ UNCHANGED <<air, connected, latched, sampled, pre, radio, remote>>

(* The command is sent, or not: then the supply stays on. *)
Command ==
  /\ stage = "wake"
  /\ \/ stage' = "measure" /\ latched' = air /\ UNCHANGED fetched
     \/ stage' = "idle" /\ fetched' = "bad" /\ UNCHANGED latched
  /\ UNCHANGED <<air, connected, queued, power, sampled, pre, radio, remote>>

(* No answer, or one whose checksum is wrong: the supply stays on as well. *)
NoData ==
  /\ stage = "measure" /\ stage' = "idle" /\ fetched' = "bad"
  /\ UNCHANGED <<air, connected, queued, power, latched, sampled, pre, radio, remote>>

Near(a, b) ==
  LET diff(x, y) == IF x > y THEN x - y ELSE y - x
  IN 10 * diff(a.t, b.t) < FullScale /\ 10 * diff(a.h, b.h) < FullScale

(* Mutant: every sample becomes the one the next is compared with. *)
CompareWithLast(s) ==
  /\ pre' = Reading(s)
  /\ IF Near(pre, Reading(s))
     THEN stage' = "idle" /\ UNCHANGED missed
     ELSE stage' = "open" /\ missed' = TRUE

(* Mutant: of the two values one is recorded. *)
CompareHalf(s) ==
  IF Near(pre, Reading(s))
  THEN stage' = "idle" /\ UNCHANGED <<pre, missed>>
  ELSE stage' = "open" /\ pre' = [pre EXCEPT !.t = Reading(s).t] /\ missed' = TRUE

(* The comparison in sensor_work_handler.  The values are recorded before  *)
(* they are sent.                                                          *)
Compare(s) ==
  IF Near(pre, Reading(s))
  THEN stage' = "idle" /\ UNCHANGED <<pre, missed>>
  ELSE stage' = "open" /\ pre' = Reading(s) /\ missed' = TRUE

(* What may be taken from an answer, the sample itself included. *)
Flips    == UNION {kSubset(n, 0 .. 23) : n \in 0 .. MaxFlips}
Outcomes == [s \in {a[1] : a \in Air} \cup {a[2] : a \in Air} |-> Misread(s, Flips)]

ReadAnswer(s) ==
  /\ stage = "measure"
  /\ s[1] \in Outcomes[latched[1]] /\ s[2] \in Outcomes[latched[2]]
  /\ sampled' = s /\ fetched' = "ok" /\ power' = FALSE
  /\ Compare(s)
  /\ UNCHANGED <<air, connected, queued, latched, radio, flight, server>>

ReadAnswerAny ==
  \E a \in Air : /\ latched = a
                 /\ \E t \in Outcomes[a[1]], h \in Outcomes[a[2]] : ReadAnswer(<<t, h>>)

-----------------------------------------------------------------------------
(* app_coap_send_request of a message that is not confirmed *)

Open ==
  /\ stage = "open"
  /\ fast' = TRUE
  /\ \/ sock' = TRUE /\ stage' \in {"send", "exit"}     \* exit: connect failed
     \/ sock' = FALSE /\ stage' = "exit"
  /\ UNCHANGED <<air, connected, queued, sensor, pre, remote>>

(* The message is built and sent; no buffer, or a refusal of the stack,    *)
(* ends in the same way as success.                                        *)
Send ==
  /\ stage = "send" /\ stage' = "exit"
  /\ \/ connected /\ Len(flight) < MaxFlight /\ flight' = Append(flight, Payload(pre))
     \/ UNCHANGED flight
  /\ UNCHANGED <<air, connected, queued, sensor, pre, radio, server, missed>>

(* Mutant: a failure returns before the radio is put back. *)
ExitEarly ==
  /\ stage = "exit" /\ stage' = "idle"
  /\ fast' = (fast /\ ~sock) /\ sock' = FALSE
  /\ UNCHANGED <<air, connected, queued, sensor, pre, remote>>

Exit ==
  /\ stage = "exit" /\ stage' = "idle"
  /\ fast' = FALSE /\ sock' = FALSE
  /\ UNCHANGED <<air, connected, queued, sensor, pre, remote>>

-----------------------------------------------------------------------------
(* The rest of the world *)

Without(s, i) == SubSeq(s, 1, i - 1) \o SubSeq(s, i + 1, Len(s))

Deliver(i) ==
  /\ server' = flight[i] /\ flight' = Without(flight, i)
  /\ missed' = (flight[i] # Payload(pre))
  /\ UNCHANGED <<air, connected, queued, stage, sensor, pre, radio>>

Lose(i) ==
  /\ flight' = Without(flight, i)
  /\ UNCHANGED <<air, connected, queued, stage, sensor, pre, radio, server, missed>>

Weather(a) ==
  /\ air' = a /\ a # air
  /\ UNCHANGED <<connected, queued, stage, sensor, pre, radio, remote>>

RoleChange ==
  /\ connected' = ~connected
  /\ UNCHANGED <<air, queued, stage, sensor, pre, radio, remote>>

(* The pins and the bus start in the off state; the values start at 0.     *)
Reset ==
  /\ connected' = FALSE /\ queued' = FALSE /\ stage' = "idle"
  /\ power' = FALSE /\ latched' = Nothing /\ sampled' = Nothing /\ fetched' = "none"
  /\ pre' = Zero /\ fast' = FALSE /\ sock' = FALSE /\ missed' = TRUE
  /\ UNCHANGED <<air, flight, server>>

Next ==
  \/ Timer \/ Wake \/ Command \/ NoData
  \/ ReadAnswerAny
  \/ Open \/ Send \/ Exit
  \/ \E i \in DOMAIN flight : Deliver(i) \/ Lose(i)
  \/ \E a \in Air : Weather(a)
  \/ RoleChange \/ Reset

Spec == Init /\ [][Next]_vars

-----------------------------------------------------------------------------
(* Between two measurements nothing is left on: the socket is closed, the  *)
(* radio is back at the slow period and the sensor has no supply, unless   *)
(* the last measurement failed (app_sht30d_fetch_raw returns without       *)
(* switching off).                                                         *)
QuietAtRest == Idle => ~sock /\ ~fast /\ (power => fetched = "bad")

(* What the driver accepts is what the sensor measured, for every error    *)
(* of up to MaxFlips bits in a word and its checksum: sht3xd_compute_crc   *)
(* detects them all.                                                       *)
OnlyMeasured == fetched = "ok" => sampled = latched

(* Half a tenth is what printing with one decimal may add to a tenth.      *)
Close(report, r) ==
  LET apart(x, y) == IF x > y THEN x - y ELSE y - x
  IN /\ apart(2 * FullScale * report.t, 20 * r.t) < 3 * FullScale
     /\ apart(2 * FullScale * report.h, 20 * r.h) < 3 * FullScale

(* The values the server has are less than 0.15 from the last measurement, *)
(* however slowly the air drifted, unless the report that carried the      *)
(* recorded values was lost or overtaken: sensor_work_handler compares     *)
(* with the last values reported, not with the last ones measured, and     *)
(* with them as they were measured, not as they were printed.              *)
ServerNear ==
  Idle /\ fetched = "ok" /\ ~missed => Close(server, Reading(sampled))
=============================================================================
