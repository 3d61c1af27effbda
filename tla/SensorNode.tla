----------------------------- MODULE SensorNode -----------------------------
(***************************************************************************)
(* The LwM2M CO2 sensor, lwm2m_sensor/src/main.c, with the parts of        *)
(* lib/openthread and lib/lwm2m it drives.  Five work items run on the     *)
(* system work queue: four of them hand the node from stage to stage, the  *)
(* fifth reads the sensor.  Two of them sleep inside the queue.  The       *)
(* OpenThread thread attaches, detaches, ends a join and delivers ping     *)
(* replies; the LwM2M engine reports on the registration.                  *)
(*                                                                         *)
(* All these threads are cooperative: a handler runs to its end or to its  *)
(* next sleep, which is one step here.  Delays end in any order.           *)
(***************************************************************************)
EXTENDS Integers, Sequences, FiniteSets

CONSTANTS
  Servers,     \* nodes that may answer the ping
  Checks,      \* looks at the network before a join, 10 in the code
  AddrLen,     \* bytes of an IPv6 address
  RingCap,     \* bytes server_ring_buf can hold
  MaxReplies   \* bound: ping replies under way

ASSUME SensorNodeAssumption ==
  /\ Checks \in Nat /\ AddrLen \in Nat \ {0}
  /\ RingCap \in Nat /\ RingCap % AddrLen = 0     \* 32 and 16 in the code
  /\ MaxReplies \in Nat \ {0}

VARIABLES
  delayed, queue, running,     \* work items: delay running; submitted; handler in progress
  tries,                       \* i of the loop in startNetwork
  restarting,                  \* startLWM2M sleeps between stop and start
  last,                        \* the static status of manageLWM2M
  lwm2m_setup, client, server, \* the LwM2M client and the address in its URL
  client_status,
  ring, inflight,              \* server_ring_buf; replies under way
  is_connected, enabled, joining

work    == <<delayed, queue, running>>
flow    == <<tries, restarting, last>>
lwm2m   == <<lwm2m_setup, client, server>>
pings   == <<ring, inflight>>
network == <<is_connected, enabled, joining>>
vars == <<delayed, queue, running, tries, restarting, last, lwm2m_setup, client, server,
          client_status, ring, inflight, is_connected, enabled, joining>>

Chain == {"start_network", "send_ping", "start_lwm2m", "manage_lwm2m"}
Works == Chain \cup {"read_co2"}
None  == "none"

Queued(i) == \E k \in 1 .. Len(queue) : queue[k] = i
Busy(i)   == i \in delayed \/ Queued(i) \/ running = i

(* main.  A commissioned device starts Thread during system initialisation; *)
(* the sensor is read if the Modbus client could be set up.                 *)
Init ==
  /\ delayed \in {{}, {"read_co2"}}
  /\ queue = <<"start_network">> /\ running = None
  /\ tries = 0 /\ restarting = FALSE /\ last = "CONNECT"
  /\ lwm2m_setup = FALSE /\ client = "off" /\ server = <<>>
  /\ client_status = "DISCONNECT"
  /\ ring = <<>> /\ inflight = 0
  /\ is_connected = FALSE /\ enabled \in BOOLEAN /\ joining = FALSE

-----------------------------------------------------------------------------
(* The work queue *)

(* A delay ends: the item is submitted, unless it already is. *)
Expire(i) ==
  /\ i \in delayed
  /\ delayed' = delayed \ {i}
  /\ queue' = IF Queued(i) THEN queue ELSE Append(queue, i)
  /\ UNCHANGED <<running, flow, lwm2m, client_status, pings, network>>

Run ==
  /\ running = None /\ queue # <<>>
  /\ running' = Head(queue)
  /\ queue' = Tail(queue)
  /\ tries' = 0
  /\ UNCHANGED <<delayed, restarting, last, lwm2m, client_status, pings, network>>

(* The handler ends with k_work_schedule(i): nothing if i waits already. *)
EndScheduling(i) ==
  /\ running' = None
  /\ delayed' = IF Queued(i) THEN delayed ELSE delayed \cup {i}
  /\ UNCHANGED queue

(* The handler ends with k_work_submit(i). *)
EndSubmitting(i) ==
  /\ running' = None
  /\ queue' = IF Queued(i) THEN queue ELSE Append(queue, i)
  /\ UNCHANGED delayed

-----------------------------------------------------------------------------
(* startNetwork *)

NetWait ==
  /\ running = "start_network" /\ ~is_connected /\ tries < Checks
  /\ tries' = tries + 1
  /\ UNCHANGED <<work, restarting, last, lwm2m, client_status, pings, network>>

(* app_ot_start_join takes Thread down before it starts the joiner. *)
NetJoin ==
  /\ running = "start_network" /\ ~is_connected /\ tries = Checks
  /\ enabled' = FALSE /\ joining' = TRUE
  /\ EndSubmitting("start_network")
  /\ UNCHANGED <<flow, lwm2m, client_status, pings, is_connected>>

NetUp ==
  /\ running = "start_network" /\ is_connected
  /\ EndScheduling("send_ping")
  /\ UNCHANGED <<flow, lwm2m, client_status, pings, network>>

(* sendPing and startLWM2M come back later when the network is gone. *)
Wait ==
  /\ running \in {"send_ping", "start_lwm2m"} /\ ~restarting /\ ~is_connected
  /\ EndScheduling(running)
  /\ UNCHANGED <<flow, lwm2m, client_status, pings, network>>

PingSend ==
  /\ running = "send_ping" /\ is_connected
  /\ inflight' = MaxReplies
  /\ EndScheduling("start_lwm2m")
  /\ UNCHANGED <<flow, lwm2m, client_status, ring, network>>

-----------------------------------------------------------------------------
(* startLWM2M *)

(* ring_buf_get of an address. *)
Got  == SubSeq(ring, 1, IF Len(ring) < AddrLen THEN Len(ring) ELSE AddrLen)
Rest == SubSeq(ring, Len(Got) + 1, Len(ring))

Starting == running = "start_lwm2m" /\ ~restarting /\ is_connected

(* No whole address is left: what there is goes, and the ping is repeated. *)
RePing ==
  /\ Starting /\ Len(Got) # AddrLen
  /\ ring' = <<>>
  /\ EndSubmitting("send_ping")
  /\ UNCHANGED <<flow, lwm2m, client_status, inflight, network>>

(* Mutant: the length of the address is not checked. *)
FirstStartAnyLength ==
  /\ Starting /\ ~lwm2m_setup
  /\ ring' = Rest
  /\ \/ lwm2m_setup' = TRUE /\ client' = "started" /\ server' = Got
     \/ UNCHANGED lwm2m
  /\ EndScheduling("manage_lwm2m")
  /\ UNCHANGED <<flow, client_status, inflight, network>>

(* The first server: app_lwm2m_client_setup, which may fail, and the start. *)
FirstStart ==
  /\ Starting /\ Len(Got) = AddrLen /\ ~lwm2m_setup
  /\ ring' = Rest
  /\ \/ lwm2m_setup' = TRUE /\ client' = "started" /\ server' = Got
     \/ UNCHANGED lwm2m
  /\ EndScheduling("manage_lwm2m")
  /\ UNCHANGED <<flow, client_status, inflight, network>>

(* Another server: the client is stopped, its URL rewritten, and the       *)
(* handler sleeps; if the engine cannot find the URL, it returns and       *)
(* schedules nothing.                                                      *)
StopClient ==
  /\ Starting /\ Len(Got) = AddrLen /\ lwm2m_setup
  /\ ring' = Rest
  /\ client' = "stopped"
  /\ \/ server' = Got /\ restarting' = TRUE /\ UNCHANGED work
     \/ running' = None /\ UNCHANGED <<server, restarting, delayed, queue>>
  /\ UNCHANGED <<tries, last, lwm2m_setup, client_status, inflight, network>>

RestartClient ==
  /\ restarting
  /\ restarting' = FALSE
  /\ client' = "started"
  /\ EndScheduling("manage_lwm2m")
  /\ UNCHANGED <<tries, last, lwm2m_setup, server, client_status, pings, network>>

-----------------------------------------------------------------------------
(* manageLWM2M and readCO2 *)

(* Mutant: no return after the restart is scheduled. *)
ManageNoReturn ==
  /\ running = "manage_lwm2m"
  /\ running' = None
  /\ last' = client_status
  /\ delayed' = delayed \cup {"manage_lwm2m"} \cup
       IF client_status = "DISCONNECT" /\ last = "DISCONNECT" THEN {"start_lwm2m"} ELSE {}
  /\ UNCHANGED <<queue, tries, restarting, lwm2m, client_status, pings, network>>

(* Mutant: one check is enough. *)
ManageHasty ==
  /\ running = "manage_lwm2m"
  /\ last' = "CONNECT"
  /\ EndScheduling(IF client_status = "DISCONNECT" THEN "start_lwm2m" ELSE "manage_lwm2m")
  /\ UNCHANGED <<tries, restarting, lwm2m, client_status, pings, network>>

(* Mutant: the status is not remembered. *)
ManageForgetful ==
  /\ running = "manage_lwm2m"
  /\ last' = "CONNECT"
  /\ EndScheduling(IF client_status = "DISCONNECT" /\ last = "DISCONNECT"
                   THEN "start_lwm2m" ELSE "manage_lwm2m")
  /\ UNCHANGED <<tries, restarting, lwm2m, client_status, pings, network>>

Manage ==
  /\ running = "manage_lwm2m"
  /\ \/ /\ client_status = "DISCONNECT" /\ last = "DISCONNECT"
        /\ last' = "CONNECT"
        /\ EndScheduling("start_lwm2m")
     \/ /\ ~(client_status = "DISCONNECT" /\ last = "DISCONNECT")
        /\ last' = client_status
        /\ EndScheduling("manage_lwm2m")
  /\ UNCHANGED <<tries, restarting, lwm2m, client_status, pings, network>>

ReadCO2 ==
  /\ running = "read_co2"
  /\ EndScheduling("read_co2")
  /\ UNCHANGED <<flow, lwm2m, client_status, pings, network>>

-----------------------------------------------------------------------------
(* OpenThread and the LwM2M engine *)

(* Mutant: a reply is stored whether it fits or not. *)
PingReplyUnbounded(a) ==
  /\ inflight > 0
  /\ inflight' = inflight - 1
  /\ ring' = ring \o [k \in 1 .. AddrLen |-> <<a, k>>]
  /\ UNCHANGED <<work, flow, lwm2m, client_status, network>>

(* handlePingReply: ring_buf_put stores what fits. *)
PingReply(a) ==
  LET address == [k \in 1 .. AddrLen |-> <<a, k>>]
      room    == RingCap - Len(ring)
  IN  /\ inflight > 0
      /\ inflight' = inflight - 1
      /\ ring' = ring \o SubSeq(address, 1, IF room < AddrLen THEN room ELSE AddrLen)
      /\ UNCHANGED <<work, flow, lwm2m, client_status, network>>

PingLost ==
  /\ inflight > 0
  /\ inflight' = inflight - 1
  /\ UNCHANGED <<work, flow, lwm2m, client_status, ring, network>>

(* app_on_thread_state_changed *)
RoleChange ==
  /\ is_connected \/ enabled
  /\ is_connected' = ~is_connected
  /\ UNCHANGED <<work, flow, lwm2m, client_status, pings, enabled, joining>>

(* handle_openthread_join_callback *)
JoinDone ==
  /\ joining
  /\ joining' = FALSE
  /\ enabled' \in {enabled, TRUE}
  /\ UNCHANGED <<work, flow, lwm2m, client_status, pings, is_connected>>

(* rd_client_event: events of success, of failure, and of neither. *)
StatusAfter(event) ==
  CASE event \in {"BOOTSTRAP_REG_COMPLETE", "REGISTRATION_COMPLETE", "REG_UPDATE_COMPLETE"}
         -> "CONNECT"
    [] event \in {"BOOTSTRAP_REG_FAILURE", "REGISTRATION_FAILURE", "REG_UPDATE_FAILURE",
                  "DISCONNECT"}
         -> "DISCONNECT"
    [] OTHER -> client_status

RdEvents == {"NONE", "BOOTSTRAP_REG_FAILURE", "BOOTSTRAP_REG_COMPLETE",
             "BOOTSTRAP_TRANSFER_COMPLETE", "REGISTRATION_FAILURE", "REGISTRATION_COMPLETE",
             "REG_UPDATE_FAILURE", "REG_UPDATE_COMPLETE", "DEREGISTER_FAILURE",
             "DISCONNECT", "QUEUE_MODE_RX_OFF"}

RdEvent ==
  /\ client # "off"
  /\ \E event \in RdEvents : client_status' = StatusAfter(event)
  /\ UNCHANGED <<work, flow, lwm2m, pings, network>>

Handler ==
  \/ NetWait \/ NetJoin \/ NetUp \/ Wait \/ PingSend \/ RePing \/ FirstStart
  \/ StopClient \/ RestartClient \/ Manage \/ ReadCO2

Next ==
  \/ \E i \in Works : Expire(i)
  \/ Run \/ Handler
  \/ \E a \in Servers : PingReply(a)
  \/ PingLost \/ RoleChange \/ JoinDone \/ RdEvent

Spec == Init /\ [][Next]_vars

(* Delays end, the work queue runs, a join ends, and a ping repeated for   *)
(* ever is answered again and again.                                       *)
Fairness ==
  /\ \A i \in Works : WF_vars(Expire(i))
  /\ WF_vars(Run) /\ WF_vars(Handler) /\ WF_vars(JoinDone)
  /\ SF_vars(\E a \in Servers : PingReply(a))

FairSpec == Spec /\ Fairness

-----------------------------------------------------------------------------

(* Every variable stays in its type. *)
TypeOK ==
  /\ delayed \subseteq Works /\ queue \in Seq(Works) /\ running \in Works \cup {None}
  /\ tries \in 0 .. Checks /\ restarting \in BOOLEAN
  /\ last \in {"CONNECT", "DISCONNECT"} /\ client_status \in {"CONNECT", "DISCONNECT"}
  /\ lwm2m_setup \in BOOLEAN /\ client \in {"off", "started", "stopped"}
  /\ server \in Seq(Servers \X (1 .. AddrLen))
  /\ ring \in Seq(Servers \X (1 .. AddrLen)) /\ Len(ring) <= RingCap
  /\ inflight \in 0 .. MaxReplies
  /\ is_connected \in BOOLEAN /\ enabled \in BOOLEAN /\ joining \in BOOLEAN

(* The places item i waits or runs in. *)
Places(i) ==
  Cardinality({k \in 1 .. Len(queue) : queue[k] = i})
    + (IF i \in delayed THEN 1 ELSE 0) + (IF running = i THEN 1 ELSE 0)

(* No two stages are ever scheduled together, and no stage twice, although *)
(* each handler schedules the next one: two chains would stop and start    *)
(* one client against each other.                                          *)
OneChain == Cardinality({i \in Chain : Busy(i)}) <= 1 /\ \A i \in Works : Places(i) <= 1

(* startLWM2M has returned for want of a URL, and left the client stopped. *)
Abandoned == client = "stopped" /\ ~restarting

(* Supervision never ends, whatever the network and the server do, but by  *)
(* the one return of startLWM2M that schedules nothing (main.c:156).       *)
Supervised == (\E i \in Chain : Busy(i)) <=> ~Abandoned

(* The chain of work items neither forks nor breaks. *)
OneSupervisor == OneChain /\ Supervised

(* A client exists exactly when its setup succeeded, and is stopped while  *)
(* startLWM2M sleeps on its way to start it on another server.             *)
ClientFollowsSetup ==
  /\ lwm2m_setup <=> client # "off"
  /\ restarting => client = "stopped" /\ running = "start_lwm2m"

(* The server is a node that answered: an address is never put together    *)
(* from the bytes of two replies, however replies and reads interleave.    *)
WholeAddress ==
  lwm2m_setup => \E a \in Servers : server = [k \in 1 .. AddrLen |-> <<a, k>>]

(* The client is the one that was set up, for a server that exists. *)
ClientAsFound == ClientFollowsSetup /\ WholeAddress

(* Sensor readings, once scheduled, go on for ever, although other items   *)
(* sleep in the same queue and one of them submits itself again and again. *)
ReadingsContinue == "read_co2" \in delayed => []<>(running = "read_co2")

(* A node that stays attached keeps watching a registration: failed        *)
(* setups, empty pings and dead servers never end the search.              *)
KeepsWatching == <>[]is_connected => []<>(Busy("manage_lwm2m") \/ Abandoned)

(* A server that stays gone is given up for the next one, again and again. *)
KeepsRestarting ==
  <>[](is_connected /\ client_status = "DISCONNECT")
    => []<>(running = "start_lwm2m" \/ Abandoned)

(* Measuring, watching and searching go on for ever. *)
KeepsGoing == ReadingsContinue /\ KeepsWatching /\ KeepsRestarting

(* main.c:57-58 of lwm2m_sensor: joining that fails "多次不成功则进入低功耗 *)
(* 模式", several times, puts the node into low power mode: it stops.      *)
GivesUpJoining == <>[]~is_connected => <>[](running # "start_network")

(* The stages behind the work items; they implement the supervisor. *)
Stage  == IF Abandoned THEN "abandoned" ELSE CHOOSE i \in Chain : Busy(i)
Missed == last = "DISCONNECT"

Abstract == INSTANCE Supervisor
  WITH stage <- Stage, missed <- Missed, connected <- is_connected

ImplementsSupervisor == Abstract!SupervisorSpec
=============================================================================
