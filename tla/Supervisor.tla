----------------------------- MODULE Supervisor -----------------------------
(***************************************************************************)
(* What the work items of the LwM2M sensor promise together: the node is   *)
(* at one stage at a time.  It attaches to the network, looks for a        *)
(* server, registers with it, and watches the registration; it goes back   *)
(* to registering only after two checks in a row have found it gone, and   *)
(* goes back to looking when no server is left to try.  It ends in one     *)
(* case only, when the URL of a stopped client cannot be rewritten.        *)
(***************************************************************************)
VARIABLES stage, missed, client, connected, client_status

node == <<stage, missed, client>>
supervisorVars == <<stage, missed, client, connected, client_status>>

SupervisorInit ==
  /\ stage = "start_network" /\ missed = FALSE /\ client = "off"
  /\ connected = FALSE /\ client_status = "DISCONNECT"

Advance(from, to) ==
  /\ stage = from /\ connected
  /\ stage' = to
  /\ UNCHANGED <<missed, client, connected, client_status>>

(* The first registration; setting the client up may fail. *)
Register ==
  /\ stage = "start_lwm2m" /\ connected /\ client = "off"
  /\ stage' = "manage_lwm2m"
  /\ client' \in {"off", "started"}
  /\ UNCHANGED <<missed, connected, client_status>>

(* Registering again stops the client, and then starts it on the new server. *)
Stop ==
  /\ stage = "start_lwm2m" /\ connected /\ client = "started"
  /\ client' = "stopped"
  /\ stage' \in {"start_lwm2m", "abandoned"}
  /\ UNCHANGED <<missed, connected, client_status>>

Restart ==
  /\ stage = "start_lwm2m" /\ client = "stopped"
  /\ client' = "started"
  /\ stage' = "manage_lwm2m"
  /\ UNCHANGED <<missed, connected, client_status>>

Check ==
  LET gone == client_status = "DISCONNECT" IN
  /\ stage = "manage_lwm2m"
  /\ missed' = (gone /\ ~missed)
  /\ stage' = IF gone /\ missed THEN "start_lwm2m" ELSE "manage_lwm2m"
  /\ UNCHANGED <<client, connected, client_status>>

(* The network comes and goes; the engine reports on a client it knows. *)
Environment ==
  /\ UNCHANGED node
  /\ \/ connected' \in BOOLEAN /\ UNCHANGED client_status
     \/ client # "off" /\ client_status' \in {"CONNECT", "DISCONNECT"} /\ UNCHANGED connected

SupervisorNext ==
  \/ Advance("start_network", "send_ping")
  \/ Advance("send_ping", "start_lwm2m")
  \/ Advance("start_lwm2m", "send_ping")
  \/ Register \/ Stop \/ Restart \/ Check \/ Environment

SupervisorSpec == SupervisorInit /\ [][SupervisorNext]_supervisorVars
=============================================================================
