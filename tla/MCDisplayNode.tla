--------------------------- MODULE MCDisplayNode ---------------------------
(***************************************************************************)
(* Zero, and a reading that is cold and damp; the server's values          *)
(* include those a 32-bit field may hold.                                  *)
(*                                                                         *)
(* The network changes and answers while the node starts, until the first  *)
(* drawing: later nothing reads the connection, and answers are ignored.   *)
(* The client registers when all answers have come.  Which server answers  *)
(* first makes no difference.                                              *)
(***************************************************************************)
EXTENDS DisplayNode

MCReadings == {Zero, [whole |-> -40, part |-> 900000, humi |-> 99]}
MCOutdoorValues == {[whole |-> 0, part |-> 0], [whole |-> 99, part |-> 999999],
                    [whole |-> -2147483647, part |-> -500000],
                    [whole |-> 2147483647, part |-> 2147483647]}
MCBatValues == {-32768, -1, 0, 2525, 2526, 2587, 2588, 2642, 2643, 2730, 2731, 4095, 32767}

Starting == \/ frame = None /\ main # "fault"
            \/ work = "queued"

First   == CHOOSE s \in Servers : TRUE

MCNext ==
  \/ Sensor \/ Main \/ PanelReady
  \/ Starting /\ (RoleChange \/ JoinDone)
  \/ Starting /\ IF lwm2mServer = None THEN Reply(First) ELSE \E s \in Servers : Reply(s)
  \/ SendPing \/ StartLWM2M \/ Setup
  \/ Report("disconnect")
  \/ replies = 0 /\ connected /\ Report("connect")

(* Next with fewer steps of the surroundings, which no fairness is about.  *)
MCSpec == Init /\ [][MCNext]_vars /\ Fairness
=============================================================================
