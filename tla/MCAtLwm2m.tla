----------------------------- MODULE MCAtLwm2m ------------------------------
(***************************************************************************)
(* AtLwm2m with 8-bit words in place of 32-bit ones.  The commands for the *)
(* server and those for values share no variable but the answer; they are  *)
(* checked side by side, not in every combination.  After a report, which  *)
(* nothing reads, only further reports, the end of the command in progress *)
(* and a restart are followed.                                             *)
(***************************************************************************)
EXTENDS AtLwm2m, TLC

NoValueYet  == cell = NoCell

(* Without protection the key that is given does not matter.               *)
AKey == CHOOSE k \in Keys : TRUE
MCSaveServer ==
  \E boot \in BOOLEAN, addr \in Addrs \cup {Empty}, psk \in {Off, "on", "unnamed"},
     saved \in BOOLEAN :
    \E key \in IF psk = Off THEN {AKey} ELSE Keys :
      SaveServer(boot, addr, psk, key, saved)

NoServerYet ==
  told = NoServer /\ client = Idle /\ ~restarted /\ flash = NoServer /\ Between

MCNext ==
  \/ NoValueYet /\ event = "none" /\ (MCSaveServer \/ SetServerRefused \/ ReadServer)
  \/ \E urlFound \in BOOLEAN : StartServer(urlFound)
  \/ \E e \in Events \ {"none"} : Report(e)
  \/ NoServerYet /\ NoValueYet /\ (WriteAny \/ OtherAny)
  \/ \E urlFound \in BOOLEAN : Reset(urlFound)

(* Sound: only invariants are checked, and no address or key is special. *)
Symmetry == Permutations(Addrs) \cup Permutations(Keys)

MCSpec == Init /\ [][MCNext]_vars
=============================================================================
