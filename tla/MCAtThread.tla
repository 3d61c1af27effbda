----------------------------- MODULE MCAtThread -----------------------------
(* AtThread with a period that OpenThread takes and one that it refuses. *)
EXTENDS AtThread
=============================================================================
