------------------------------ MODULE MCAtUart ------------------------------
(* AtUart with a ring of two bytes: empty, partly full and full. *)
EXTENDS AtUart
=============================================================================
