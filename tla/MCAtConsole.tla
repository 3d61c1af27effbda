----------------------------- MODULE MCAtConsole -----------------------------
(* AtConsole with a buffer of a few bytes: long enough for a quoted string, *)
(* short enough to overflow.                                                *)
EXTENDS AtConsole
=============================================================================
