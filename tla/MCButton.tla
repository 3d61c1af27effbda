------------------------------ MODULE MCButton ------------------------------
(* Button on a small clock: the waits keep the order of the code's         *)
(* (Debounce < ClickWait < DoubleWait < LongPress < Wrap / 2).             *)
EXTENDS Button
=============================================================================
