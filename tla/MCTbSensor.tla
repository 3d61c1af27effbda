----------------------------- MODULE MCTbSensor -----------------------------
(***************************************************************************)
(* Temperatures that drift from 25.000 in steps of less than a tenth of a  *)
(* degree (37 counts), one of which, 25.048, is printed almost half a      *)
(* tenth below its value; a second humidity a tenth of a percent (65       *)
(* counts) away; and a pair that is less than a tenth from the 0.0 the     *)
(* node starts with.                                                       *)
(***************************************************************************)
EXTENDS TbSensor

MCAir == {<<26214, 32768>>, <<26232, 32768>>, <<26268, 32768>>, <<26304, 32768>>,
          <<26214, 32840>>, <<16852, 10>>}
=============================================================================
