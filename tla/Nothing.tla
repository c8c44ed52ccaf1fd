------------------------------- MODULE Nothing -------------------------------
(***************************************************************************)
(* No value: null, undefined and the NULL of a table.  The modules of the  *)
(* features share it, so that one module may prove about all of them.      *)
(***************************************************************************)
CONSTANT None
=============================================================================
