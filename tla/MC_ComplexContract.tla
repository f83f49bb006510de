------------------------- MODULE MC_ComplexContract --------------------------
(* ComplexContract for TLC: the constants are numbers, given in the .cfg. *)
EXTENDS ComplexContract
==============================================================================
