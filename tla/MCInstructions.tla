---------------------------- MODULE MCInstructions -----------------------------
(* The routines of the runs. *)
EXTENDS Firmware

AllRoutines == RoutineNames \ {"poll"}
=============================================================================
