------------------------------- MODULE MCTSQ ---------------------------------
(***************************************************************************)
(* One producer and one consumer share a queue of three elements.          *)
(***************************************************************************)
EXTENDS TSQ
CONSTANTS p1, p2, c1, a, b, none
=============================================================================
