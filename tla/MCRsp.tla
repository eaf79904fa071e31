-------------------------------- MODULE MCRsp ---------------------------------
(***************************************************************************)
(* Two debuggers one after the other, or at once.  One packet is damaged,  *)
(* or one call fails, and one interrupt is sent on the way.                *)
(***************************************************************************)
EXTENDS Rsp

CONSTANTS c1, c2

MCClients     == {c1, c2}
MCMaxRequests == [c \in Clients |-> IF c = c1 THEN 2 ELSE 1]
MCOneRequest  == [c \in Clients |-> 1]
=============================================================================
