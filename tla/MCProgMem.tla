------------------------------ MODULE MCProgMem -------------------------------
(***************************************************************************)
(* A flash of four words with pages of two.  The lower bytes of words 0    *)
(* and 1 of one firmware look like JMP, and those of words 2 and 3 of the  *)
(* other like BREAK.                                                       *)
(***************************************************************************)
EXTENDS ProgMem

JmpFirmware   == <<[address |-> 0, data |-> <<780, 2452, 3>>], [address |-> 6, data |-> <<772>>]>>
BreakFirmware == <<[address |-> 0, data |-> <<1, 258>>], [address |-> 4, data |-> <<152, 149>>]>>
\* Two records for one word that differ: refused.
OverlapFirmware == <<[address |-> 0, data |-> <<1, 2>>], [address |-> 2, data |-> <<3>>]>>
\* The same with equal sums of their bytes: accepted.
SwappedFirmware == <<[address |-> 0, data |-> <<1, 2>>], [address |-> 2, data |-> <<512>>]>>
MCFirmwares == {JmpFirmware, BreakFirmware, OverlapFirmware, SwappedFirmware}
MCPayloads  == {<<>>, <<1025>>, <<780, 404>>}
MCFills     == {1281}
=============================================================================
