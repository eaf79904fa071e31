----------------------------- MODULE MCSimCore ------------------------------
(***************************************************************************)
(* Two small firmwares for SimCore.  Vector 1 belongs to a timer, vector 2 *)
(* to a peripheral; both have their one-word entries behind the reset      *)
(* vector, as in a table of RJMPs.                                         *)
(***************************************************************************)
EXTENDS SimCore, TLC

I(op, cyc, to, en) == [op |-> op, cyc |-> cyc, to |-> to, en |-> en]
Seq1 == I("seq", 0, 0, {})
Reti == I("reti", 3, 0, {})

\* An interrupt driven firmware: main enables its interrupts and loops over a
\* two-cycle instruction; a BREAK is left in it.
Driven ==
  (0 :> I("jmp", 1, 3, {})) @@ (1 :> Reti) @@ (2 :> Reti)
  @@ (3 :> I("ie", 0, 0, {1})) @@ (4 :> I("sei", 0, 0, {}))
  @@ (5 :> I("seq", 1, 0, {})) @@ (6 :> I("break", 0, 0, {}))
  @@ (7 :> I("jmp", 1, 5, {}))

\* A firmware that polls an I/O bit and fails: an instruction the device lacks
\* at 6, a word that is no instruction at 7.
Polling ==
  (0 :> I("sei", 0, 0, {})) @@ (1 :> I("sbis", 1, 0, {})) @@ (2 :> Reti)
  @@ (3 :> I("seq", 2, 0, {})) @@ (4 :> I("cli", 0, 0, {}))
  @@ (5 :> I("sbis", 1, 0, {})) @@ (6 :> I("illegal", 0, 0, {}))
  @@ (7 :> I("unknown", 0, 0, {}))

\* A matchpoint at the BREAK of Driven leaves a byte of it in mpm.
PatchedMpm      == [Zeroed EXCEPT ![6] = NoInstr]
MCMatchMemories == {Zeroed, PatchedMpm}
MCDebugImages   == {<<Driven, PatchedMpm>>}

MCPrograms  == {Driven, Polling}
DrivenOnly  == {Driven}
MCModes     == {<<FALSE, FALSE>>, <<FALSE, TRUE>>, <<TRUE, FALSE>>}
MCDebugPCs  == {8}
MCLuaStates == {"AVR_STOPPED", "AVR_MSIM_STOP"}
=============================================================================
