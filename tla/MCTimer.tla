------------------------------ MODULE MCTimer --------------------------------
(***************************************************************************)
(* A three-bit timer with one channel and one mode of each sort found in   *)
(* the tables of m8a.h.                                                    *)
(***************************************************************************)
EXTENDS Timer, TLC

Mode(kind, top, rtop, upd, tovat) ==
  [kind |-> kind, top |-> top, rtop |-> rtop, updocr_at |-> upd, settov_at |-> tovat]

MCWgmOp ==
  (0 :> Mode("NORMAL", Max, "none", "ATIMMEDIATE", "ATMAX"))
  @@ (1 :> Mode("PCPWM", Max, "none", "ATTOP", "ATBOTTOM"))
  @@ (2 :> Mode("CTC", 0, "A", "ATIMMEDIATE", "ATMAX"))
  @@ (3 :> Mode("FASTPWM", 0, "icr", "ATBOTTOM", "ATTOP"))
  @@ (4 :> Mode("PFCPWM", 0, "icr", "ATBOTTOM", "ATBOTTOM"))
  @@ (5 :> Mode("NONE", 0, "none", "ATNONE", "ATNONE"))

\* COM bits 0 disconnect the pin, 2 is the non-inverting (or clearing) operation.
MCComOp ==
  [m \in 0..5 |-> [c \in Coms |->
     CASE c = 0         -> "DISC"
       [] m = 3         -> "CLONCM_STATBOT"
       [] m \in {1, 4}  -> "CLONUP_STONDOWN"
       [] OTHER         -> "CLONCM"]]

\* The same timer with an input capture pin, in two modes between which the
\* firmware switches.
CaptureWgmOp == (0 :> MCWgmOp[0]) @@ (1 :> MCWgmOp[3])
CaptureComOp == (0 :> MCComOp[0]) @@ (1 :> MCComOp[3])
CaptureModeChanges == {<<0, 1>>, <<1, 0>>}

MCChannels == {"A"}
MCPresc == 2 :> 2
\* clk/1, the first clock selection of every timer.
OnePresc == 1 :> 1
MCModeChanges == {<<0, 3>>, <<3, 0>>}
\* Out of a mode of two slopes into one of a single slope.
LeaveDualSlope == {<<1, 0>>}
=============================================================================
