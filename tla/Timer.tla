-------------------------------- MODULE Timer --------------------------------
(***************************************************************************)
(* A timer/counter of MCUSim (avr_timer.c).  Tick is one call of           *)
(* update_timer, made in every cycle of the system clock while the MCU is  *)
(* active; between two calls the firmware may write the registers and      *)
(* pass_irqs may take a flag that is raised.                               *)
(*                                                                         *)
(* The registers of a device are a configuration of the code (m8a.h): here *)
(* WgmOp is its table of waveform generation modes, ComOp the pin actions  *)
(* of a compare channel and Presc the prescaler of a clock selection.      *)
(***************************************************************************)
EXTENDS Integers, FiniteSets

CONSTANTS
  Max,        \* the counter has size bits: 2^size - 1
  Channels,   \* output compare channels
  WgmOp,      \* [0..n -> Wgm], tmr->wgm_op
  ComOp,      \* [0..n -> [Coms -> Ops]], comp->com_op
  Coms,       \* values of the COM bits the firmware uses
  Presc,      \* [clock selections -> prescalers], 1 << cs_div[cs]
  IcpValues,  \* levels of the input capture pin; one level if there is no such pin
  RegValues,  \* values the firmware writes to OCR, ICR and TCNT
  ModeChanges \* pairs <<m, n>>: the firmware may switch from mode m to n

Modes == DOMAIN WgmOp
Kinds == {"NONE", "NORMAL", "CTC", "FASTPWM", "PCPWM", "PFCPWM"}
Times == {"ATNONE", "ATMAX", "ATTOP", "ATBOTTOM", "ATIMMEDIATE"}
\* rtop names the register that holds TOP: a channel, "icr" or "none".
Wgm   == [kind : Kinds, top : 0..Max, rtop : Channels \cup {"icr", "none"},
          updocr_at : Times, settov_at : Times]
Ops   == {"DISC", "TGONCM", "CLONCM", "STONCM", "CLONCM_STATBOT",
          "STONCM_CLATBOT", "CLONUP_STONDOWN", "STONUP_CLONDOWN"}

ASSUME SizeAssumption == Max \in Nat \ {0} /\ RegValues \subseteq 0..Max
ASSUME IcpAssumption == IcpValues \subseteq {0, 1} /\ IcpValues # {}
ASSUME ModesAssumption ==
  /\ IsFiniteSet(Modes) /\ Modes = 0..Cardinality(Modes) - 1
  /\ WgmOp \in [Modes -> Wgm] /\ ComOp \in [Modes -> [Coms -> Ops]]
  /\ ModeChanges \subseteq Modes \X Modes
ASSUME ClockAssumption ==
  /\ 0 \notin DOMAIN Presc
  /\ \A cs \in DOMAIN Presc : Presc[cs] \in Nat \ {0}

VARIABLES
  \* Registers
  tcnt, ocr, icr,
  cs,        \* clock selection; 0 stops the timer, as does its disable bit
  wgm, com, ddp,
  tov, ocf, icf,   \* flags: iv_ovf, iv of a channel and iv_ic are raised
  pin,       \* output compare pins
  \* State of the simulated timer
  scnt, cnt_dir, ocr_buf, rtop_buf, pending, icpval,
  \* History: since the firmware last wrote more than OCR or ICR (and, in a mode
  \* of two slopes, since a buffer changed) the counter has been at BOTTOM, and
  \* at TOP after that
  bottomed, topped

regs   == <<tcnt, ocr, icr>>
ctrl   == <<cs, wgm, com, ddp>>
flags  == <<tov, ocf, icf>>
intern == <<scnt, cnt_dir, ocr_buf, rtop_buf, pending, icpval>>
hist   == <<bottomed, topped>>
vars   == <<regs, ctrl, flags, pin, intern, hist>>

Init ==
  /\ tcnt = 0 /\ ocr = [c \in Channels |-> 0] /\ icr = 0
  /\ cs = 0 /\ wgm \in Modes
  /\ com \in [Channels -> Coms] /\ ddp = [c \in Channels |-> FALSE]
  /\ tov = FALSE /\ ocf = [c \in Channels |-> FALSE] /\ icf = FALSE
  /\ pin = [c \in Channels |-> 0]
  /\ scnt = 0 /\ cnt_dir = "UP"
  /\ ocr_buf = [c \in Channels |-> 0] /\ rtop_buf = [m \in Modes |-> 0]
  /\ pending = [c \in Channels |-> FALSE] /\ icpval = 0
  /\ bottomed = FALSE /\ topped = FALSE

W == WgmOp[wgm]
DualSlope == W.kind \in {"PCPWM", "PFCPWM"}
RegTop(m, i) == CASE WgmOp[m].rtop \in Channels -> ocr[WgmOp[m].rtop]
                  [] WgmOp[m].rtop = "icr"      -> i
                  [] OTHER                      -> 0
Top == CASE W.rtop = "none"              -> W.top
         [] W.updocr_at = "ATIMMEDIATE"  -> RegTop(wgm, icr)
         [] OTHER                        -> rtop_buf[wgm]

(***************************************************************************)
(* update_ocr_buffers and update_wgm_buffers.  The latter stops at the     *)
(* first mode of the table that looks undefined.                           *)
(***************************************************************************)
IsNoWgm(m) == WgmOp[m].kind = "NONE" /\ WgmOp[m].top = 0
Refreshed  == {m \in Modes : \A n \in 0..m : ~IsNoWgm(n)}
UpdateBuffers ==
  /\ ocr_buf' = ocr
  /\ rtop_buf' = [m \in Modes |-> IF m \in Refreshed THEN RegTop(m, icr')
                                                     ELSE rtop_buf[m]]

(***************************************************************************)
(* The moments of a count, tested on the value the counter has before it.  *)
(***************************************************************************)
ReachesTop == cnt_dir = "UP" /\ tcnt = Top - 1
ReachesBottom == IF DualSlope THEN cnt_dir = "DOWN" /\ tcnt = 1 ELSE tcnt = Top

\* Mutant: buffers are updated in every count.
UpdatesAtOnce   == W.updocr_at = "ATBOTTOM"
UpdatesAtTop    == ReachesTop /\ W.updocr_at \in {"ATTOP", "ATMAX"}
UpdatesAtBottom == ReachesBottom /\ W.updocr_at = "ATBOTTOM"

\* Mutant: a channel is compared with the register that was just written.
ComparedUnbuffered(c) == ocr[c]
\* Buffers updated at TOP are compared at once, those updated at BOTTOM are not.
Compared(c) == IF W.updocr_at = "ATIMMEDIATE" \/ UpdatesAtTop THEN ocr[c]
                                                             ELSE ocr_buf[c]

Matches(c) == \/ cnt_dir = "UP"   /\ tcnt = Compared(c) - 1
              \/ cnt_dir = "DOWN" /\ tcnt = Compared(c) + 1

\* Mutant: the flag of a mode that overflows at TOP is forgotten.
SetsTovAtBottomOnly == ReachesBottom /\ W.settov_at = "ATBOTTOM"
SetsTov == \/ ReachesTop    /\ W.settov_at \in {"ATTOP", "ATMAX"}
           \/ ReachesBottom /\ W.settov_at = "ATBOTTOM"

(***************************************************************************)
(* trigger_oc_pin, at a compare match and then at BOTTOM.                  *)
(***************************************************************************)
Op(c) == ComOp[wgm][com[c]]
NotNearEnds == tcnt # Top - 1 /\ tcnt # 1

AtMatch(c) ==
  CASE cnt_dir = "UP" /\ Op(c) = "TGONCM"                        -> 1 - pin[c]
    [] cnt_dir = "UP" /\ Op(c) \in {"CLONCM", "CLONCM_STATBOT"}  -> 0
    [] cnt_dir = "UP" /\ Op(c) \in {"STONCM", "STONCM_CLATBOT"}  -> 1
    [] NotNearEnds /\ Op(c) = "CLONUP_STONDOWN" -> IF cnt_dir = "UP" THEN 0 ELSE 1
    [] NotNearEnds /\ Op(c) = "STONUP_CLONDOWN" -> IF cnt_dir = "UP" THEN 1 ELSE 0
    [] OTHER -> pin[c]

\* Mutant: the two actions at BOTTOM are swapped.
AtBottomSwapped(c, p) ==
  CASE cnt_dir = "UP" /\ Op(c) = "CLONCM_STATBOT" -> 0
    [] cnt_dir = "UP" /\ Op(c) = "STONCM_CLATBOT" -> 1
    [] OTHER -> p
AtBottom(c, p) ==
  CASE cnt_dir = "UP" /\ Op(c) = "CLONCM_STATBOT" -> 1
    [] cnt_dir = "UP" /\ Op(c) = "STONCM_CLATBOT" -> 0
    [] OTHER -> p

PinAfter(c) ==
  LET p == IF Matches(c) THEN AtMatch(c) ELSE pin[c]
  IN  IF ~ddp[c] THEN pin[c] ELSE IF ReachesBottom THEN AtBottom(c, p) ELSE p

(***************************************************************************)
(* The counter unit.  The register is size bits wide.                      *)
(***************************************************************************)

\* Mutant: it is not cut to its size.
NotTruncated(n) == n
Truncated(n)    == n % (Max + 1)

Direction == cnt_dir' = IF DualSlope /\ tcnt = Top THEN "DOWN"
                        ELSE IF DualSlope /\ tcnt = 0 THEN "UP" ELSE cnt_dir

Count ==
  /\ Direction
  /\ tcnt' = IF ~DualSlope /\ tcnt = Top THEN 0
             ELSE IF cnt_dir' = "UP" THEN Truncated(tcnt + 1) ELSE Truncated(tcnt - 1)

\* A count of the timer, in every Presc[cs]-th cycle.
Clocked ==
  /\ IF UpdatesAtTop \/ UpdatesAtBottom THEN UpdateBuffers
                                        ELSE UNCHANGED <<ocr_buf, rtop_buf>>
  /\ tov' = (tov \/ SetsTov)
  /\ pin' = [c \in Channels |-> PinAfter(c)]
  /\ Count
  /\ scnt' = 0
  /\ LET kept == <<ocr_buf, rtop_buf>>' = <<ocr_buf, rtop_buf>>
     IN  /\ bottomed' = (ReachesBottom \/ (bottomed /\ (DualSlope => kept)))
         /\ topped' = (kept /\ (topped \/ (bottomed /\ ReachesTop)))

(***************************************************************************)
(* int_raise_pending: the flag of a match is raised in the cycle before    *)
(* the next count.                                                         *)
(***************************************************************************)

\* Mutant: the flag is due one cycle too early.
RaisesEarly   == scnt = Presc[cs] - 3
RaisesPending == scnt = Presc[cs] - 2

\* The edge that ices selects, here the rising one.
Captures(icp) == icpval = 0 /\ icp = 1

Running == cs # 0
Counts  == Running /\ W.kind # "NONE" /\ scnt >= Presc[cs] - 1

ResetPending == pending' = [c \in Channels |-> FALSE]

TickStopped(icp) ==
  /\ ~Running
  /\ UNCHANGED <<regs, ctrl, flags, pin, cnt_dir, hist>>
  /\ scnt' = 0
  /\ UpdateBuffers
  /\ ResetPending
  /\ icpval' = icp

TickRunning(icp) ==
  /\ Running /\ W.kind # "NONE"
  /\ icr' = IF Captures(icp) /\ W.rtop # "icr" THEN tcnt ELSE icr
  /\ LET left == [c \in Channels |-> pending[c] /\ ~RaisesPending]
     IN  /\ ocf' = [c \in Channels |-> ocf[c] \/ (pending[c] /\ RaisesPending)]
         /\ pending' = [c \in Channels |-> left[c] \/ (Counts /\ Matches(c))]
         /\ IF Counts THEN Clocked
                   ELSE /\ scnt' = scnt + 1
                        /\ UNCHANGED <<tcnt, tov, pin, cnt_dir, ocr_buf, rtop_buf, hist>>
  /\ icf' = (icf \/ Captures(icp))
  /\ icpval' = icp
  /\ UNCHANGED <<ocr, ctrl>>

\* A mode the device does not define.
TickUndefined(icp) ==
  /\ Running /\ W.kind = "NONE"
  /\ icpval' = icp
  /\ UNCHANGED <<regs, ctrl, flags, pin, scnt, cnt_dir, ocr_buf, rtop_buf, pending, hist>>

Tick == \E icp \in IcpValues : TickStopped(icp) \/ TickRunning(icp) \/ TickUndefined(icp)

(***************************************************************************)
(* The firmware, and pass_irqs, which takes a flag.                        *)
(***************************************************************************)
WriteOcr(c, v) == /\ ocr' = [ocr EXCEPT ![c] = v]
                  /\ UNCHANGED <<tcnt, icr, ctrl, flags, pin, intern, hist>>
WriteIcr(v)    == /\ icr' = v
                  /\ UNCHANGED <<tcnt, ocr, ctrl, flags, pin, intern, hist>>

Disturbed == bottomed' = FALSE /\ topped' = FALSE

WriteTcnt(v) == /\ tcnt' = v /\ Disturbed
                /\ UNCHANGED <<ocr, icr, ctrl, flags, pin, intern>>
SelectClock  == /\ cs' \in DOMAIN Presc \cup {0} /\ Disturbed
                /\ UNCHANGED <<regs, wgm, com, ddp, flags, pin, intern>>
SelectMode   == /\ \E m \in Modes : <<wgm, m>> \in ModeChanges /\ wgm' = m
                /\ Disturbed
                /\ UNCHANGED <<regs, cs, com, ddp, flags, pin, intern>>
SelectPin(c) == /\ \E o \in Coms, d \in BOOLEAN :
                     com' = [com EXCEPT ![c] = o] /\ ddp' = [ddp EXCEPT ![c] = d]
                /\ Disturbed
                /\ UNCHANGED <<regs, cs, wgm, flags, pin, intern>>

TakeFlag ==
  /\ \/ tov' = FALSE /\ UNCHANGED <<ocf, icf>>
     \/ \E c \in Channels : ocf' = [ocf EXCEPT ![c] = FALSE] /\ UNCHANGED <<tov, icf>>
     \/ icf' = FALSE /\ UNCHANGED <<tov, ocf>>
  /\ UNCHANGED <<regs, ctrl, pin, intern, hist>>

Firmware ==
  \/ \E v \in RegValues :
       WriteIcr(v) \/ WriteTcnt(v) \/ \E c \in Channels : WriteOcr(c, v)
  \/ SelectClock \/ SelectMode \/ TakeFlag
  \/ \E c \in Channels : SelectPin(c)

Next == Tick \/ Firmware

\* The loop calls update_timer again and again; the firmware need not write.
Spec == Init /\ [][Next]_vars /\ WF_vars(Tick)

-----------------------------------------------------------------------------
TypeOK ==
  /\ tcnt \in 0..Max /\ ocr \in [Channels -> 0..Max] /\ icr \in 0..Max
  /\ cs \in DOMAIN Presc \cup {0} /\ wgm \in Modes
  /\ com \in [Channels -> Coms] /\ ddp \in [Channels -> BOOLEAN]
  /\ tov \in BOOLEAN /\ ocf \in [Channels -> BOOLEAN] /\ icf \in BOOLEAN
  /\ pin \in [Channels -> {0, 1}]
  /\ scnt \in Nat /\ cnt_dir \in {"UP", "DOWN"}
  /\ ocr_buf \in [Channels -> 0..Max] /\ rtop_buf \in [Modes -> 0..Max]
  /\ pending \in [Channels -> BOOLEAN] /\ icpval \in {0, 1}
  /\ bottomed \in BOOLEAN /\ topped \in BOOLEAN

\* avr_timer.c: "Compare match. Interrupt flag should be set at the next timer
\* clock cycle!": a match of the last count is flagged when the timer counts again,
\* whatever the firmware does between.
MatchFlaggedInTime ==
  [][\A c \in Channels : pending[c] /\ Counts /\ Tick => ocf'[c]]_vars

\* In a mode with buffered registers the counter never runs past TOP, although
\* TOP may be rewritten at any time: the buffer changes only where that is safe.
NeverPastTop ==
  bottomed /\ W.updocr_at = "ATBOTTOM" /\ Top > 0 => tcnt <= Top

\* Fast PWM: the pin of a non-inverting channel is high for the first ocr_buf
\* counts of every period, whenever OCR is rewritten.  Without a match
\* (ocr_buf = 0) it stays high.
FastPwmDuty ==
  \A c \in Channels :
    bottomed /\ ddp[c] /\ W.kind = "FASTPWM" /\ Op(c) = "CLONCM_STATBOT"
      => pin[c] = IF tcnt < ocr_buf[c] \/ ocr_buf[c] = 0 THEN 1 ELSE 0

\* Phase correct PWM (timer.h: "Clear@CM(UP), Set@CM(DOWN)"): the pin is low from
\* the match on the way up to the match on the way down.
DualSlopeDuty ==
  \A c \in Channels :
    topped /\ ddp[c] /\ DualSlope /\ Op(c) = "CLONUP_STONDOWN"
      /\ 0 < ocr_buf[c] /\ ocr_buf[c] < Top
      => pin[c] = IF \/ tcnt < ocr_buf[c]
                     \/ tcnt = ocr_buf[c] /\ cnt_dir = "DOWN" THEN 1 ELSE 0

\* A timer left running in a mode of one slope raises its overflow flag again and
\* again, however often pass_irqs takes it and whatever the registers and buffers
\* held before, if the register of TOP is not zero.
Overflows ==
  /\ <>[][Tick \/ TakeFlag]_vars
  /\ <>[](/\ Running /\ W.kind \in {"NORMAL", "FASTPWM"}
          /\ W.rtop # "none" => RegTop(wgm, icr) > 0)
  => []<>tov
-----------------------------------------------------------------------------
\* "Does timer use a dual-slope operation mode? Counting direction matters in this
\* case." In the other modes every count goes up, and from TOP to BOTTOM.
SingleSlopeCountsUp ==
  [][Tick /\ Counts /\ ~DualSlope
       => tcnt' = IF tcnt = Top THEN 0 ELSE Truncated(tcnt + 1)]_vars
=============================================================================
