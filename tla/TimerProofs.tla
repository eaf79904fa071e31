----------------------------- MODULE TimerProofs ------------------------------
(***************************************************************************)
(* A timer of any width with any table of modes, channels and prescalers:  *)
(* its registers keep their width, in a mode with buffered registers the   *)
(* counter stays below TOP, with one prescaler that divides the clock at   *)
(* all a match is flagged in time, and the pins of the PWM modes have the  *)
(* duty cycle of the compare register.                                     *)
(*                                                                         *)
(* None of these is inductive.  What a count does depends on the           *)
(* direction, which is left over from the mode before, and buffers are     *)
(* also filled while the timer is stopped: TopInv says that a mode of one  *)
(* slope counts up and that a stopped timer promises nothing.  The level   *)
(* of a pin depends on the last match, so DutyInv follows the swing of the *)
(* counter from BOTTOM: before the first TOP it can only be on its way up, *)
(* and the pin is right as soon as the match was passed.                   *)
(***************************************************************************)
EXTENDS Timer, TLAPS

Dual(m) == WgmOp[m].kind \in {"PCPWM", "PFCPWM"}

\* The firmware leaves modes of two slopes for such modes only.
KeepsDirection == \A m, n \in Modes : <<m, n>> \in ModeChanges /\ Dual(m) => Dual(n)

-----------------------------------------------------------------------------
(* Types. *)

LEMMA WgmType ==
  ASSUME NEW m \in Modes
  PROVE  /\ WgmOp[m].top \in 0..Max
         /\ WgmOp[m].rtop \in Channels \/ WgmOp[m].rtop \in {"icr", "none"}
  BY ModesAssumption DEF Wgm

LEMMA RegTopType ==
  ASSUME ocr \in [Channels -> 0..Max], NEW m \in Modes, NEW i \in 0..Max
  PROVE  RegTop(m, i) \in 0..Max
<1>1. 0 \in 0..Max
  BY SizeAssumption
<1>2. CASE WgmOp[m].rtop \in Channels
  BY <1>2 DEF RegTop
<1>3. CASE WgmOp[m].rtop \notin Channels /\ WgmOp[m].rtop = "icr"
  BY <1>3 DEF RegTop
<1>4. CASE WgmOp[m].rtop \notin Channels /\ WgmOp[m].rtop # "icr"
  BY <1>1, <1>4 DEF RegTop
<1>. QED
  BY <1>2, <1>3, <1>4

LEMMA TopType ==
  ASSUME TypeOK
  PROVE  Top \in 0..Max
<1>1. wgm \in Modes /\ icr \in 0..Max /\ ocr \in [Channels -> 0..Max]
      /\ rtop_buf \in [Modes -> 0..Max]
  BY DEF TypeOK
<1>2. W.top \in 0..Max /\ RegTop(wgm, icr) \in 0..Max /\ rtop_buf[wgm] \in 0..Max
  BY <1>1, WgmType, RegTopType DEF W
<1>. QED
  BY <1>2 DEF Top

LEMMA TruncatedType ==
  ASSUME NEW n \in Int
  PROVE  Truncated(n) \in 0..Max /\ (n \in 0..Max => Truncated(n) = n)
<1>1. PICK d \in Nat : d = Max + 1
  BY SizeAssumption
<1>2. d > 0 /\ Max \in Nat
  BY <1>1, SizeAssumption
<1>3. (n % d) \in 0..(d - 1)
  BY <1>1, <1>2
<1>4. (n % d) \in 0..Max
  BY <1>1, <1>2, <1>3
<1>5. ASSUME n \in 0..Max PROVE n % d = n
  <2>1. n \in Nat /\ n < d
    BY <1>1, <1>2, <1>5
  <2>. QED
    BY <1>2, <2>1
<1>. QED
  BY <1>1, <1>4, <1>5 DEF Truncated

LEMMA BuffersType ==
  ASSUME TypeOK, UpdateBuffers, icr' \in 0..Max
  PROVE  ocr_buf' \in [Channels -> 0..Max] /\ rtop_buf' \in [Modes -> 0..Max]
<1>1. ocr \in [Channels -> 0..Max] /\ rtop_buf \in [Modes -> 0..Max]
  BY DEF TypeOK
<1>2. \A m \in Modes : RegTop(m, icr') \in 0..Max
  BY <1>1, RegTopType
<1>. QED
  BY <1>1, <1>2 DEF UpdateBuffers

LEMMA PinType ==
  ASSUME TypeOK, NEW c \in Channels
  PROVE  PinAfter(c) \in {0, 1}
<1>1. pin[c] \in {0, 1}
  BY DEF TypeOK
<1>2. AtMatch(c) \in {0, 1}
  BY <1>1 DEF AtMatch
<1>3. \A p \in {0, 1} : AtBottom(c, p) \in {0, 1}
  BY DEF AtBottom
<1>. QED
  BY <1>1, <1>2, <1>3 DEF PinAfter

LEMMA ClockedType ==
  ASSUME TypeOK, Clocked, icr' \in 0..Max
  PROVE  /\ tcnt' \in 0..Max /\ cnt_dir' \in {"UP", "DOWN"} /\ scnt' = 0
         /\ ocr_buf' \in [Channels -> 0..Max] /\ rtop_buf' \in [Modes -> 0..Max]
         /\ tov' \in BOOLEAN /\ pin' \in [Channels -> {0, 1}]
         /\ bottomed' \in BOOLEAN /\ topped' \in BOOLEAN
<1>1. tcnt \in 0..Max /\ cnt_dir \in {"UP", "DOWN"} /\ tov \in BOOLEAN
      /\ ocr_buf \in [Channels -> 0..Max] /\ rtop_buf \in [Modes -> 0..Max]
  BY DEF TypeOK
<1>2. tcnt' \in 0..Max
  <2>1. tcnt + 1 \in Int /\ tcnt - 1 \in Int /\ 0 \in 0..Max
    BY <1>1, SizeAssumption
  <2>2. Truncated(tcnt + 1) \in 0..Max /\ Truncated(tcnt - 1) \in 0..Max
    BY <2>1, TruncatedType
  <2>. QED
    BY <2>1, <2>2 DEF Clocked, Count
<1>3. cnt_dir' \in {"UP", "DOWN"}
  BY <1>1 DEF Clocked, Count, Direction
<1>4. ocr_buf' \in [Channels -> 0..Max] /\ rtop_buf' \in [Modes -> 0..Max]
  BY <1>1, BuffersType DEF Clocked
<1>5. pin' \in [Channels -> {0, 1}]
  BY PinType DEF Clocked
<1>6. tov' \in BOOLEAN /\ scnt' = 0
  BY DEF Clocked
<1>7. bottomed' \in BOOLEAN /\ topped' \in BOOLEAN
  BY DEF Clocked
<1>. QED
  BY <1>2, <1>3, <1>4, <1>5, <1>6, <1>7

LEMMA RunningType ==
  ASSUME TypeOK, NEW icp \in IcpValues, TickRunning(icp)
  PROVE  TypeOK'
<1>1. icr' \in 0..Max
  BY DEF TickRunning, TypeOK
<1>2. ocf' \in [Channels -> BOOLEAN] /\ pending' \in [Channels -> BOOLEAN]
  BY DEF TickRunning, TypeOK
<1>3. icf' \in BOOLEAN /\ icpval' \in {0, 1}
  BY IcpAssumption DEF TickRunning, TypeOK
<1>4. UNCHANGED <<ocr, cs, wgm, com, ddp>>
  BY DEF TickRunning, ctrl
<1>5. CASE Counts
  <2>1. Clocked
    BY <1>5 DEF TickRunning
  <2>2. scnt' \in Nat
    BY <2>1 DEF Clocked
  <2>. QED
    BY <1>1, <1>2, <1>3, <1>4, <2>1, <2>2, ClockedType DEF TypeOK
<1>6. CASE ~Counts
  <2>1. scnt' = scnt + 1 /\ UNCHANGED <<tcnt, tov, pin, cnt_dir, ocr_buf, rtop_buf, hist>>
    BY <1>6 DEF TickRunning
  <2>2. scnt' \in Nat
    BY <2>1 DEF TypeOK
  <2>. QED
    BY <1>1, <1>2, <1>3, <1>4, <2>1, <2>2 DEF TypeOK, hist
<1>. QED
  BY <1>5, <1>6

LEMMA TypeInductive ==
  ASSUME TypeOK, [Next]_vars
  PROVE  TypeOK'
<1>1. ASSUME NEW icp \in IcpValues, TickStopped(icp) PROVE TypeOK'
  <2>1. icr' = icr /\ UpdateBuffers /\ icpval' \in {0, 1} /\ scnt' = 0
        /\ pending' = [c \in Channels |-> FALSE]
    BY <1>1, IcpAssumption DEF TickStopped, regs, ResetPending
  <2>2. ocr_buf' \in [Channels -> 0..Max] /\ rtop_buf' \in [Modes -> 0..Max]
    BY <2>1, BuffersType DEF TypeOK
  <2>. QED
    BY <1>1, <2>1, <2>2 DEF TickStopped, TypeOK, regs, ctrl, flags, hist
<1>2. ASSUME NEW icp \in IcpValues, TickRunning(icp) PROVE TypeOK'
  BY <1>2, RunningType
<1>3. ASSUME NEW icp \in IcpValues, TickUndefined(icp) PROVE TypeOK'
  BY <1>3, IcpAssumption DEF TickUndefined, TypeOK, regs, ctrl, flags, hist
<1>4. ASSUME NEW v \in RegValues, NEW c \in Channels, WriteOcr(c, v) PROVE TypeOK'
  BY <1>4, SizeAssumption DEF WriteOcr, TypeOK, ctrl, flags, intern, hist
<1>5. ASSUME NEW v \in RegValues, WriteIcr(v) \/ WriteTcnt(v) PROVE TypeOK'
  BY <1>5, SizeAssumption DEF WriteIcr, WriteTcnt, Disturbed, TypeOK, ctrl, flags, intern, hist
<1>6. CASE SelectClock
  BY <1>6 DEF SelectClock, Disturbed, TypeOK, regs, flags, intern
<1>7. CASE SelectMode
  BY <1>7 DEF SelectMode, Disturbed, TypeOK, regs, flags, intern
<1>8. ASSUME NEW c \in Channels, SelectPin(c) PROVE TypeOK'
  BY <1>8 DEF SelectPin, Disturbed, TypeOK, regs, flags, intern
<1>9. CASE TakeFlag
  BY <1>9 DEF TakeFlag, TypeOK, regs, ctrl, intern, hist
<1>10. CASE UNCHANGED vars
  BY <1>10 DEF vars, TypeOK, regs, ctrl, flags, intern, hist
<1>. QED
  BY <1>1, <1>2, <1>3, <1>4, <1>5, <1>6, <1>7, <1>8, <1>9, <1>10 DEF Next, Tick, Firmware

LEMMA TypeInit == Init => TypeOK
<1>. SUFFICES ASSUME Init PROVE TypeOK
  OBVIOUS
<1>1. 0 \in 0..Max /\ 0 \in Nat
  BY SizeAssumption
<1>2. tcnt \in 0..Max /\ icr \in 0..Max /\ scnt \in Nat
  BY <1>1 DEF Init
<1>3. ocr \in [Channels -> 0..Max] /\ ocr_buf \in [Channels -> 0..Max]
      /\ rtop_buf \in [Modes -> 0..Max]
  BY <1>1 DEF Init
<1>4. ddp \in [Channels -> BOOLEAN] /\ ocf \in [Channels -> BOOLEAN]
      /\ pending \in [Channels -> BOOLEAN] /\ pin \in [Channels -> {0, 1}]
  BY DEF Init
<1>5. cs \in DOMAIN Presc \cup {0} /\ wgm \in Modes /\ com \in [Channels -> Coms]
  BY DEF Init
<1>6. tov \in BOOLEAN /\ icf \in BOOLEAN /\ cnt_dir \in {"UP", "DOWN"}
      /\ icpval \in {0, 1} /\ bottomed \in BOOLEAN /\ topped \in BOOLEAN
  BY DEF Init
<1>. QED
  BY <1>2, <1>3, <1>4, <1>5, <1>6 DEF TypeOK

\* The registers of a timer keep their width, whatever is written when.
THEOREM RegistersKeepWidth == Spec => []TypeOK
<1>1. TypeOK /\ [Next]_vars => TypeOK'
  BY TypeInductive
<1>. QED
  BY <1>1, TypeInit, PTL DEF Spec

-----------------------------------------------------------------------------
(* The counter and TOP. *)

\* A mode of one slope counts up, and a stopped timer has not been at BOTTOM
\* since it was last disturbed.
Directed == /\ ~DualSlope => cnt_dir = "UP"
            /\ ~Running => ~bottomed

TopInv == TypeOK /\ Directed /\ NeverPastTop

\* A buffered TOP stays where it is while the buffers and the mode do.
LEMMA TopKept ==
  ASSUME UNCHANGED <<wgm, rtop_buf>>, W.updocr_at # "ATIMMEDIATE"
  PROVE  Top' = Top
<1>1. W' = W
  BY DEF W
<1>. QED
  BY <1>1 DEF Top

LEMMA DirectionKept ==
  ASSUME Clocked, UNCHANGED wgm, ~DualSlope => cnt_dir = "UP"
  PROVE  (~DualSlope => cnt_dir = "UP")'
  BY DEF Clocked, Count, Direction, DualSlope, W

LEMMA CountBelowTop ==
  ASSUME TopInv, Clocked, UNCHANGED wgm, TypeOK'
  PROVE  NeverPastTop'
<1>. SUFFICES ASSUME bottomed', W.updocr_at = "ATBOTTOM", Top' > 0
              PROVE  tcnt' <= Top'
  BY DEF NeverPastTop, W
<1>1. Top \in 0..Max /\ Top' \in 0..Max /\ Max \in Nat /\ tcnt \in 0..Max
  <2>1. TypeOK
    BY DEF TopInv
  <2>2. Top \in 0..Max
    BY <2>1, TopType
  <2>3. TypeOK' => (Top \in 0..Max)'
    BY TopType, PTL
  <2>. QED
    BY <2>1, <2>2, <2>3, SizeAssumption DEF TypeOK
<1>2. CASE ReachesBottom
  <2>1. CASE ~DualSlope
    <3>1. tcnt' = 0
      BY <1>2, <2>1 DEF ReachesBottom, Clocked, Count
    <3>. QED
      BY <1>1, <3>1
  <2>2. CASE DualSlope
    <3>1. cnt_dir = "DOWN" /\ tcnt = 1
      BY <1>2, <2>2 DEF ReachesBottom
    <3>2. cnt_dir' = "DOWN"
      BY <3>1 DEF Clocked, Count, Direction
    <3>3. tcnt' = Truncated(0)
      BY <2>2, <3>1, <3>2 DEF Clocked, Count
    <3>4. tcnt' = 0
      BY <3>3, TruncatedType, SizeAssumption
    <3>. QED
      BY <1>1, <3>4
  <2>. QED
    BY <2>1, <2>2
<1>3. CASE ~ReachesBottom
  <2>1. bottomed
    BY <1>3 DEF Clocked
  <2>2. UNCHANGED rtop_buf
    BY <1>3 DEF Clocked, UpdatesAtTop, UpdatesAtBottom
  <2>3. Top' = Top
    BY <2>2, TopKept
  <2>4. tcnt <= Top
    BY <1>1, <2>1, <2>3 DEF TopInv, NeverPastTop
  <2>5. CASE ~DualSlope
    <3>1. cnt_dir' = "UP" /\ tcnt # Top
      BY <1>3, <2>5 DEF ReachesBottom, TopInv, Directed, Clocked, Count, Direction
    <3>2. tcnt' = Truncated(tcnt + 1)
      BY <2>5, <3>1 DEF Clocked, Count
    <3>3. tcnt + 1 \in 0..Max /\ tcnt + 1 <= Top
      BY <1>1, <2>4, <3>1
    <3>4. tcnt' = tcnt + 1
      BY <3>2, <3>3, TruncatedType
    <3>. QED
      BY <2>3, <3>3, <3>4
  <2>6. CASE DualSlope
    <3>1. tcnt' = IF cnt_dir' = "UP" THEN Truncated(tcnt + 1) ELSE Truncated(tcnt - 1)
      BY <2>6 DEF Clocked, Count
    <3>2. CASE cnt_dir' = "UP"
      <4>1. tcnt # Top
        BY <2>6, <3>2 DEF Clocked, Count, Direction
      <4>2. tcnt + 1 \in 0..Max /\ tcnt + 1 <= Top
        BY <1>1, <2>4, <4>1
      <4>3. tcnt' = tcnt + 1
        BY <3>1, <3>2, <4>2, TruncatedType
      <4>. QED
        BY <2>3, <4>2, <4>3
    <3>3. CASE cnt_dir' # "UP"
      <4>1. tcnt = Top \/ tcnt # 0
        BY <2>6, <3>3 DEF Clocked, Count, Direction
      <4>2. tcnt > 0
        BY <1>1, <2>3, <4>1
      <4>3. tcnt - 1 \in 0..Max /\ tcnt - 1 <= Top
        BY <1>1, <2>4, <4>2
      <4>4. tcnt' = tcnt - 1
        BY <3>1, <3>3, <4>3, TruncatedType
      <4>. QED
        BY <2>3, <4>3, <4>4
    <3>. QED
      BY <3>2, <3>3
  <2>. QED
    BY <2>5, <2>6
<1>. QED
  BY <1>2, <1>3

LEMMA TopInductive ==
  ASSUME KeepsDirection, TopInv, [Next]_vars
  PROVE  TopInv'
<1>1. TypeOK /\ TypeOK' /\ Directed /\ NeverPastTop
  BY TypeInductive DEF TopInv
<1>2. ASSUME UNCHANGED <<tcnt, wgm, rtop_buf, bottomed>> PROVE NeverPastTop'
  <2>1. W.updocr_at = "ATBOTTOM" => Top' = Top
    BY <1>2, TopKept
  <2>. QED
    BY <1>1, <1>2, <2>1 DEF NeverPastTop, W
<1>3. ASSUME UNCHANGED <<cs, wgm, cnt_dir, bottomed>> PROVE Directed'
  BY <1>1, <1>3 DEF Directed, DualSlope, Running, W
<1>4. ASSUME ~bottomed' PROVE NeverPastTop'
  BY <1>4 DEF NeverPastTop
<1>5. ASSUME ~bottomed', UNCHANGED <<wgm, cnt_dir>> PROVE Directed'
  BY <1>1, <1>5 DEF Directed, DualSlope, W
<1>6. ASSUME NEW icp \in IcpValues, TickStopped(icp) PROVE Directed' /\ NeverPastTop'
  BY <1>1, <1>4, <1>5, <1>6 DEF TickStopped, Directed, ctrl, hist
<1>7. ASSUME NEW icp \in IcpValues, TickRunning(icp) PROVE Directed' /\ NeverPastTop'
  <2>1. UNCHANGED <<cs, wgm>> /\ Running
    BY <1>7 DEF TickRunning, ctrl
  <2>2. CASE Counts
    <3>1. Clocked
      BY <1>7, <2>2 DEF TickRunning
    <3>2. NeverPastTop'
      BY <1>1, <2>1, <3>1, CountBelowTop DEF TopInv
    <3>3. (~DualSlope => cnt_dir = "UP")'
      BY <1>1, <2>1, <3>1, DirectionKept DEF Directed
    <3>. QED
      BY <2>1, <3>2, <3>3 DEF Directed, Running
  <2>3. CASE ~Counts
    <3>1. UNCHANGED <<tcnt, cnt_dir, rtop_buf, bottomed>>
      BY <1>7, <2>3 DEF TickRunning, hist
    <3>. QED
      BY <1>2, <1>3, <2>1, <3>1
  <2>. QED
    BY <2>2, <2>3
<1>8. ASSUME NEW icp \in IcpValues, TickUndefined(icp) PROVE Directed' /\ NeverPastTop'
  BY <1>2, <1>3, <1>8 DEF TickUndefined, regs, ctrl, hist
<1>9. ASSUME NEW v \in RegValues, NEW c \in Channels, WriteOcr(c, v)
      PROVE  Directed' /\ NeverPastTop'
  BY <1>2, <1>3, <1>9 DEF WriteOcr, ctrl, intern, hist
<1>10. ASSUME NEW v \in RegValues, WriteIcr(v) PROVE Directed' /\ NeverPastTop'
  BY <1>2, <1>3, <1>10 DEF WriteIcr, ctrl, intern, hist
<1>11. ASSUME NEW v \in RegValues, WriteTcnt(v) PROVE Directed' /\ NeverPastTop'
  BY <1>4, <1>5, <1>11 DEF WriteTcnt, Disturbed, ctrl, intern
<1>12. ASSUME SelectClock PROVE Directed' /\ NeverPastTop'
  BY <1>4, <1>5, <1>12 DEF SelectClock, Disturbed, intern
<1>13. ASSUME SelectMode PROVE Directed' /\ NeverPastTop'
  <2>1. <<wgm, wgm'>> \in ModeChanges /\ wgm \in Modes /\ wgm' \in Modes
    BY <1>1, <1>13 DEF SelectMode, TypeOK
  <2>2. DualSlope => DualSlope'
    BY <2>1 DEF KeepsDirection, Dual, DualSlope, W
  <2>3. UNCHANGED cnt_dir /\ ~bottomed'
    BY <1>13 DEF SelectMode, Disturbed, intern
  <2>. QED
    BY <1>1, <1>4, <2>2, <2>3 DEF Directed
<1>14. ASSUME NEW c \in Channels, SelectPin(c) PROVE Directed' /\ NeverPastTop'
  BY <1>4, <1>5, <1>14 DEF SelectPin, Disturbed, intern
<1>15. ASSUME TakeFlag PROVE Directed' /\ NeverPastTop'
  BY <1>2, <1>3, <1>15 DEF TakeFlag, regs, ctrl, intern, hist
<1>16. ASSUME UNCHANGED vars PROVE Directed' /\ NeverPastTop'
  BY <1>2, <1>3, <1>16 DEF vars, regs, ctrl, intern, hist
<1>. QED
  BY <1>1, <1>6, <1>7, <1>8, <1>9, <1>10, <1>11, <1>12, <1>13, <1>14, <1>15, <1>16
  DEF Next, Tick, Firmware, TopInv

\* A timer whose modes of two slopes are left for such modes only never counts
\* past TOP in a mode with buffered registers, whenever the firmware writes them.
THEOREM CounterBelowTop ==
  ASSUME KeepsDirection
  PROVE  Spec => []NeverPastTop
<1>1. Init => TopInv
  <2>1. Init => Directed /\ NeverPastTop
    BY DEF Init, Directed, NeverPastTop
  <2>. QED
    BY <2>1, TypeInit DEF TopInv
<1>2. TopInv /\ [Next]_vars => TopInv'
  BY TopInductive
<1>3. TopInv => NeverPastTop
  BY DEF TopInv
<1>. QED
  BY <1>1, <1>2, <1>3, PTL DEF Spec

-----------------------------------------------------------------------------
(* The flag of a match. *)

\* Every clock selection of the firmware divides by the same P.
OnePrescaler(P) == \A s \in DOMAIN Presc : Presc[s] = P

\* A match that waits for its flag is younger than the cycle that raises it.
Waits(P) == \A c \in Channels : pending[c] => scnt <= P - 2
MatchInv(P) == TypeOK /\ Waits(P)

LEMMA ClockSelected ==
  ASSUME NEW P, OnePrescaler(P), TypeOK, Running
  PROVE  Presc[cs] = P
  BY DEF OnePrescaler, TypeOK, Running

LEMMA WaitsInductive ==
  ASSUME NEW P \in Nat, P >= 2, OnePrescaler(P), MatchInv(P), [Next]_vars
  PROVE  MatchInv(P)'
<1>1. TypeOK /\ TypeOK' /\ Waits(P)
  BY TypeInductive DEF MatchInv
<1>2. ASSUME UNCHANGED <<scnt, pending>> PROVE Waits(P)'
  BY <1>1, <1>2 DEF Waits
<1>3. ASSUME NEW icp \in IcpValues, TickStopped(icp) PROVE Waits(P)'
  BY <1>3 DEF TickStopped, ResetPending, Waits
<1>4. ASSUME NEW icp \in IcpValues, TickRunning(icp) PROVE Waits(P)'
  <2>1. Presc[cs] = P
    BY <1>1, <1>4, ClockSelected DEF TickRunning
  <2>2. scnt \in Nat
    BY <1>1 DEF TypeOK
  <2>3. CASE Counts
    <3>1. scnt' = 0
      BY <1>4, <2>3 DEF TickRunning, Clocked
    <3>. QED
      BY <3>1 DEF Waits
  <2>4. CASE ~Counts
    <3>1. scnt' = scnt + 1
      BY <1>4, <2>4 DEF TickRunning
    <3>2. ASSUME NEW c \in Channels, pending'[c] PROVE scnt' <= P - 2
      <4>1. pending[c] /\ ~RaisesPending
        BY <1>4, <2>4, <3>2 DEF TickRunning
      <4>2. scnt <= P - 2
        BY <1>1, <4>1 DEF Waits
      <4>3. scnt # P - 2
        BY <2>1, <4>1 DEF RaisesPending
      <4>. QED
        BY <2>2, <3>1, <4>2, <4>3
    <3>. QED
      BY <3>2 DEF Waits
  <2>. QED
    BY <2>3, <2>4
<1>5. ASSUME NEW icp \in IcpValues, TickUndefined(icp) PROVE Waits(P)'
  BY <1>2, <1>5 DEF TickUndefined
<1>6. ASSUME Firmware PROVE Waits(P)'
  BY <1>2, <1>6 DEF Firmware, WriteIcr, WriteTcnt, WriteOcr, SelectClock, SelectMode,
                    SelectPin, TakeFlag, intern
<1>7. ASSUME UNCHANGED vars PROVE Waits(P)'
  BY <1>2, <1>7 DEF vars, intern
<1>. QED
  BY <1>1, <1>3, <1>4, <1>5, <1>6, <1>7 DEF Next, Tick, MatchInv

\* With one prescaler, greater than one, the flag of a match is raised before the
\* timer counts again, whatever the firmware writes and whenever it stops the clock.
THEOREM FlagsInTime ==
  ASSUME NEW P \in Nat, P >= 2, OnePrescaler(P)
  PROVE  Spec => MatchFlaggedInTime
<1>1. Init => MatchInv(P)
  <2>1. Init => Waits(P)
    BY DEF Init, Waits
  <2>. QED
    BY <2>1, TypeInit DEF MatchInv
<1>2. MatchInv(P) /\ [Next]_vars => MatchInv(P)'
  BY WaitsInductive
<1>3. ASSUME MatchInv(P), NEW c \in Channels, pending[c] PROVE ~Counts
  <2>1. scnt \in Nat /\ scnt <= P - 2
    BY <1>3 DEF MatchInv, Waits, TypeOK
  <2>2. CASE Running
    <3>1. Presc[cs] = P
      BY <1>3, <2>2, ClockSelected DEF MatchInv
    <3>. QED
      BY <2>1, <3>1 DEF Counts
  <2>. QED
    BY <2>2 DEF Counts
<1>4. MatchInv(P) /\ [Next]_vars
        => [\A c \in Channels : pending[c] /\ Counts /\ Tick => ocf'[c]]_vars
  BY <1>3
<1>. QED
  BY <1>1, <1>2, <1>4, PTL DEF Spec, MatchFlaggedInTime
-----------------------------------------------------------------------------
(* The duty cycle of fast PWM. *)

\* Every table of modes of the devices: fast PWM updates its buffers at BOTTOM,
\* and no mode of two slopes works without buffers.
PwmTables ==
  \A m \in Modes : /\ WgmOp[m].kind = "FASTPWM" => WgmOp[m].updocr_at = "ATBOTTOM"
                   /\ Dual(m) => WgmOp[m].updocr_at # "ATIMMEDIATE"

\* What the duty cycles read.
pwm == <<tcnt, wgm, com, ddp, pin, cnt_dir, ocr_buf, rtop_buf, hist>>

\* For the duty cycles a step counts, changes nothing, or leaves a timer that has
\* not been at BOTTOM since it was disturbed.
LEMMA StepsOfPwm ==
  ASSUME ~Running => ~bottomed, [Next]_vars
  PROVE  \/ Clocked /\ UNCHANGED ctrl
         \/ UNCHANGED pwm
         \/ ~bottomed' /\ (~topped' \/ UNCHANGED hist)
<1>. DEFINE Goal == \/ Clocked /\ UNCHANGED ctrl
                    \/ UNCHANGED pwm
                    \/ ~bottomed' /\ (~topped' \/ UNCHANGED hist)
<1>1. ASSUME NEW icp \in IcpValues, TickStopped(icp) PROVE Goal
  BY <1>1 DEF TickStopped, hist
<1>2. ASSUME NEW icp \in IcpValues, TickRunning(icp) PROVE Goal
  BY <1>2 DEF TickRunning, ctrl, pwm
<1>3. ASSUME NEW icp \in IcpValues, TickUndefined(icp) PROVE Goal
  BY <1>3 DEF TickUndefined, regs, ctrl, pwm
<1>4. ASSUME NEW v \in RegValues, NEW c \in Channels, WriteOcr(c, v) PROVE Goal
  BY <1>4 DEF WriteOcr, ctrl, intern, pwm
<1>5. ASSUME NEW v \in RegValues, WriteIcr(v) \/ WriteTcnt(v) PROVE Goal
  BY <1>5 DEF WriteIcr, WriteTcnt, Disturbed, ctrl, intern, pwm
<1>6. ASSUME SelectClock \/ SelectMode \/ TakeFlag PROVE Goal
  BY <1>6 DEF SelectClock, SelectMode, TakeFlag, Disturbed, regs, ctrl, intern, pwm
<1>7. ASSUME NEW c \in Channels, SelectPin(c) PROVE Goal
  BY <1>7 DEF SelectPin, Disturbed
<1>8. ASSUME UNCHANGED vars PROVE Goal
  BY <1>8 DEF vars, regs, ctrl, intern, pwm
<1>. QED
  BY <1>1, <1>2, <1>3, <1>4, <1>5, <1>6, <1>7, <1>8 DEF Next, Tick, Firmware

\* In a mode of one slope the counter is never above TOP, not even when TOP is 0.
BelowTop == bottomed /\ ~DualSlope /\ W.updocr_at = "ATBOTTOM" => tcnt <= Top

FastInv == TopInv /\ BelowTop /\ FastPwmDuty

\* A count in a mode of one slope with buffers: at TOP the counter returns to 0 and
\* the buffers may change, below it both stay as they are but for one step up.
LEMMA SingleSlopeCount ==
  ASSUME TopInv, BelowTop, Clocked, UNCHANGED ctrl,
         bottomed', ~DualSlope, W.updocr_at = "ATBOTTOM"
  PROVE  \/ tcnt = Top /\ tcnt' = 0 /\ ReachesBottom
         \/ /\ tcnt < Top /\ tcnt' = tcnt + 1 /\ ~ReachesBottom /\ bottomed
            /\ UNCHANGED <<ocr_buf, rtop_buf>>
<1>1. TypeOK /\ cnt_dir = "UP"
  BY DEF TopInv, Directed
<1>2. tcnt \in 0..Max /\ Top \in 0..Max /\ Max \in Nat
  BY <1>1, TopType, SizeAssumption DEF TypeOK
<1>3. CASE tcnt = Top
  BY <1>3 DEF ReachesBottom, Clocked, Count
<1>4. CASE tcnt # Top
  <2>1. ~ReachesBottom
    BY <1>4 DEF ReachesBottom
  <2>2. bottomed /\ UNCHANGED <<ocr_buf, rtop_buf>>
    BY <2>1 DEF Clocked, UpdatesAtTop, UpdatesAtBottom
  <2>3. tcnt < Top
    BY <1>2, <1>4, <2>2 DEF BelowTop
  <2>4. tcnt + 1 \in 0..Max
    BY <1>2, <2>3
  <2>5. tcnt' = Truncated(tcnt + 1)
    BY <1>1, <1>4 DEF Clocked, Count, Direction
  <2>6. tcnt' = tcnt + 1
    BY <2>4, <2>5, TruncatedType
  <2>. QED
    BY <2>1, <2>2, <2>3, <2>6
<1>. QED
  BY <1>3, <1>4

LEMMA FastCount ==
  ASSUME PwmTables, FastInv, TypeOK', Clocked, UNCHANGED ctrl
  PROVE  BelowTop' /\ FastPwmDuty'
<1>1. TopInv /\ BelowTop /\ FastPwmDuty /\ TypeOK
  BY DEF FastInv, TopInv
<1>2. tcnt \in 0..Max /\ Top \in 0..Max /\ Max \in Nat /\ wgm \in Modes
      /\ Top' \in 0..Max
  <2>1. TypeOK' => (Top \in 0..Max)'
    BY TopType, PTL
  <2>. QED
    BY <1>1, <2>1, TopType, SizeAssumption DEF TypeOK
<1>3. UNCHANGED <<wgm, com, ddp>> /\ W' = W /\ DualSlope' = DualSlope
  BY DEF ctrl, W, DualSlope
<1>4. BelowTop'
  <2>. SUFFICES ASSUME bottomed', ~DualSlope, W.updocr_at = "ATBOTTOM"
                PROVE  tcnt' <= Top'
    BY <1>3 DEF BelowTop
  <2>1. CASE tcnt' = 0
    BY <1>2, <2>1
  <2>2. CASE tcnt < Top /\ tcnt' = tcnt + 1 /\ UNCHANGED rtop_buf
    <3>1. Top' = Top
      BY <1>3, <2>2, TopKept
    <3>. QED
      BY <1>2, <2>2, <3>1
  <2>. QED
    BY <1>1, <2>1, <2>2, SingleSlopeCount
<1>5. ASSUME NEW c \in Channels, bottomed', ddp[c], W.kind = "FASTPWM",
             Op(c) = "CLONCM_STATBOT"
      PROVE  pin'[c] = IF tcnt' < ocr_buf'[c] \/ ocr_buf'[c] = 0 THEN 1 ELSE 0
  <2>1. W.updocr_at = "ATBOTTOM" /\ ~DualSlope
    BY <1>2, <1>5 DEF PwmTables, W, DualSlope
  <2>2. cnt_dir = "UP" /\ ~UpdatesAtTop
    BY <1>1, <2>1 DEF TopInv, Directed, UpdatesAtTop
  <2>3. ocr_buf[c] \in 0..Max /\ ocr_buf'[c] \in 0..Max /\ pin[c] \in {0, 1}
    BY <1>1 DEF TypeOK
  <2>4. Matches(c) <=> tcnt = ocr_buf[c] - 1
    BY <2>1, <2>2 DEF Matches, Compared
  <2>5. pin'[c] = PinAfter(c)
    BY DEF Clocked
  <2>6. CASE tcnt = Top /\ tcnt' = 0 /\ ReachesBottom
    <3>1. pin'[c] = 1
      BY <1>5, <2>2, <2>5, <2>6 DEF PinAfter, AtBottom
    <3>. QED
      BY <2>3, <2>6, <3>1
  <2>7. CASE tcnt < Top /\ tcnt' = tcnt + 1 /\ ~ReachesBottom /\ bottomed
             /\ UNCHANGED <<ocr_buf, rtop_buf>>
    <3>1. pin[c] = IF tcnt < ocr_buf[c] \/ ocr_buf[c] = 0 THEN 1 ELSE 0
      BY <1>1, <1>5, <2>7 DEF FastPwmDuty
    <3>2. CASE tcnt = ocr_buf[c] - 1
      <4>1. pin'[c] = 0
        BY <1>5, <2>2, <2>4, <2>5, <2>7, <3>2 DEF PinAfter, AtMatch
      <4>2. ~(tcnt' < ocr_buf'[c]) /\ ocr_buf'[c] # 0
        BY <1>2, <2>3, <2>7, <3>2
      <4>. QED
        BY <4>1, <4>2
    <3>3. CASE tcnt # ocr_buf[c] - 1
      <4>1. pin'[c] = pin[c]
        BY <1>5, <2>4, <2>5, <2>7, <3>3 DEF PinAfter
      <4>2. tcnt' < ocr_buf'[c] <=> tcnt < ocr_buf[c]
        BY <1>2, <2>3, <2>7, <3>3
      <4>3. ocr_buf'[c] = ocr_buf[c]
        BY <2>7
      <4>. QED
        BY <3>1, <4>1, <4>2, <4>3
    <3>. QED
      BY <3>2, <3>3
  <2>. QED
    BY <1>1, <1>5, <2>1, <2>6, <2>7, SingleSlopeCount
<1>6. FastPwmDuty'
  <2>1. \A c \in Channels : Op(c)' = Op(c)
    BY <1>3 DEF Op
  <2>. QED
    BY <1>3, <1>5, <2>1 DEF FastPwmDuty
<1>. QED
  BY <1>4, <1>6

LEMMA FastInductive ==
  ASSUME KeepsDirection, PwmTables, FastInv, [Next]_vars
  PROVE  FastInv'
<1>1. TopInv /\ TopInv' /\ BelowTop /\ FastPwmDuty
  BY TopInductive DEF FastInv
<1>2. TypeOK /\ TypeOK' /\ (~Running => ~bottomed)
  BY <1>1 DEF TopInv, Directed
<1>3. CASE Clocked /\ UNCHANGED ctrl
  BY <1>1, <1>2, <1>3, FastCount DEF FastInv
<1>4. CASE UNCHANGED pwm
  <2>1. UNCHANGED <<tcnt, wgm, com, ddp, pin, ocr_buf, rtop_buf, bottomed>>
    BY <1>4 DEF pwm, hist
  <2>2. W' = W /\ (DualSlope' <=> DualSlope) /\ \A c \in Channels : Op(c)' = Op(c)
    BY <2>1 DEF W, DualSlope, Op
  <2>3. W.updocr_at = "ATBOTTOM" => Top' = Top
    BY <2>1, TopKept
  <2>4. BelowTop'
    BY <1>1, <2>1, <2>2, <2>3 DEF BelowTop
  <2>5. FastPwmDuty'
    BY <1>1, <2>1, <2>2 DEF FastPwmDuty
  <2>. QED
    BY <1>1, <2>4, <2>5 DEF FastInv
<1>5. CASE ~bottomed'
  BY <1>1, <1>5 DEF FastInv, BelowTop, FastPwmDuty
<1>. QED
  BY <1>2, <1>3, <1>4, <1>5, StepsOfPwm

\* With the tables of the devices, a timer whose modes of two slopes are left for
\* such modes only keeps the pin of a fast PWM channel high for exactly the first
\* ocr_buf counts of every period, whenever OCR and TOP are rewritten.
THEOREM FastPwmExact ==
  ASSUME KeepsDirection, PwmTables
  PROVE  Spec => []FastPwmDuty
<1>1. Init => FastInv
  <2>1. Init => Directed /\ NeverPastTop /\ BelowTop /\ FastPwmDuty
    BY DEF Init, Directed, NeverPastTop, BelowTop, FastPwmDuty
  <2>. QED
    BY <2>1, TypeInit DEF FastInv, TopInv
<1>2. FastInv /\ [Next]_vars => FastInv'
  BY FastInductive
<1>3. FastInv => FastPwmDuty
  BY DEF FastInv
<1>. QED
  BY <1>1, <1>2, <1>3, PTL DEF Spec
-----------------------------------------------------------------------------
(* The duty cycle of phase correct PWM. *)

\* The match is far enough from BOTTOM and from TOP for trigger_oc_pin to act on it
\* both on the way up and on the way down.
AwayFromEnds(c) == 2 < ocr_buf[c] /\ ocr_buf[c] < Top - 2

\* The level of the pin at a place of the swing.
Duty(c) == IF \/ tcnt < ocr_buf[c]
              \/ tcnt = ocr_buf[c] /\ cnt_dir = "DOWN" THEN 1 ELSE 0

\* DualSlopeDuty without the matches that the code skips.
DutyAwayFromEnds ==
  \A c \in Channels :
    topped /\ ddp[c] /\ DualSlope /\ Op(c) = "CLONUP_STONDOWN" /\ AwayFromEnds(c)
      => pin[c] = Duty(c)

\* Where the counter can be between BOTTOM and the first TOP after it, and later.
Rising   == \/ tcnt = 0 /\ cnt_dir = "DOWN"
            \/ 0 < tcnt /\ tcnt < Top /\ cnt_dir = "UP"
Swinging == \/ tcnt < Top /\ cnt_dir = "DOWN"
            \/ 0 < tcnt /\ tcnt <= Top /\ cnt_dir = "UP"

InPhase    == DualSlope /\ bottomed /\ 1 < Top => IF topped THEN Swinging ELSE Rising
PinInPhase == \A c \in Channels :
                /\ ddp[c] /\ DualSlope /\ Op(c) = "CLONUP_STONDOWN" /\ AwayFromEnds(c)
                /\ bottomed /\ (topped \/ tcnt >= ocr_buf[c])
                => pin[c] = Duty(c)

DutyInv == /\ TypeOK
           /\ ~Running => ~bottomed
           /\ topped => bottomed
           /\ InPhase /\ PinInPhase

\* A count between BOTTOM and BOTTOM of a swing: where the counter goes, and that
\* neither the buffers nor TOP change.
LEMMA SwingCount ==
  ASSUME DutyInv, Clocked, UNCHANGED ctrl, DualSlope, W.updocr_at # "ATIMMEDIATE",
         bottomed, UNCHANGED <<ocr_buf, rtop_buf>>, 1 < Top
  PROVE  /\ Top' = Top /\ bottomed' /\ (topped' <=> topped \/ ReachesTop)
         /\ \/ cnt_dir = "UP" /\ tcnt = Top /\ tcnt' = Top - 1 /\ cnt_dir' = "DOWN" /\ topped
            \/ cnt_dir = "UP" /\ 0 < tcnt /\ tcnt < Top /\ tcnt' = tcnt + 1 /\ cnt_dir' = "UP"
            \/ cnt_dir = "DOWN" /\ tcnt = 0 /\ tcnt' = 1 /\ cnt_dir' = "UP"
            \/ cnt_dir = "DOWN" /\ 0 < tcnt /\ tcnt < Top /\ tcnt' = tcnt - 1
               /\ cnt_dir' = "DOWN" /\ topped
<1>1. tcnt \in 0..Max /\ Top \in 0..Max /\ Max \in Nat
  BY TopType, SizeAssumption DEF DutyInv, TypeOK
<1>2. Top' = Top
  BY TopKept DEF ctrl
<1>3. bottomed' /\ (topped' <=> topped \/ ReachesTop)
  BY DEF Clocked
<1>4. IF topped THEN Swinging ELSE Rising
  BY DEF DutyInv, InPhase
<1>5. /\ cnt_dir' = IF tcnt = Top THEN "DOWN" ELSE IF tcnt = 0 THEN "UP" ELSE cnt_dir
      /\ tcnt' = IF cnt_dir' = "UP" THEN Truncated(tcnt + 1) ELSE Truncated(tcnt - 1)
  BY DEF Clocked, Count, Direction
<1>6. ASSUME tcnt < Top PROVE Truncated(tcnt + 1) = tcnt + 1
  <2>1. tcnt + 1 \in 0..Max
    BY <1>1, <1>6
  <2>. QED
    BY <2>1, TruncatedType
<1>7. ASSUME 0 < tcnt PROVE Truncated(tcnt - 1) = tcnt - 1
  <2>1. tcnt - 1 \in 0..Max
    BY <1>1, <1>7
  <2>. QED
    BY <2>1, TruncatedType
<1>8. CASE cnt_dir = "UP" /\ tcnt = Top
  <2>1. topped
    BY <1>1, <1>4, <1>8 DEF Rising
  <2>. QED
    BY <1>1, <1>2, <1>3, <1>5, <1>7, <1>8, <2>1
<1>9. CASE cnt_dir = "UP" /\ 0 < tcnt /\ tcnt < Top
  BY <1>1, <1>2, <1>3, <1>5, <1>6, <1>9
<1>10. CASE cnt_dir = "DOWN" /\ tcnt = 0
  <2>1. tcnt' = Truncated(tcnt + 1) /\ cnt_dir' = "UP"
    BY <1>1, <1>5, <1>10
  <2>. QED
    BY <1>1, <1>2, <1>3, <1>6, <1>10, <2>1
<1>11. CASE cnt_dir = "DOWN" /\ 0 < tcnt /\ tcnt < Top
  <2>1. topped
    BY <1>1, <1>4, <1>11 DEF Rising
  <2>. QED
    BY <1>1, <1>2, <1>3, <1>5, <1>7, <1>11, <2>1
<1>. QED
  BY <1>1, <1>4, <1>8, <1>9, <1>10, <1>11 DEF Rising, Swinging

\* After a count at BOTTOM the counter is 0 and on its way down, as the code has it.
LEMMA BottomCount ==
  ASSUME TypeOK, Clocked, DualSlope, ReachesBottom
  PROVE  tcnt' = 0 /\ cnt_dir' = "DOWN" /\ bottomed'
<1>1. cnt_dir = "DOWN" /\ tcnt = 1
  BY DEF ReachesBottom
<1>2. cnt_dir' = "DOWN"
  BY <1>1 DEF Clocked, Count, Direction
<1>3. tcnt' = Truncated(0)
  BY <1>1, <1>2 DEF Clocked, Count
<1>4. tcnt' = 0
  BY <1>3, TruncatedType, SizeAssumption
<1>. QED
  BY <1>2, <1>4 DEF Clocked

LEMMA PhaseCount ==
  ASSUME PwmTables, DutyInv, TypeOK', Clocked, UNCHANGED ctrl
  PROVE  (topped => bottomed)' /\ InPhase'
<1>. DEFINE kept == <<ocr_buf, rtop_buf>>' = <<ocr_buf, rtop_buf>>
<1>1. tcnt \in 0..Max /\ Top \in 0..Max /\ Max \in Nat /\ wgm \in Modes
      /\ Top' \in 0..Max
  <2>1. TypeOK' => (Top \in 0..Max)'
    BY TopType, PTL
  <2>. QED
    BY <2>1, TopType, SizeAssumption DEF DutyInv, TypeOK
<1>2. W' = W /\ (DualSlope' <=> DualSlope) /\ wgm' = wgm
  BY DEF ctrl, W, DualSlope
<1>3. bottomed' <=> ReachesBottom \/ (bottomed /\ (DualSlope => kept))
  BY DEF Clocked
<1>4. topped' <=> kept /\ (topped \/ (bottomed /\ ReachesTop))
  BY DEF Clocked
<1>5. (topped => bottomed)'
  BY <1>3, <1>4 DEF DutyInv
<1>6. ASSUME DualSlope, bottomed', 1 < Top' PROVE IF topped' THEN Swinging' ELSE Rising'
  <2>1. W.updocr_at # "ATIMMEDIATE"
    BY <1>1, <1>6 DEF PwmTables, Dual, DualSlope, W
  <2>2. CASE ReachesBottom
    <3>1. tcnt' = 0 /\ cnt_dir' = "DOWN"
      BY <1>6, <2>2, BottomCount DEF DutyInv
    <3>. QED
      BY <1>1, <1>6, <3>1 DEF Rising, Swinging
  <2>3. CASE ~ReachesBottom
    <3>1. bottomed /\ kept
      BY <1>3, <1>6, <2>3
    <3>2. Top' = Top
      BY <1>2, <2>1, <3>1, TopKept
    <3>3. 1 < Top
      BY <1>6, <3>2
    <3>4. CASE cnt_dir = "UP" /\ tcnt = Top /\ tcnt' = Top - 1 /\ cnt_dir' = "DOWN" /\ topped
      BY <1>1, <1>4, <3>1, <3>2, <3>4 DEF Swinging
    <3>5. CASE cnt_dir = "UP" /\ 0 < tcnt /\ tcnt < Top /\ tcnt' = tcnt + 1 /\ cnt_dir' = "UP"
      <4>1. CASE tcnt = Top - 1
        <5>1. topped'
          BY <1>4, <3>1, <3>5, <4>1 DEF ReachesTop
        <5>. QED
          BY <1>1, <3>2, <3>5, <4>1, <5>1 DEF Swinging
      <4>2. CASE tcnt # Top - 1
        <5>1. 0 < tcnt' /\ tcnt' < Top' /\ tcnt' <= Top' /\ cnt_dir' = "UP"
          BY <1>1, <3>2, <3>5, <4>2
        <5>2. Swinging' /\ Rising'
          BY <5>1 DEF Swinging, Rising
        <5>. QED
          BY <5>2
      <4>. QED
        BY <4>1, <4>2
    <3>6. CASE cnt_dir = "DOWN" /\ tcnt = 0 /\ tcnt' = 1 /\ cnt_dir' = "UP"
      BY <1>1, <3>2, <3>3, <3>6 DEF Swinging, Rising
    <3>7. CASE cnt_dir = "DOWN" /\ 0 < tcnt /\ tcnt < Top /\ tcnt' = tcnt - 1
               /\ cnt_dir' = "DOWN" /\ topped
      BY <1>1, <1>4, <3>1, <3>2, <3>7 DEF Swinging
    <3>. QED
      BY <1>6, <2>1, <3>1, <3>3, <3>4, <3>5, <3>6, <3>7, SwingCount
  <2>. QED
    BY <2>2, <2>3
<1>. QED
  BY <1>2, <1>5, <1>6 DEF InPhase

\* The pin follows the swing: cleared in the count to the match on the way up, set in
\* the count to the match on the way down, and left alone in every other count.
LEMMA PinCount ==
  ASSUME PwmTables, DutyInv, TypeOK', Clocked, UNCHANGED ctrl
  PROVE  PinInPhase'
<1>. DEFINE kept == <<ocr_buf, rtop_buf>>' = <<ocr_buf, rtop_buf>>
<1>1. tcnt \in 0..Max /\ Top \in 0..Max /\ Max \in Nat /\ wgm \in Modes
  BY TopType, SizeAssumption DEF DutyInv, TypeOK
<1>2. W' = W /\ (DualSlope' <=> DualSlope) /\ UNCHANGED <<wgm, com, ddp>>
      /\ \A c \in Channels : Op(c)' = Op(c)
  BY DEF ctrl, W, DualSlope, Op
<1>3. bottomed' <=> ReachesBottom \/ (bottomed /\ (DualSlope => kept))
  BY DEF Clocked
<1>4. topped' <=> kept /\ (topped \/ (bottomed /\ ReachesTop))
  BY DEF Clocked
<1>5. SUFFICES ASSUME NEW c \in Channels, ddp[c], DualSlope, Op(c) = "CLONUP_STONDOWN",
                      AwayFromEnds(c)', bottomed', topped' \/ tcnt' >= ocr_buf'[c]
               PROVE  pin'[c] = Duty(c)'
  BY <1>2 DEF PinInPhase
<1>6. W.updocr_at # "ATIMMEDIATE"
  BY <1>1, <1>5 DEF PwmTables, Dual, DualSlope, W
<1>7. bottomed /\ kept
  <2>1. CASE topped'
    <3>1. kept /\ (topped \/ bottomed)
      BY <1>4, <2>1
    <3>. QED
      BY <3>1 DEF DutyInv
  <2>2. CASE ~ReachesBottom
    BY <1>3, <1>5, <2>2
  <2>3. CASE ReachesBottom /\ ~topped'
    <3>1. tcnt' = 0
      BY <1>5, <2>3, BottomCount DEF DutyInv
    <3>2. tcnt' >= ocr_buf'[c] /\ 2 < ocr_buf'[c] /\ ocr_buf'[c] \in 0..Max
      BY <1>5, <2>3 DEF AwayFromEnds, TypeOK
    <3>. QED
      BY <1>1, <3>1, <3>2
  <2>. QED
    BY <2>1, <2>2, <2>3
<1>8. Top' = Top /\ UNCHANGED <<ocr_buf, rtop_buf>>
  BY <1>2, <1>6, <1>7, TopKept
<1>9. 2 < ocr_buf[c] /\ ocr_buf[c] < Top - 2 /\ ocr_buf[c] \in 0..Max /\ AwayFromEnds(c)
  BY <1>5, <1>8 DEF AwayFromEnds, DutyInv, TypeOK
<1>10. 1 < Top
  BY <1>1, <1>9
<1>11. pin[c] = Duty(c) \/ ~(topped \/ tcnt >= ocr_buf[c])
  BY <1>2, <1>5, <1>7, <1>9 DEF DutyInv, PinInPhase
\* The pin changes at a match that is not next to an end of the swing, and at no other.
<1>12. pin'[c] = IF NotNearEnds /\ Matches(c) THEN IF cnt_dir = "UP" THEN 0 ELSE 1 ELSE pin[c]
  <2>1. AtMatch(c) = IF NotNearEnds THEN IF cnt_dir = "UP" THEN 0 ELSE 1 ELSE pin[c]
    BY <1>5 DEF AtMatch
  <2>2. \A p : AtBottom(c, p) = p
    BY <1>5 DEF AtBottom
  <2>3. pin'[c] = PinAfter(c)
    BY DEF Clocked
  <2>4. CASE NotNearEnds /\ Matches(c)
    BY <1>5, <2>1, <2>2, <2>3, <2>4 DEF PinAfter
  <2>5. CASE ~(NotNearEnds /\ Matches(c))
    BY <1>5, <2>1, <2>2, <2>3, <2>5 DEF PinAfter
  <2>. QED
    BY <2>4, <2>5
\* The registers that a count at TOP compares are those it has in its buffers.
<1>13. Compared(c) = ocr_buf[c]
  <2>1. CASE UpdatesAtTop
    <3>1. ocr_buf' = ocr
      BY <2>1 DEF Clocked, UpdateBuffers
    <3>. QED
      BY <1>7, <2>1, <3>1 DEF Compared
  <2>2. CASE ~UpdatesAtTop
    BY <1>6, <2>2 DEF Compared
  <2>. QED
    BY <2>1, <2>2
<1>14. Matches(c) <=> \/ cnt_dir = "UP" /\ tcnt = ocr_buf[c] - 1
                      \/ cnt_dir = "DOWN" /\ tcnt = ocr_buf[c] + 1
  BY <1>13 DEF Matches
<1>15. (NotNearEnds /\ Matches(c)) <=> Matches(c)
  BY <1>1, <1>9, <1>14 DEF NotNearEnds
<1>16. pin'[c] = IF cnt_dir = "UP" /\ tcnt = ocr_buf[c] - 1 THEN 0
                 ELSE IF cnt_dir = "DOWN" /\ tcnt = ocr_buf[c] + 1 THEN 1 ELSE pin[c]
  BY <1>12, <1>14, <1>15
<1>17. Duty(c)' = IF \/ tcnt' < ocr_buf[c]
                     \/ tcnt' = ocr_buf[c] /\ cnt_dir' = "DOWN" THEN 1 ELSE 0
  BY <1>8 DEF Duty
<1>18. CASE cnt_dir = "UP" /\ tcnt = Top /\ tcnt' = Top - 1 /\ cnt_dir' = "DOWN" /\ topped
  <2>1. pin[c] = Duty(c) /\ Duty(c) = 0
    BY <1>1, <1>9, <1>11, <1>18 DEF Duty
  <2>2. pin'[c] = pin[c]
    BY <1>1, <1>9, <1>16, <1>18
  <2>3. Duty(c)' = 0
    BY <1>1, <1>9, <1>17, <1>18
  <2>. QED
    BY <2>1, <2>2, <2>3
<1>19. CASE cnt_dir = "UP" /\ 0 < tcnt /\ tcnt < Top /\ tcnt' = tcnt + 1 /\ cnt_dir' = "UP"
  <2>1. CASE tcnt = ocr_buf[c] - 1
    BY <1>1, <1>9, <1>16, <1>17, <1>19, <2>1
  <2>2. CASE tcnt < ocr_buf[c] - 1
    <3>1. topped
      <4>1. tcnt # Top - 1 /\ ~(tcnt' >= ocr_buf[c])
        BY <1>1, <1>9, <1>19, <2>2
      <4>. QED
        BY <1>4, <1>5, <1>8, <4>1 DEF ReachesTop
    <3>2. pin[c] = Duty(c) /\ Duty(c) = 1
      BY <1>1, <1>9, <1>11, <2>2, <3>1 DEF Duty
    <3>. QED
      BY <1>1, <1>9, <1>16, <1>17, <1>19, <2>2, <3>2
  <2>3. CASE tcnt > ocr_buf[c] - 1
    <3>1. tcnt >= ocr_buf[c]
      BY <1>1, <1>9, <2>3
    <3>2. pin[c] = Duty(c) /\ Duty(c) = 0
      BY <1>1, <1>9, <1>11, <1>19, <3>1 DEF Duty
    <3>. QED
      BY <1>1, <1>9, <1>16, <1>17, <1>19, <2>3, <3>2
  <2>. QED
    BY <1>1, <1>9, <2>1, <2>2, <2>3
<1>20. CASE cnt_dir = "DOWN" /\ tcnt = 0 /\ tcnt' = 1 /\ cnt_dir' = "UP"
  <2>1. topped
    <3>1. ~(tcnt' >= ocr_buf[c])
      BY <1>9, <1>20
    <3>. QED
      BY <1>4, <1>5, <1>8, <1>20, <3>1 DEF ReachesTop
  <2>2. pin[c] = Duty(c) /\ Duty(c) = 1
    BY <1>9, <1>11, <1>20, <2>1 DEF Duty
  <2>. QED
    BY <1>9, <1>16, <1>17, <1>20, <2>2
<1>21. CASE cnt_dir = "DOWN" /\ 0 < tcnt /\ tcnt < Top /\ tcnt' = tcnt - 1
            /\ cnt_dir' = "DOWN" /\ topped
  <2>1. CASE tcnt = ocr_buf[c] + 1
    BY <1>1, <1>9, <1>16, <1>17, <1>21, <2>1
  <2>2. CASE tcnt > ocr_buf[c] + 1
    <3>1. pin[c] = Duty(c) /\ Duty(c) = 0
      BY <1>1, <1>9, <1>11, <1>21, <2>2 DEF Duty
    <3>. QED
      BY <1>1, <1>9, <1>16, <1>17, <1>21, <2>2, <3>1
  <2>3. CASE tcnt < ocr_buf[c] + 1
    <3>1. pin[c] = Duty(c) /\ Duty(c) = 1
      BY <1>1, <1>9, <1>11, <1>21, <2>3 DEF Duty
    <3>. QED
      BY <1>1, <1>9, <1>16, <1>17, <1>21, <2>3, <3>1
  <2>. QED
    BY <1>1, <1>9, <2>1, <2>2, <2>3
<1>. QED
  BY <1>5, <1>6, <1>7, <1>8, <1>10, <1>18, <1>19, <1>20, <1>21, SwingCount

LEMMA DutyInductive ==
  ASSUME PwmTables, DutyInv, [Next]_vars
  PROVE  DutyInv'
<1>1. TypeOK /\ TypeOK' /\ (~Running => ~bottomed) /\ (topped => bottomed)
      /\ InPhase /\ PinInPhase
  BY TypeInductive DEF DutyInv
<1>2. (~Running => ~bottomed)'
  <2>1. ASSUME UNCHANGED <<cs, bottomed>> PROVE (~Running => ~bottomed)'
    BY <1>1, <2>1 DEF Running
  <2>2. ASSUME Tick PROVE (~Running => ~bottomed)'
    <3>1. ASSUME NEW icp \in IcpValues, TickRunning(icp) PROVE (~Running => ~bottomed)'
      BY <3>1 DEF TickRunning, ctrl, Running
    <3>2. ASSUME NEW icp \in IcpValues, TickStopped(icp) \/ TickUndefined(icp)
          PROVE  (~Running => ~bottomed)'
      BY <2>1, <3>2 DEF TickStopped, TickUndefined, ctrl, hist
    <3>. QED
      BY <2>2, <3>1, <3>2 DEF Tick
  <2>3. ASSUME Firmware PROVE (~Running => ~bottomed)'
    BY <2>1, <2>3 DEF Firmware, WriteIcr, WriteTcnt, WriteOcr, SelectClock, SelectMode,
                      SelectPin, TakeFlag, Disturbed, ctrl, hist
  <2>4. ASSUME UNCHANGED vars PROVE (~Running => ~bottomed)'
    BY <2>1, <2>4 DEF vars, ctrl, hist
  <2>. QED
    BY <2>2, <2>3, <2>4 DEF Next
<1>3. CASE Clocked /\ UNCHANGED ctrl
  BY <1>1, <1>2, <1>3, PhaseCount, PinCount DEF DutyInv
<1>4. CASE UNCHANGED pwm
  <2>1. UNCHANGED <<tcnt, wgm, com, ddp, pin, cnt_dir, ocr_buf, rtop_buf, bottomed, topped>>
    BY <1>4 DEF pwm, hist
  <2>2. W' = W /\ (DualSlope' <=> DualSlope) /\ \A c \in Channels : Op(c)' = Op(c)
    BY <2>1 DEF W, DualSlope, Op
  <2>3. DualSlope => Top' = Top
    <3>1. DualSlope => W.updocr_at # "ATIMMEDIATE"
      BY <1>1 DEF PwmTables, Dual, DualSlope, W, TypeOK
    <3>. QED
      BY <2>1, <3>1, TopKept
  <2>4. InPhase'
    BY <1>1, <2>1, <2>2, <2>3 DEF InPhase, Rising, Swinging
  <2>5. PinInPhase'
    BY <1>1, <2>1, <2>2, <2>3 DEF PinInPhase, AwayFromEnds, Duty
  <2>. QED
    BY <1>1, <1>2, <2>1, <2>4, <2>5 DEF DutyInv
<1>5. CASE ~bottomed' /\ (~topped' \/ UNCHANGED hist)
  <2>1. (topped => bottomed)'
    <3>1. CASE ~topped'
      BY <3>1
    <3>2. CASE UNCHANGED hist
      <4>1. topped' = topped /\ bottomed' = bottomed
        BY <3>2 DEF hist
      <4>. QED
        BY <1>1, <4>1
    <3>. QED
      BY <1>5, <3>1, <3>2
  <2>. QED
    BY <1>1, <1>2, <1>5, <2>1 DEF DutyInv, InPhase, PinInPhase
<1>. QED
  BY <1>1, <1>3, <1>4, <1>5, StepsOfPwm

\* With the tables of the devices the pin of a phase correct PWM channel is low
\* exactly from the match on the way up to the match on the way down, whatever the
\* firmware writes, as long as the match is more than two counts from BOTTOM and TOP.
THEOREM DutyExactAwayFromEnds ==
  ASSUME PwmTables
  PROVE  Spec => []DutyAwayFromEnds
<1>1. Init => DutyInv
  <2>1. Init => ~bottomed /\ ~topped /\ InPhase /\ PinInPhase
    BY DEF Init, InPhase, PinInPhase
  <2>. QED
    BY <2>1, TypeInit DEF DutyInv
<1>2. DutyInv /\ [Next]_vars => DutyInv'
  BY DutyInductive
<1>3. DutyInv => DutyAwayFromEnds
  BY DEF DutyInv, PinInPhase, DutyAwayFromEnds
<1>. QED
  BY <1>1, <1>2, <1>3, PTL DEF Spec

\* What the registers of compare channels and of TOP can hold without input capture.
Values == RegValues \cup {0} \cup {WgmOp[m].top : m \in Modes}

\* The firmware writes no pair of a match and a TOP that are two counts or less apart,
\* and no match two counts or less from BOTTOM: what trigger_oc_pin asks of it.
ClearOfEnds == \A v, t \in Values : 0 < v /\ v < t => 2 < v /\ v < t - 2

InValues == /\ icr \in Values /\ \A c \in Channels : ocr[c] \in Values /\ ocr_buf[c] \in Values
            /\ \A m \in Modes : rtop_buf[m] \in Values
            /\ icpval = 0

LEMMA RegTopValue ==
  ASSUME \A c \in Channels : ocr[c] \in Values, NEW i \in Values, NEW m \in Modes
  PROVE  RegTop(m, i) \in Values
<1>1. CASE WgmOp[m].rtop \in Channels
  BY <1>1 DEF RegTop
<1>2. CASE WgmOp[m].rtop \notin Channels /\ WgmOp[m].rtop = "icr"
  BY <1>2 DEF RegTop
<1>3. CASE WgmOp[m].rtop \notin Channels /\ WgmOp[m].rtop # "icr"
  BY <1>3 DEF RegTop, Values
<1>. QED
  BY <1>1, <1>2, <1>3

LEMMA BuffersValue ==
  ASSUME InValues, TypeOK, UpdateBuffers, icr' \in Values
  PROVE  /\ \A c \in Channels : ocr_buf'[c] \in Values
         /\ \A m \in Modes : rtop_buf'[m] \in Values
<1>1. \A m \in Modes : RegTop(m, icr') \in Values
  BY RegTopValue DEF InValues
<1>2. \A c \in Channels : ocr_buf'[c] \in Values
  BY DEF UpdateBuffers, InValues
<1>3. \A m \in Modes : rtop_buf'[m] \in Values
  BY <1>1 DEF UpdateBuffers, InValues
<1>. QED
  BY <1>2, <1>3

LEMMA ValuesInductive ==
  ASSUME IcpValues = {0}, TypeOK, InValues, [Next]_vars
  PROVE  InValues'
<1>1. ASSUME UNCHANGED <<icr, ocr, ocr_buf, rtop_buf, icpval>> PROVE InValues'
  BY <1>1 DEF InValues
<1>2. ASSUME NEW icp \in IcpValues, TickStopped(icp) PROVE InValues'
  <2>1. ocr' = ocr /\ icr' = icr /\ icpval' = 0 /\ UpdateBuffers
    BY <1>2 DEF TickStopped, regs
  <2>. QED
    BY <2>1, BuffersValue DEF InValues
<1>3. ASSUME NEW icp \in IcpValues, TickRunning(icp) PROVE InValues'
  <2>1. ocr' = ocr /\ icr' = icr /\ icpval' = 0
    BY <1>3 DEF TickRunning, Captures
  <2>2. CASE UpdateBuffers
    BY <2>1, <2>2, BuffersValue DEF InValues
  <2>3. CASE UNCHANGED <<ocr_buf, rtop_buf>>
    BY <2>1, <2>3 DEF InValues
  <2>. QED
    BY <1>3, <2>2, <2>3 DEF TickRunning, Clocked
<1>4. ASSUME NEW icp \in IcpValues, TickUndefined(icp) PROVE InValues'
  BY <1>1, <1>4 DEF TickUndefined, regs, InValues
<1>5. ASSUME NEW v \in RegValues, NEW c \in Channels, WriteOcr(c, v) PROVE InValues'
  <2>1. UNCHANGED <<icr, ocr_buf, rtop_buf, icpval>> /\ ocr' = [ocr EXCEPT ![c] = v]
    BY <1>5 DEF WriteOcr, intern
  <2>2. v \in Values
    BY DEF Values
  <2>3. \A d \in Channels : ocr'[d] \in Values
    BY <2>1, <2>2 DEF InValues, TypeOK
  <2>. QED
    BY <2>1, <2>3 DEF InValues
<1>6. ASSUME NEW v \in RegValues, WriteIcr(v) PROVE InValues'
  <2>1. v \in Values
    BY DEF Values
  <2>. QED
    BY <1>6, <2>1 DEF WriteIcr, intern, InValues
<1>7. ASSUME NEW v \in RegValues, WriteTcnt(v) PROVE InValues'
  BY <1>1, <1>7 DEF WriteTcnt, intern
<1>8. ASSUME SelectClock \/ SelectMode \/ TakeFlag PROVE InValues'
  BY <1>1, <1>8 DEF SelectClock, SelectMode, TakeFlag, regs, intern
<1>9. ASSUME NEW c \in Channels, SelectPin(c) PROVE InValues'
  BY <1>1, <1>9 DEF SelectPin, regs, intern
<1>10. ASSUME UNCHANGED vars PROVE InValues'
  BY <1>1, <1>10 DEF vars, regs, intern
<1>. QED
  BY <1>2, <1>3, <1>4, <1>5, <1>6, <1>7, <1>8, <1>9, <1>10 DEF Next, Tick, Firmware

\* The whole duty cycle of phase correct PWM, for firmware that writes only matches
\* which trigger_oc_pin acts on, to a timer whose ICR no capture can change.
THEOREM DualSlopeExact ==
  ASSUME PwmTables, ClearOfEnds, IcpValues = {0}
  PROVE  Spec => []DualSlopeDuty
<1>. DEFINE Inv == DutyInv /\ InValues
<1>1. Init => Inv
  <2>. SUFFICES ASSUME Init PROVE Inv
    OBVIOUS
  <2>1. InPhase /\ PinInPhase /\ ~bottomed /\ ~topped
    BY DEF Init, InPhase, PinInPhase
  <2>2. 0 \in Values
    BY DEF Values
  <2>3. InValues
    BY <2>2 DEF Init, InValues
  <2>. QED
    BY <2>1, <2>3, TypeInit DEF DutyInv
<1>2. Inv /\ [Next]_vars => Inv'
  BY DutyInductive, ValuesInductive DEF DutyInv
<1>3. Inv => DualSlopeDuty
  <2>. SUFFICES ASSUME Inv, NEW c \in Channels, topped, ddp[c], DualSlope,
                       Op(c) = "CLONUP_STONDOWN", 0 < ocr_buf[c], ocr_buf[c] < Top
                PROVE  pin[c] = Duty(c)
    BY DEF DualSlopeDuty, Duty
  <2>1. wgm \in Modes /\ W.updocr_at # "ATIMMEDIATE" /\ W = WgmOp[wgm]
    BY DEF DutyInv, TypeOK, PwmTables, Dual, DualSlope, W
  <2>2. Top = W.top \/ Top = rtop_buf[wgm]
    BY <2>1 DEF Top
  <2>3. Top \in Values /\ ocr_buf[c] \in Values
    BY <2>1, <2>2 DEF InValues, Values
  <2>4. AwayFromEnds(c)
    BY <2>3 DEF ClearOfEnds, AwayFromEnds
  <2>. QED
    BY <2>4 DEF DutyInv, PinInPhase
<1>. QED
  BY <1>1, <1>2, <1>3, PTL DEF Spec
=============================================================================
