----------------------------- MODULE BoardProofs ------------------------------
(***************************************************************************)
(* What a dump of registers says and when a pin follows its driver, for    *)
(* every list of ports, registers dumped, models and steps.                *)
(*                                                                         *)
(* WaveformTrue is about one moment of a step.  What makes it true is an   *)
(* invariant of the other moments: old_val is what a reader has been told, *)
(* or zero as long as it has been told nothing.                            *)
(***************************************************************************)
EXTENDS Board, TLAPS

WaveInv ==
  /\ \A i \in DOMAIN Dumped :
       IF i \in printed THEN file[i] = Shown(Dumped[i], old[i])
                        ELSE old[i] = Zero(Dumped[i])
  /\ at = "instruction" =>
       \A i \in DOMAIN Dumped : Shown(Dumped[i], Value(Dumped[i])) = Shown(Dumped[i], old[i])

\* A synchronization has left the pins of the outputs behind for the next one.
PinInv ==
  /\ steps \in Nat
  /\ steps > 0 =>
       \A i \in Used : pending[i] # <<>> /\ pending[i][1] \cap before[i].ddr = before[i].out

\* A register keeps its width.
LEMMA ZeroStays ==
  ASSUME NEW i \in DOMAIN Dumped
  PROVE  Zero(Dumped[i])' = Zero(Dumped[i])
<1>1. DOMAIN Value(Dumped[i]) = IF Dumped[i].low = NoReg THEN 1..1 ELSE 1..2
  BY DEF Value
<1>2. DOMAIN Value(Dumped[i])' = IF Dumped[i].low = NoReg THEN 1..1 ELSE 1..2
  BY DEF Value
<1>. QED
  BY <1>1, <1>2 DEF Zero

LEMMA FrameTells ==
  ASSUME WaveInv, Frame
  PROVE  WaveInv'
<1>. DEFINE V(i) == Value(Dumped[i])
<1>1. dm' = dm
  BY DEF Frame
<1>2. \A i \in DOMAIN Dumped : V(i)' = V(i) /\ Zero(Dumped[i])' = Zero(Dumped[i])
  BY <1>1, ZeroStays DEF Value
<1>3. CASE \E i \in DOMAIN Dumped : Seen(i)
  <2>1. /\ old' = [i \in DOMAIN Dumped |-> V(i)]
        /\ printed' = printed \cup Changed
        /\ file' = [i \in DOMAIN Dumped |-> IF i \in Changed THEN Shown(Dumped[i], V(i)) ELSE file[i]]
    BY <1>3 DEF Frame
  <2>2. ASSUME NEW i \in DOMAIN Dumped
        PROVE  /\ IF i \in printed' THEN file'[i] = Shown(Dumped[i], old'[i])
                                    ELSE old'[i] = Zero(Dumped[i])'
               /\ Shown(Dumped[i], V(i))' = Shown(Dumped[i], old'[i])
    <3>1. old'[i] = V(i) /\ (i \in Changed \/ V(i) = old[i])
      BY <2>1 DEF Changed
    <3>2. CASE i \in Changed
      BY <1>2, <2>1, <3>1, <3>2 DEF Shown
    <3>3. CASE i \notin Changed
      BY <1>2, <2>1, <3>1, <3>3 DEF Shown, WaveInv
    <3>. QED
      BY <3>2, <3>3
  <2>. QED
    BY <2>2 DEF WaveInv, Shown
<1>4. CASE ~ \E i \in DOMAIN Dumped : Seen(i)
  <2>1. file' = file /\ printed' = printed /\ old' = old
    BY <1>4 DEF Frame
  <2>2. \A i \in DOMAIN Dumped : Shown(Dumped[i], V(i)) = Shown(Dumped[i], old[i])
    BY <1>4 DEF Seen
  <2>. QED
    BY <1>2, <2>1, <2>2 DEF WaveInv, Shown
<1>. QED
  BY <1>3, <1>4

LEMMA WaveInductive ==
  ASSUME WaveInv, [Next]_vars
  PROVE  WaveInv'
<1>1. ASSUME UNCHANGED <<old, file, printed>>, at' # "instruction" PROVE WaveInv'
  BY <1>1, ZeroStays DEF WaveInv, Shown
<1>2. CASE Peripherals \/ Tick
  BY <1>1, <1>2 DEF Peripherals, Tick
<1>3. CASE Ticked
  BY <1>1, <1>3 DEF Ticked
<1>4. CASE Frame
  BY <1>4, FrameTells
<1>5. CASE Instruction
  BY <1>1, <1>5 DEF Instruction
<1>6. CASE IOSyncPinx
  BY <1>1, <1>6 DEF IOSyncPinx
<1>7. CASE UNCHANGED vars
  BY <1>7, ZeroStays DEF vars, WaveInv, Shown, Value
<1>. QED
  BY <1>2, <1>3, <1>4, <1>5, <1>6, <1>7 DEF Next

\* print_regs keeps the reader of a dump informed: after a frame, printed or not,
\* what he takes a register for is what it holds, but for the zeroes at the start.
THEOREM DumpTrue == Spec => []WaveformTrue
<1>1. Init => WaveInv
  BY DEF Init, WaveInv
<1>2. WaveInv /\ [Next]_vars => WaveInv'
  BY WaveInductive
<1>3. WaveInv => WaveformTrue
  BY DEF WaveInv, WaveformTrue, Shown
<1>. QED
  BY <1>1, <1>2, <1>3, PTL DEF Spec

LEMMA SyncLeavesOutputs ==
  ASSUME PinInv, IOSyncPinx
  PROVE  PinInv'
<1>1. /\ steps' = steps + 1 /\ before' = Driven
      /\ pending' = [i \in DOMAIN Ports |-> IF i \in Used THEN <<Ppin(i)>> ELSE pending[i]]
  BY DEF IOSyncPinx
<1>2. ASSUME NEW i \in Used
      PROVE  pending'[i] # <<>> /\ pending'[i][1] \cap before'[i].ddr = before'[i].out
  <2>1. pending'[i] = <<Ppin(i)>>
    BY <1>1 DEF Used
  <2>2. /\ before'[i].ddr = dm[Ports[i].ddr]
        /\ before'[i].out = dm[Ports[i].port] \cap dm[Ports[i].ddr]
    BY <1>1 DEF Driven
  <2>3. Ppin(i) \cap dm[Ports[i].ddr] = dm[Ports[i].port] \cap dm[Ports[i].ddr]
    BY DEF Ppin
  <2>. QED
    BY <2>1, <2>2, <2>3
<1>. QED
  BY <1>1, <1>2 DEF PinInv

LEMMA PinInductive ==
  ASSUME PinInv, [Next]_vars
  PROVE  PinInv'
<1>1. ASSUME UNCHANGED <<steps, pending, before>> PROVE PinInv'
  BY <1>1 DEF PinInv
<1>2. CASE Peripherals \/ Tick \/ Ticked \/ Frame \/ Instruction
  BY <1>1, <1>2 DEF Peripherals, Tick, Ticked, Frame, Instruction
<1>3. CASE IOSyncPinx
  BY <1>3, SyncLeavesOutputs
<1>4. CASE UNCHANGED vars
  BY <1>1, <1>4 DEF vars
<1>. QED
  BY <1>2, <1>3, <1>4 DEF Next

\* MSIM_AVR_IOSyncPinx writes to a pin what the cycle before has driven it to, however
\* many models and peripherals wrote to the pin in between.
THEOREM PinsFollowDrivers == Spec => PinsFollow
<1>1. Init => PinInv
  BY DEF Init, PinInv
<1>2. PinInv /\ [Next]_vars => PinInv'
  BY PinInductive
<1>. DEFINE Follows == IOSyncPinx /\ steps > 0 =>
                         \A i \in Used : dm'[Ports[i].pin] \cap before[i].ddr = before[i].out
<1>3. PinInv /\ [Next]_vars => [Follows]_vars
  <2>. SUFFICES ASSUME PinInv, IOSyncPinx, steps > 0, NEW i \in Used
                PROVE  dm'[Ports[i].pin] \cap before[i].ddr = before[i].out
    BY Zenon
  <2>1. Ports[i].pin \in Space
    BY BoardAssumption DEF Space
  <2>2. (CHOOSE j \in Used : Ports[j].pin = Ports[i].pin) = i
    BY BoardAssumption
  <2>3. dm'[Ports[i].pin] = Pin(i)
    BY <2>1, <2>2 DEF IOSyncPinx
  <2>4. Pin(i) = pending[i][1] /\ pending[i][1] \cap before[i].ddr = before[i].out
    BY DEF PinInv, Pin
  <2>. QED
    BY <2>3, <2>4
<1>. QED
  BY <1>1, <1>2, <1>3, PTL DEF Spec, PinsFollow
=============================================================================
