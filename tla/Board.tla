-------------------------------- MODULE Board ---------------------------------
(***************************************************************************)
(* Who writes the registers of I/O ports between two instructions, and who *)
(* looks at them: timers and peripherals, the models written in Lua        *)
(* (avr_lua.c, avr_luaapi.c), the dump of registers (avr_vcd.c), the       *)
(* instruction and the synchronization of pins (avr_io.c), in the order of *)
(* MSIM_AVR_SimStep.                                                       *)
(*                                                                         *)
(* A register is the set of its bits that are one.  An address is of the   *)
(* data space: general registers, then I/O registers, then RAM.            *)
(***************************************************************************)
EXTENDS Naturals, Sequences

CONSTANTS
  Regs, Ios, Ram,    \* addresses
  Ports,             \* mcu->ioports: [port, ddr, pin] of addresses, NoPort behind the last
  NoPort,
  Bits,
  Dumped,            \* vcd->regs: [reg, low, bit], low or bit NoReg or NoBit where there is none
  NoReg, NoBit,
  Models,            \* number of models loaded
  MaxSteps

Space == Regs \cup Ios \cup Ram
Used == {i \in DOMAIN Ports : \A j \in 1..i : Ports[j] # NoPort}

ASSUME BoardAssumption ==
  /\ Models \in Nat /\ MaxSteps \in Nat
  /\ \A i \in Used : {Ports[i].port, Ports[i].ddr, Ports[i].pin} \subseteq Ios
  /\ \A i, j \in Used : Ports[i].pin = Ports[j].pin => i = j
  /\ \A i \in DOMAIN Dumped : Dumped[i].reg \in Ios /\ Dumped[i].low \in Ios \cup {NoReg}

VARIABLES
  dm,         \* the data space
  pending,    \* of each port: <<>> or the value its PINx takes next, <<ppin>>
  old,        \* old_val of the dumped registers
  at,         \* the next part of the step; in "models", model is the one to tick
  model,
  steps,
  \* Histories.
  file,       \* what a reader of the dump takes each register for
  printed,    \* the registers that have been printed in a frame
  before      \* what the last synchronization saw of each port: [ddr, out]

vars == <<dm, pending, old, at, model, steps, file, printed, before>>

-----------------------------------------------------------------------------
(* Peripherals and models. *)

\* AVR_WriteReg, AVR_SetRegBit, AVR_WriteIO, AVR_SetIOBit and AVR_WriteIO16 check the
\* address, AVR_WriteIO16 only that of its high byte.
Put(f, a, v) == [f EXCEPT ![a] = v]
WriteReg(f, a, v)    == IF a \in Regs THEN Put(f, a, v) ELSE f
SetRegBit(f, a, b, on) ==
  IF a \in Regs /\ b \in Bits THEN Put(f, a, IF on THEN f[a] \cup {b} ELSE f[a] \ {b}) ELSE f
WriteIO(f, a, v)     == IF a \in Ios THEN Put(f, a, v) ELSE f
SetIOBit(f, a, b, on) ==
  IF a \in Ios /\ b \in Bits THEN Put(f, a, IF on THEN f[a] \cup {b} ELSE f[a] \ {b}) ELSE f
WriteIO16(f, high, low, v) == IF high \in Ios THEN Put(Put(f, high, v[1]), low, v[2]) ELSE f

\* One I/O register written, or none; nobody here looks at a store to another address.
Stores == {dm} \cup {Put(dm, a, v) : a \in Ios, v \in SUBSET Bits}

\* MSIM_AVR_TMRUpdate and tick_perf: a timer drives its pin, a peripheral its registers.
Peripherals ==
  /\ at = "peripherals" /\ at' = "models"
  /\ dm' \in Stores
  /\ UNCHANGED <<pending, old, model, steps, file, printed, before>>

\* MSIM_AVR_LUATickModels: each model in turn; what it reads it may not write.
Tick ==
  /\ at = "models" /\ model <= Models
  /\ dm' \in {dm}
       \cup {WriteReg(dm, a, v) : a \in Space, v \in SUBSET Bits}
       \cup {SetRegBit(dm, a, b, on) : a \in Space, b \in Bits, on \in BOOLEAN}
       \cup {WriteIO(dm, a, v) : a \in Space, v \in SUBSET Bits}
       \cup {SetIOBit(dm, a, b, on) : a \in Space, b \in Bits, on \in BOOLEAN}
       \cup {WriteIO16(dm, a, b, <<v, v>>) : a \in Space, b \in Space, v \in SUBSET Bits}
  /\ model' = model + 1
  /\ UNCHANGED <<pending, old, at, steps, file, printed, before>>
Ticked ==
  /\ at = "models" /\ model > Models
  /\ at' = "dump" /\ model' = 1
  /\ UNCHANGED <<dm, pending, old, steps, file, printed, before>>

-----------------------------------------------------------------------------
(* Dump. *)

\* The value of a dumped register, a pair if it is one of 16 bits
Value(d) == IF d.low = NoReg THEN <<dm[d.reg]>> ELSE <<dm[d.reg], dm[d.low]>>
\* What is printed of it
Shown(d, v) == IF d.bit = NoBit THEN v ELSE <<v[1] \cap {d.bit}>>
Zero(d) == [i \in DOMAIN Value(d) |-> {}]

\* A frame is printed if a dumped register, or the bit that is dumped, has changed.
\* Mutant: a frame tells the changes of whole registers only.
SeenWhole(i) == Dumped[i].bit = NoBit /\ Value(Dumped[i]) # old[i]
Seen(i) == Shown(Dumped[i], Value(Dumped[i])) # Shown(Dumped[i], old[i])
Changed == {i \in DOMAIN Dumped : Value(Dumped[i]) # old[i]}
Frame ==
  /\ at = "dump" /\ at' = "instruction"
  /\ IF \E i \in DOMAIN Dumped : Seen(i)
     THEN /\ file' = [i \in DOMAIN Dumped |-> IF i \in Changed
                                              THEN Shown(Dumped[i], Value(Dumped[i])) ELSE file[i]]
          /\ printed' = printed \cup Changed
          /\ old' = [i \in DOMAIN Dumped |-> Value(Dumped[i])]
     ELSE UNCHANGED <<file, printed, old>>
  /\ UNCHANGED <<dm, pending, model, steps, before>>

-----------------------------------------------------------------------------
(* Instruction and synchronization. *)

\* OUT, SBI and ST store to PORTx, DDRx and PINx alike.
Instruction ==
  /\ at = "instruction" /\ at' = "sync"
  /\ dm' \in Stores
  /\ UNCHANGED <<pending, old, model, steps, file, printed, before>>

\* MSIM_AVR_IOSyncPinx: up to the first port that the MCU does not have.
\* Mutant: without the delay of a cycle.
PinNow(i) == (dm[Ports[i].pin] \ dm[Ports[i].ddr]) \cup (dm[Ports[i].port] \cap dm[Ports[i].ddr])
Pin(i) == IF pending[i] = <<>> THEN dm[Ports[i].pin] ELSE pending[i][1]
Ppin(i) == (Pin(i) \ dm[Ports[i].ddr]) \cup (dm[Ports[i].port] \cap dm[Ports[i].ddr])
Driven == [i \in Used |-> [ddr |-> dm[Ports[i].ddr], out |-> dm[Ports[i].port] \cap dm[Ports[i].ddr]]]
IOSyncPinx ==
  /\ at = "sync" /\ at' = "peripherals"
  /\ steps < MaxSteps /\ steps' = steps + 1
  /\ dm' = [a \in Space |-> IF \E i \in Used : Ports[i].pin = a
                            THEN Pin(CHOOSE i \in Used : Ports[i].pin = a) ELSE dm[a]]
  /\ pending' = [i \in DOMAIN Ports |-> IF i \in Used THEN <<Ppin(i)>> ELSE pending[i]]
  /\ before' = Driven
  /\ UNCHANGED <<old, model, file, printed>>

\* MSIM_AVR_VCDOpen tells the values at the start; the ones it keeps are zero.
Init ==
  /\ dm \in [Space -> {{}, Bits}] /\ \A a \in Regs \cup Ram : dm[a] = {}
  /\ pending = [i \in DOMAIN Ports |-> <<>>]
  /\ old = [i \in DOMAIN Dumped |-> Zero(Dumped[i])]
  /\ at = "peripherals" /\ model = 1 /\ steps = 0
  /\ file = [i \in DOMAIN Dumped |-> Shown(Dumped[i], Value(Dumped[i]))]
  /\ printed = {}
  /\ before = Driven

Next == Peripherals \/ Tick \/ Ticked \/ Frame \/ Instruction \/ IOSyncPinx
Spec == Init /\ [][Next]_vars

-----------------------------------------------------------------------------
(* Properties. *)

\* After every frame a reader of the dump knows the values of all dumped registers and
\* bits, but for those that have been zero since the start and were not when it was opened.
WaveformTrue ==
  at = "instruction" =>
    \A i \in DOMAIN Dumped :
      \/ file[i] = Shown(Dumped[i], Value(Dumped[i]))
      \/ i \notin printed /\ Shown(Dumped[i], Value(Dumped[i])) = Shown(Dumped[i], Zero(Dumped[i]))

\* What an instruction writes to an output can be read back one cycle later and no
\* sooner, whatever models do to the pins meanwhile.
PinsFollow ==
  [][ IOSyncPinx /\ steps > 0 =>
        \A i \in Used : dm'[Ports[i].pin] \cap before[i].ddr = before[i].out ]_vars

\* The synchronization updates only the bits that are configured as outputs.
InputsKept ==
  [][ IOSyncPinx => \A i \in Used : dm'[Ports[i].pin] \ dm[Ports[i].ddr]
                                    = dm[Ports[i].pin] \ dm[Ports[i].ddr] ]_vars
=============================================================================
