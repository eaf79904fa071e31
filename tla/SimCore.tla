------------------------------- MODULE SimCore -------------------------------
(***************************************************************************)
(* The simulation loop of MCUSim: MSIM_AVR_Simulate calls                  *)
(* MSIM_AVR_SimStep until it returns a verdict, and every call is one      *)
(* clock cycle of the simulated AVR.  A cycle is cut into the phases of    *)
(* MSIM_AVR_SimStep, one action (or a few alternative ones) per phase:     *)
(*                                                                         *)
(*    check -> rsp -> tick -> scope -> exec -> irq -> finish -> check ...  *)
(*                                                                         *)
(* The parties that meet in a cycle are the firmware (pm), the debugger    *)
(* (served only while the MCU is stopped), the timers and peripherals      *)
(* (which raise interrupts) and the Lua models (which may write registers  *)
(* and set the state of the MCU).  Instructions keep what the loop can     *)
(* tell apart: how many cycles they take and what they do to pc, I, state  *)
(* and the interrupts.                                                     *)
(***************************************************************************)
EXTENDS Integers, Sequences, FiniteSets

CONSTANTS
  FlashEnd,     \* last word of the flash memory (mcu->flashend >> 1)
  PmSize,       \* mcu->pm_size
  ResetPC,      \* mcu->intr.reset_pc
  IVT,          \* mcu->intr.ivt
  TimerVectors, \* vectors scanned by pass_irqs (they have enable/raised bits)
  PerfVectors,  \* vectors requested directly by tick_perf (SPM_RDY)
  Programs,     \* contents the program memory may have
  MatchMemories,\* contents the match points memory may have
  DebugImages,  \* <<pm, mpm>>: contents a debugger may give to both
  DebugPCs,     \* values a debugger may load into pc
  LuaStates,    \* states a Lua model may set
  Modes,        \* <<ft, trap_at_isr>>: the ways the simulator may be started
  VolatileIO,   \* may an I/O bit change between two cycles of SBIS/SBIC?
  MaxStack,     \* return addresses remembered; older ones are overwritten
  TicksMax      \* TICKS_MAX

VARIABLES
  pm,           \* program memory: an instruction per word
  mpm,          \* match points memory, written by the debugger
  ft,           \* firmware-test mode: no debugger
  trap_at_isr,
  phase,        \* the part of MSIM_AVR_SimStep to be executed next
  rc,           \* the value MSIM_AVR_Simulate returns
  state, pc, mci, ic_left, read_from_mpm,
  sreg_i,       \* bit I of SREG
  stack,        \* return addresses, the newest last
  irq,          \* {v : mcu->intr.irq[v] > 0}
  raised,       \* timer vectors whose flag (TIFR) is set
  enabled,      \* timer vectors whose enable bit (TIMSK) is set
  exec_main,
  tick, tovf,
  \* History variables, read by the properties alone:
  spent,        \* cycles spent so far on the instruction in progress
  owed,         \* RETI completed and no instruction completed since
  stepped,      \* instructions completed since a step was requested
  fresh         \* an interrupt routine was entered and none of it executed

conf   == <<pm, mpm, ft, trap_at_isr>>
cpu    == <<pc, mci, ic_left, read_from_mpm>>
intr   == <<irq, raised, enabled, exec_main>>
clock  == <<tick, tovf>>
hist   == <<spent, owed, stepped, fresh>>
vars   == <<conf, phase, rc, state, cpu, sreg_i, stack, intr, clock, hist>>

Vectors == TimerVectors \cup PerfVectors
States  == {"AVR_RUNNING", "AVR_STOPPED", "AVR_SLEEPING", "AVR_MSIM_STEP",
            "AVR_MSIM_STOP", "AVR_MSIM_TESTFAIL", "AVR_MSIM_STEPOVER"}
Phases  == {"check", "rsp", "tick", "scope", "exec", "irq", "finish", "done"}

(***************************************************************************)
(* Instructions.  cyc is the number of cycles to skip before the effect    *)
(* (the argument of SKIP_CYCLES), to a jump target and en the set of       *)
(* enable bits an "ie" instruction stores to TIMSK.                        *)
(***************************************************************************)
Ops   == {"seq", "jmp", "sei", "cli", "ie", "reti", "break", "sbis",
          "illegal", "unknown"}
Instr == [op : Ops, cyc : 0..4, to : Nat, en : SUBSET TimerVectors]

\* mpm is a zeroed static array, and Z stores nothing but bytes in its words:
\* 0x0000 is NOP, and the words 0x0001 to 0x00FF are no instructions.
Nop     == [op |-> "seq", cyc |-> 0, to |-> 0, en |-> {}]
NoInstr == [Nop EXCEPT !.op = "unknown"]
Zeroed  == [a \in 0..FlashEnd |-> Nop]

\* These have no SKIP_CYCLES in their handlers; RETI and SBIS always have one.
SingleCycle == {"sei", "cli", "ie", "break", "illegal", "unknown"}

ASSUME SizesAssumption ==
  /\ FlashEnd \in Nat /\ PmSize \in Nat /\ MaxStack \in Nat /\ TicksMax \in Nat
  /\ ResetPC \in Nat /\ IVT \in Nat
  /\ MaxStack > 0
  /\ DebugPCs \subseteq Nat
ASSUME VectorsAssumption ==
  /\ TimerVectors \subseteq Nat /\ PerfVectors \subseteq Nat
ASSUME ModesAssumption ==
  /\ Modes \subseteq BOOLEAN \X BOOLEAN
  /\ LuaStates \subseteq States
  /\ VolatileIO \in BOOLEAN
ASSUME MatchMemoriesAssumption ==
  /\ MatchMemories \subseteq [0..FlashEnd -> {Nop, NoInstr}]
  /\ Zeroed \in MatchMemories
  /\ DebugImages \subseteq Programs \X MatchMemories
ASSUME ProgramsAssumption ==
  \A p \in Programs :
    /\ p \in [0..FlashEnd -> Instr]
    /\ \A a \in 0..FlashEnd :
         /\ p[a].op \in SingleCycle => p[a].cyc = 0
         /\ p[a].op \in {"reti", "sbis"} => p[a].cyc > 0

IsActive == state \in {"AVR_RUNNING", "AVR_MSIM_STEP"}     \* IS_MCU_ACTIVE

\* setup_avr leaves the MCU stopped; MSIM_AVR_Simulate starts it in ft mode.
Init ==
  /\ pm \in Programs /\ mpm = Zeroed
  /\ \E m \in Modes : ft = m[1] /\ trap_at_isr = m[2]
  /\ phase = "check" /\ rc = 0
  /\ state = IF ft THEN "AVR_RUNNING" ELSE "AVR_STOPPED"
  /\ pc = ResetPC /\ mci = FALSE /\ ic_left = 0 /\ read_from_mpm = FALSE
  /\ sreg_i = FALSE /\ stack = <<>>
  /\ irq = {} /\ raised = {} /\ enabled = {} /\ exec_main = FALSE
  /\ tick = 0 /\ tovf = FALSE
  /\ spent = 0 /\ owed = FALSE /\ stepped = 0 /\ fresh = FALSE

Terminate(r) == phase' = "done" /\ rc' = r

(***************************************************************************)
(* Termination requests are honoured between instructions only.  The       *)
(* result 2 of MSIM_AVR_SimStep becomes 0 in MSIM_AVR_Simulate.            *)
(***************************************************************************)
Check ==
  /\ phase = "check"
  /\ \/ /\ ic_left = 0 /\ state = "AVR_MSIM_STOP"
        /\ Terminate(0)
     \/ /\ ic_left = 0 /\ state = "AVR_MSIM_TESTFAIL"
        /\ Terminate(1)
     \/ /\ ~(ic_left = 0 /\ state \in {"AVR_MSIM_STOP", "AVR_MSIM_TESTFAIL"})
        /\ phase' = "rsp" /\ UNCHANGED rc
  /\ UNCHANGED <<conf, state, cpu, sreg_i, stack, intr, clock, hist>>

(***************************************************************************)
(* MSIM_AVR_RSPHandle is called for a stopped MCU, and blocks until the    *)
(* client sends a request, which is then served.                           *)
(***************************************************************************)
Polls == ~ft /\ ic_left = 0 /\ state = "AVR_STOPPED"

RspSkip ==
  /\ phase = "rsp" /\ ~Polls
  /\ phase' = "tick"
  /\ UNCHANGED <<conf, rc, state, cpu, sreg_i, stack, intr, clock, hist>>

RspServed == phase = "rsp" /\ Polls /\ phase' = "tick"

\* c, C and s: resume, c possibly at a new address.
RspResume ==
  /\ RspServed
  /\ \/ /\ state' = "AVR_RUNNING"
        /\ pc' \in {pc} \cup DebugPCs
     \/ /\ state' = "AVR_MSIM_STEP"
        /\ UNCHANGED pc
  /\ stepped' = 0
  /\ UNCHANGED <<conf, rc, mci, ic_left, read_from_mpm, sreg_i, stack, intr,
                 clock, spent, owed, fresh>>

\* k
RspKill ==
  /\ RspServed
  /\ state' = "AVR_MSIM_STOP"
  /\ UNCHANGED <<conf, rc, cpu, sreg_i, stack, intr, clock, hist>>

\* R, vRun and vKill
RspRestart ==
  /\ RspServed
  /\ pc' = ResetPC
  /\ state' = "AVR_STOPPED"
  /\ UNCHANGED <<conf, rc, mci, ic_left, read_from_mpm, sreg_i, stack, intr,
                 clock, hist>>

\* The stack after a write to SP or to the data memory: what RETI finds there is
\* either as before or unknown, as it is with nothing pushed.
StackRewritten == stack' \in {stack, <<>>}

\* P and G: write pc, SREG or SP.  A request that changes nothing kept here (a
\* query, a read, a detach) is the case in which the values stay as they are.
RspWriteReg ==
  /\ RspServed
  /\ pc' \in {pc} \cup DebugPCs
  /\ sreg_i' \in BOOLEAN
  /\ StackRewritten
  /\ UNCHANGED <<conf, rc, state, mci, ic_left, read_from_mpm, intr, clock, hist>>

\* M and X in the data memory: the interrupt registers are part of it.
RspWriteData ==
  /\ RspServed
  /\ raised' \in SUBSET TimerVectors /\ enabled' \in SUBSET TimerVectors
  /\ StackRewritten
  /\ UNCHANGED <<conf, rc, state, cpu, sreg_i, irq, exec_main, clock, hist>>

\* M and X in the flash, and Z and z, which write both memories.
RspWriteFlash ==
  /\ RspServed
  /\ \E image \in DebugImages : pm' = image[1] /\ mpm' = image[2]
  /\ UNCHANGED <<ft, trap_at_isr, rc, state, cpu, sreg_i, stack, intr, clock, hist>>

\* No server socket, or an error of it: MSIM_AVR_RSPHandle returns -1.
RspFail ==
  /\ phase = "rsp" /\ Polls
  /\ Terminate(1)
  /\ UNCHANGED <<conf, state, cpu, sreg_i, stack, intr, clock, hist>>

(***************************************************************************)
(* Timers and peripherals raise interrupts; Lua models may then set the    *)
(* state and write any register: SREG, SP, TIMSK and TIFR are among them.  *)
(***************************************************************************)
LuaModelsWrite ==
  /\ state' \in {state} \cup LuaStates
  /\ sreg_i' \in BOOLEAN
  /\ enabled' \in SUBSET TimerVectors /\ raised' \in SUBSET TimerVectors
  /\ StackRewritten

TickPeripherals ==
  /\ phase = "tick" /\ phase' = "scope"
  /\ IF IsActive
     THEN /\ \E P \in SUBSET PerfVectors : irq' = irq \cup P
          /\ LuaModelsWrite
     ELSE UNCHANGED <<raised, enabled, irq, state, sreg_i, stack>>
  /\ UNCHANGED <<conf, rc, cpu, exec_main, clock, hist>>

\* Mutant: the last word of the flash taken for the first one after it.
OutOfScopeOffByOne == pc > FlashEnd + 1 \/ pc + 2 >= PmSize + 2

OutOfScope == pc > FlashEnd \/ pc + 2 >= PmSize

CheckScope ==
  /\ phase = "scope"
  /\ IF OutOfScope THEN Terminate(1) ELSE phase' = "exec" /\ UNCHANGED rc
  /\ UNCHANGED <<conf, state, cpu, sreg_i, stack, intr, clock, hist>>

(***************************************************************************)
(* MSIM_AVR_Step.  An instruction started is driven to its last cycle      *)
(* even when the MCU is stopped meanwhile.  SKIP_CYCLES returns from the   *)
(* handler in every cycle but the last one, so the instruction word is     *)
(* fetched again in every cycle and its effect happens in the last one.    *)
(***************************************************************************)

\* Mutant: a stopped MCU leaves its instruction unfinished.
ExecutingActiveOnly == IsActive
Executing == ic_left > 0 \/ IsActive

Fetched == IF read_from_mpm THEN mpm[pc] ELSE pm[pc]

ExecIdle ==
  /\ phase = "exec" /\ ~Executing
  /\ phase' = "irq"
  /\ UNCHANGED <<conf, rc, state, cpu, sreg_i, stack, intr, clock, hist>>

ExecUnknown ==
  /\ phase = "exec" /\ Executing
  /\ Fetched.op = "unknown"
  /\ read_from_mpm' = FALSE
  /\ Terminate(1)
  /\ UNCHANGED <<conf, state, pc, mci, ic_left, sreg_i, stack, intr, clock, hist>>

\* Mutant: the first cycle is counted among those left.
FirstSkipShort(n) == mci' = TRUE /\ ic_left' = n - 1
FirstSkip(n)      == mci' = TRUE /\ ic_left' = n

\* Mutant: the effect happens one cycle early.
LastCycleEarly == ic_left <= 2
LastCycle      == ic_left <= 1

\* The cycles in which SKIP_CYCLES returns.
ExecSkipCycle ==
  /\ phase = "exec" /\ Executing
  /\ Fetched.cyc > 0
  /\ \/ /\ ~mci
        /\ FirstSkip(Fetched.cyc)
     \/ /\ mci /\ ~LastCycle
        /\ ic_left' = ic_left - 1
        /\ UNCHANGED mci
  /\ read_from_mpm' = FALSE
  /\ spent' = spent + 1
  /\ phase' = "irq"
  /\ UNCHANGED <<conf, rc, state, pc, sreg_i, stack, intr, clock, owed, stepped,
                 fresh>>

\* The last cycle of an instruction of class op: SKIP_CYCLES falls through.
Completes(op) ==
  /\ phase = "exec" /\ Executing
  /\ Fetched.op = op
  /\ IF Fetched.cyc = 0
     THEN UNCHANGED <<mci, ic_left>>
     ELSE mci /\ LastCycle /\ mci' = FALSE /\ ic_left' = 0
  /\ phase' = "irq"

Min2(n) == IF n > 2 THEN 2 ELSE n

\* An instruction of the program is done (history only).
CountInstr ==
  /\ spent' = 0
  /\ stepped' = IF state = "AVR_MSIM_STEP" THEN Min2(stepped + 1) ELSE stepped
  /\ fresh' = FALSE

ExecSeq ==
  /\ Completes("seq")
  /\ pc' = pc + 1
  /\ read_from_mpm' = FALSE
  /\ CountInstr /\ owed' = FALSE
  /\ UNCHANGED <<conf, rc, state, sreg_i, stack, intr, clock>>

ExecJmp ==
  /\ Completes("jmp")
  /\ pc' = Fetched.to
  /\ read_from_mpm' = FALSE
  /\ CountInstr /\ owed' = FALSE
  /\ UNCHANGED <<conf, rc, state, sreg_i, stack, intr, clock>>

\* SEI and CLI (BSET 7, BCLR 7)
ExecSetI ==
  /\ \/ Completes("sei") /\ sreg_i' = TRUE
     \/ Completes("cli") /\ sreg_i' = FALSE
  /\ pc' = pc + 1
  /\ read_from_mpm' = FALSE
  /\ CountInstr /\ owed' = FALSE
  /\ UNCHANGED <<conf, rc, state, stack, intr, clock>>

\* OUT TIMSK, Rr
ExecEnable ==
  /\ Completes("ie")
  /\ enabled' = Fetched.en
  /\ pc' = pc + 1
  /\ read_from_mpm' = FALSE
  /\ CountInstr /\ owed' = FALSE
  /\ UNCHANGED <<conf, rc, state, sreg_i, stack, irq, raised, exec_main, clock>>

\* SBIS/SBIC with the skip condition true in the last cycle.
ExecSbisSkips ==
  /\ Completes("sbis")
  /\ pc' = pc + 2
  /\ read_from_mpm' = FALSE
  /\ CountInstr /\ owed' = FALSE
  /\ UNCHANGED <<conf, rc, state, sreg_i, stack, intr, clock>>

\* SBIS/SBIC with the skip condition false: this branch has no SKIP_CYCLES on
\* a classic core, and pc_delta is still 2.  The bit is read in every cycle:
\* unless it is volatile, it cannot be false after the first cycle saw it true.
ExecSbisFalls ==
  /\ phase = "exec" /\ Executing /\ phase' = "irq"
  /\ Fetched.op = "sbis"
  /\ mci => VolatileIO
  /\ pc' = pc + 2
  /\ read_from_mpm' = FALSE
  /\ CountInstr /\ owed' = FALSE
  /\ UNCHANGED <<conf, rc, state, mci, ic_left, sreg_i, stack, intr, clock>>

Push(a) == LET s == Append(stack, a)
           IN  stack' = IF Len(s) > MaxStack THEN Tail(s) ELSE s

\* With nothing pushed before it, RETI loads whatever the data memory holds:
\* FlashEnd + 1 stands for all the addresses outside the flash.
Pop == IF stack = <<>>
       THEN pc' \in 0..(FlashEnd + 1) /\ UNCHANGED stack
       ELSE pc' = stack[Len(stack)] /\ stack' = SubSeq(stack, 1, Len(stack) - 1)

ExecReti ==
  /\ Completes("reti")
  /\ Pop
  /\ sreg_i' = TRUE
  /\ exec_main' = TRUE
  /\ read_from_mpm' = FALSE
  /\ CountInstr /\ owed' = TRUE
  /\ UNCHANGED <<conf, rc, state, irq, raised, enabled, clock>>

\* BREAK stops the MCU at itself; the word to be executed on resuming is in mpm.
ExecBreak ==
  /\ Completes("break")
  /\ state' = "AVR_STOPPED"
  /\ read_from_mpm' = TRUE
  /\ spent' = 0
  /\ UNCHANGED <<conf, rc, pc, sreg_i, stack, intr, clock, owed, stepped,
                 fresh>>

\* EICALL, EIJMP, SPM on a device that has none.
ExecIllegal ==
  /\ Completes("illegal")
  /\ state' = "AVR_MSIM_TESTFAIL"
  /\ read_from_mpm' = FALSE
  /\ spent' = 0
  /\ UNCHANGED <<conf, rc, pc, sreg_i, stack, intr, clock, owed, stepped,
                 fresh>>

Exec ==
  \/ ExecIdle \/ ExecUnknown \/ ExecSkipCycle
  \/ ExecSeq \/ ExecJmp \/ ExecSetI \/ ExecEnable
  \/ ExecSbisSkips \/ ExecSbisFalls
  \/ ExecReti \/ ExecBreak \/ ExecIllegal

(***************************************************************************)
(* pass_irqs moves every flag that is raised and enabled into irq, active  *)
(* MCU or not; handle_irq then serves the lowest vector requested.         *)
(***************************************************************************)
Latched == raised \cap enabled
Pending == irq \cup Latched

\* Mutant: the search runs from the lowest priority up.
LastRequested(S)  == CHOOSE v \in S : \A w \in S : w <= v
FirstRequested(S) == CHOOSE v \in S : \A w \in S : v <= w

\* Mutant: exec_main is not consulted.
MayServeAfterReti == sreg_i /\ ic_left = 0 /\ IsActive
MayServe          == sreg_i /\ ic_left = 0 /\ ~exec_main /\ IsActive

\* Mutant: trap_at_isr is not looked at.
NeverTrap  == UNCHANGED state
TrapAtIsr  == state' = IF trap_at_isr /\ state = "AVR_RUNNING"
                       THEN "AVR_MSIM_STEP" ELSE state

ClearExecMain == exec_main' = (exec_main /\ ic_left > 0)

ServeIrq ==
  /\ phase = "irq" /\ phase' = "finish"
  /\ MayServe /\ Pending # {}
  /\ LET v == FirstRequested(Pending)
     IN  irq' = Pending \ {v} /\ pc' = IVT * v
  /\ raised' = raised \ Latched
  /\ sreg_i' = FALSE
  /\ Push(pc)
  /\ TrapAtIsr
  /\ ClearExecMain
  /\ fresh' = TRUE
  /\ UNCHANGED <<conf, rc, mci, ic_left, read_from_mpm, enabled, clock, spent,
                 owed, stepped>>

PassIrqs ==
  /\ phase = "irq" /\ phase' = "finish"
  /\ ~(MayServe /\ Pending # {})
  /\ irq' = Pending
  /\ raised' = raised \ Latched
  /\ ClearExecMain
  /\ UNCHANGED <<conf, rc, state, cpu, sreg_i, stack, enabled, clock, hist>>

(***************************************************************************)
(* The cycle is counted and a step that is complete halts the MCU.         *)
(***************************************************************************)

\* Mutant: the counter is compared with its limit after the increment.
CountTickPastMax == tick' = tick + 1 /\ tovf' = (tick + 1 > TicksMax)
CountTick == IF tick < TicksMax
             THEN tick' = tick + 1 /\ UNCHANGED tovf
             ELSE tovf' = TRUE /\ UNCHANGED tick

\* Mutant: a step request is never completed.
StepGoesOn == UNCHANGED state
HaltAfterStep ==
  state' = IF ic_left = 0 /\ state = "AVR_MSIM_STEP" THEN "AVR_STOPPED" ELSE state

Finish ==
  /\ phase = "finish" /\ phase' = "check"
  /\ IF IsActive THEN CountTick ELSE UNCHANGED clock
  /\ HaltAfterStep
  /\ fresh' = (fresh /\ state' # "AVR_STOPPED")
  /\ UNCHANGED <<conf, rc, cpu, sreg_i, stack, intr, spent, owed, stepped>>

\* MSIM_AVR_Simulate has returned.
Done == phase = "done" /\ UNCHANGED vars

(***************************************************************************)
(* The debugger may stay silent for ever, everything else is one thread    *)
(* that runs on.                                                           *)
(***************************************************************************)
Loop == \/ Check \/ RspSkip \/ TickPeripherals \/ CheckScope
        \/ Exec \/ ServeIrq \/ PassIrqs \/ Finish
Debugger == RspResume \/ RspKill \/ RspRestart \/ RspFail
            \/ RspWriteReg \/ RspWriteData \/ RspWriteFlash
Next == Loop \/ Debugger \/ Done

Spec     == Init /\ [][Next]_vars
FairSpec == Spec /\ WF_vars(Loop)

-----------------------------------------------------------------------------
\* Every variable keeps the range its C type and its writers give it.
LoopTypeOK == /\ pm \in Programs /\ mpm \in MatchMemories
              /\ ft \in BOOLEAN /\ trap_at_isr \in BOOLEAN
              /\ phase \in Phases /\ rc \in {0, 1} /\ state \in States
CpuTypeOK  == /\ pc \in Nat /\ mci \in BOOLEAN /\ ic_left \in 0..4
              /\ read_from_mpm \in BOOLEAN /\ sreg_i \in BOOLEAN
              /\ stack \in Seq(Nat)
IntrTypeOK == /\ irq \subseteq Vectors /\ raised \subseteq TimerVectors
              /\ enabled \subseteq TimerVectors /\ exec_main \in BOOLEAN
              /\ tick \in 0..TicksMax /\ tovf \in BOOLEAN
HistTypeOK == /\ spent \in Nat /\ owed \in BOOLEAN
              /\ stepped \in 0..2 /\ fresh \in BOOLEAN
TypeOK == LoopTypeOK /\ CpuTypeOK /\ IntrTypeOK /\ HistTypeOK

\* ic_left = 0 is what MSIM_AVR_SimStep tests before it terminates, polls the
\* debugger, serves an interrupt or completes a step: it means that no
\* instruction is half done, whatever the debugger and the models did.
InstructionBoundary == mci = (ic_left > 0)

\* PM(pc) is read by MSIM_AVR_Step only at words of the flash, although pc may
\* come from a debugger, the stack or the vector table and is not tested there.
FetchInFlash == phase = "exec" => pc <= FlashEnd /\ pc + 2 < PmSize

\* An instruction of n + 1 cycles has its effect in the cycle n + 1 after its
\* start, also when the MCU was stopped or an interrupt latched in between.
CompletesOnTime ==
  phase = "exec" /\ Executing /\ phase' = "irq" /\ spent' = 0
    => spent = Fetched.cyc \/ (Fetched.op = "sbis" /\ spent = 0)
CycleExact == [][CompletesOnTime]_vars

\* After RETI an instruction of the interrupted program completes before
\* another interrupt is served (avr_decoder.c: "Execute one more instruction
\* from the main program after an exit from interrupt service routine").
ServesWhenNotOwed == phase = "irq" /\ pc' # pc => ~owed
MainBetweenIsrs == [][ServesWhenNotOwed]_vars

\* A step request (or a trap) executes at most one instruction of the program:
\* the MCU is halted before the next one.
StepExecutesOne == stepped <= 1

\* With trap_at_isr set, an MCU that has entered an interrupt service routine is
\* stopped before it executes the first instruction of the routine.
TrapStopsAtIsr == trap_at_isr => ~(fresh /\ phase = "exec")

\* A request to terminate, by the debugger or by a model in the middle of an
\* instruction, ends the simulation: the loop drains the instruction first.
StopTerminates == state = "AVR_MSIM_STOP" ~> phase = "done"

\* The request of the highest priority is never starved by the others, as long
\* as the firmware keeps coming back to where interrupts may be served.
HighestServed ==
  \A v \in Vectors :
    (\A w \in Vectors : v <= w) /\ ([]<>(phase = "irq" /\ MayServe))
      => (v \in irq ~> v \notin irq)

-----------------------------------------------------------------------------
\* mpm holds the words that matchpoints replaced (sim.h: "Match points memory"),
\* so an instruction is read from it only where a BREAK stopped the MCU.
MatchpointFetch ==
  phase = "exec" /\ Executing /\ read_from_mpm => pm[pc].op = "break"

=============================================================================
