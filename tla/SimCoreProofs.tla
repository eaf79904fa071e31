--------------------------- MODULE SimCoreProofs ----------------------------
(***************************************************************************)
(* Theorems about the simulation loop, for every program, flash size,      *)
(* vector table, set of interrupts, start mode and behaviour of debugger   *)
(* and Lua models.                                                         *)
(*                                                                         *)
(* TypeOK is not inductive alone: the word fetched is an instruction only  *)
(* because CheckScope ran before, and ic_left stays in range only because  *)
(* mci and ic_left agree.  IInv is the conjunction that is inductive,      *)
(* whether or not I/O bits are volatile.                                   *)
(*                                                                         *)
(* The second half is about what happens between two instructions: how     *)
(* long an instruction takes, what a step request executes and when an     *)
(* interrupt may be served.  None of these properties is inductive.  Each  *)
(* gets an account, a formula that ties the history to the variables of    *)
(* the program at every phase of the cycle.  CycleAccount and StepAccount  *)
(* need stable I/O bits, the other two do not.                             *)
(***************************************************************************)
EXTENDS SimCore, WellFoundedInduction, TLAPS

IInv == TypeOK /\ InstructionBoundary /\ FetchInFlash

-----------------------------------------------------------------------------
\* What the decoder is given: a word that nobody wrote, or one of the program.
LEMMA FetchedInstr ==
  ASSUME IInv, phase = "exec"
  PROVE  /\ Fetched \in Instr
         /\ Fetched.op \in SingleCycle => Fetched.cyc = 0
         /\ Fetched.op \in {"reti", "sbis"} => Fetched.cyc > 0
<1>1. \A i \in {Nop, NoInstr} :
        i \in Instr /\ i.op \in {"seq", "unknown"} /\ i.cyc = 0
  BY DEF Nop, NoInstr, Instr, Ops
<1>2. CASE read_from_mpm
  <2>1. pc \in 0..FlashEnd
    BY SizesAssumption DEF IInv, TypeOK, CpuTypeOK, FetchInFlash
  <2>2. mpm \in MatchMemories /\ Fetched = mpm[pc]
    BY <1>2 DEF IInv, TypeOK, LoopTypeOK, Fetched
  <2>3. Fetched \in {Nop, NoInstr}
    BY <2>1, <2>2, MatchMemoriesAssumption
  <2>. QED
    BY <1>1, <2>3 DEF SingleCycle
<1>3. CASE ~read_from_mpm
  <2>1. pc \in 0..FlashEnd
    BY <1>3, SizesAssumption DEF IInv, TypeOK, CpuTypeOK, FetchInFlash
  <2>2. pm \in Programs /\ Fetched = pm[pc]
    BY <1>3 DEF IInv, TypeOK, LoopTypeOK, Fetched
  <2>3. pm[pc] \in Instr
    BY <2>1, <2>2, ProgramsAssumption
  <2>. QED
    BY <2>1, <2>2, <2>3, ProgramsAssumption
<1>. QED
  BY <1>2, <1>3 DEF IInv, TypeOK, CpuTypeOK

\* handle_irq finds a vector whenever one is requested.
LEMMA FirstRequestedExists ==
  ASSUME NEW S, S \subseteq Vectors, S # {}
  PROVE  FirstRequested(S) \in S /\ \A w \in S : FirstRequested(S) <= w
<1>1. S \subseteq Nat
  BY VectorsAssumption DEF Vectors
<1>. DEFINE R == OpToRel(<, Nat)
<1>2. PICK n \in S : \A m \in S : <<m, n>> \notin R
  <2>1. IsWellFoundedOn(R, Nat)
    BY NatLessThanWellFounded
  <2>. HIDE DEF R
  <2>. QED
    BY <1>1, <2>1, WFMin
<1>3. \A m \in S : n <= m
  <2>. SUFFICES ASSUME NEW m \in S, m < n PROVE FALSE
    BY <1>1
  <2>1. <<m, n>> \in R
    BY <1>1 DEF OpToRel
  <2>. QED
    BY <1>2, <2>1
<1>. QED
  BY <1>3 DEF FirstRequested

\* A vector address is a natural number.
LEMMA VectorAddress == ASSUME NEW v \in Vectors PROVE IVT * v \in Nat
  BY VectorsAssumption, SizesAssumption DEF Vectors

LEMMA InitIInv == Init => IInv
<1>. SUFFICES ASSUME Init PROVE IInv
  OBVIOUS
<1>. USE SizesAssumption DEF Init
<1>1. LoopTypeOK
  BY ModesAssumption, MatchMemoriesAssumption DEF LoopTypeOK, Phases, States
<1>2. \A b \in {mci, read_from_mpm, sreg_i, exec_main, tovf, owed, fresh} :
        b \in BOOLEAN /\ ~b
  OBVIOUS
<1>3. pc \in Nat /\ ic_left = 0 /\ tick = 0 /\ spent = 0 /\ stepped = 0
  OBVIOUS
<1>4. stack \in Seq(Nat) /\ irq = {} /\ raised = {} /\ enabled = {}
  OBVIOUS
<1>5. phase = "check"
  OBVIOUS
<1>6. CpuTypeOK /\ IntrTypeOK /\ HistTypeOK
  <2>. USE DEF CpuTypeOK, IntrTypeOK, HistTypeOK
  <2>. HIDE DEF Init
  <2>. QED
    BY <1>2, <1>3, <1>4
<1>7. InstructionBoundary /\ FetchInFlash
  <2>. HIDE DEF Init
  <2>. QED
    BY <1>2, <1>3, <1>5 DEF InstructionBoundary, FetchInFlash
<1>. QED
  BY <1>1, <1>6, <1>7 DEF IInv, TypeOK

\* An instruction that completes leaves mci and ic_left agreeing.
LEMMA CompletesOK ==
  ASSUME IInv, NEW op, Completes(op)
  PROVE  /\ mci' \in BOOLEAN /\ ic_left' \in 0..4 /\ mci' = (ic_left' > 0)
         /\ phase' = "irq"
<1>1. CASE Fetched.cyc = 0
  BY <1>1 DEF Completes, IInv, TypeOK, CpuTypeOK, InstructionBoundary
<1>2. CASE Fetched.cyc # 0
  <2>1. mci' \in BOOLEAN /\ ~mci'
    BY <1>2 DEF Completes
  <2>2. ic_left' = 0 /\ phase' = "irq"
    BY <1>2 DEF Completes
  <2>. QED
    BY <2>1, <2>2
<1>. QED
  BY <1>1, <1>2

\* The bookkeeping of CountInstr stays in its range.
LEMMA CountInstrOK ==
  ASSUME IInv, CountInstr
  PROVE  spent' \in Nat /\ stepped' \in 0..2 /\ fresh' \in BOOLEAN
<1>1. stepped \in 0..2
  BY DEF IInv, TypeOK, HistTypeOK
<1>2. stepped' \in 0..2
  BY <1>1 DEF CountInstr, Min2
<1>. QED
  BY <1>2 DEF CountInstr

\* RETI loads a word address and leaves a stack, also with nothing pushed.
LEMMA TopOfStack ==
  ASSUME NEW s \in Seq(Nat), s # <<>>
  PROVE  s[Len(s)] \in Nat /\ SubSeq(s, 1, Len(s) - 1) \in Seq(Nat)
<1>1. Len(s) \in Nat /\ Len(s) > 0
  OBVIOUS
<1>2. s[Len(s)] \in Nat
  BY <1>1
<1>3. SubSeq(s, 1, Len(s) - 1) \in Seq(Nat)
  BY <1>1
<1>. QED
  BY <1>2, <1>3

LEMMA PopOK == ASSUME IInv, Pop PROVE pc' \in Nat /\ stack' \in Seq(Nat)
<1>1. stack \in Seq(Nat)
  BY DEF IInv, TypeOK, CpuTypeOK
<1>2. CASE stack = <<>>
  <2>1. pc' \in 0..(FlashEnd + 1) /\ stack' = stack
    BY <1>2 DEF Pop
  <2>. QED
    BY <1>1, <2>1, SizesAssumption
<1>3. CASE stack # <<>>
  <2>1. /\ pc' = stack[Len(stack)]
        /\ stack' = SubSeq(stack, 1, Len(stack) - 1)
    BY <1>3 DEF Pop
  <2>. QED
    BY <1>1, <1>3, <2>1, TopOfStack
<1>. QED
  BY <1>2, <1>3

\* What a debugger leaves of the stack is a stack.
LEMMA StackOK == ASSUME IInv, StackRewritten PROVE stack' \in Seq(Nat)
<1>1. stack \in Seq(Nat) /\ <<>> \in Seq(Nat)
  BY DEF IInv, TypeOK, CpuTypeOK
<1>. QED
  BY <1>1 DEF StackRewritten

\* Every step of the loop and of the debugger preserves the invariant.
LEMMA NextIInv == IInv /\ [Next]_vars => IInv'
<1>. SUFFICES ASSUME IInv, [Next]_vars PROVE IInv'
  OBVIOUS
<1>. USE SizesAssumption, VectorsAssumption, ModesAssumption
<1>. USE DEF IInv, TypeOK, LoopTypeOK, CpuTypeOK, IntrTypeOK, HistTypeOK,
             InstructionBoundary, FetchInFlash, Phases, States
<1>1. CASE Check
  BY <1>1 DEF Check, Terminate, conf, cpu, intr, clock, hist
<1>2. CASE RspSkip
  BY <1>2 DEF RspSkip, conf, cpu, intr, clock, hist
<1>3. CASE RspResume
  <2>1. LoopTypeOK'
    BY <1>3 DEF RspResume, RspServed, Polls, conf, intr, clock, LoopTypeOK
  <2>2. CpuTypeOK' /\ InstructionBoundary'
    BY <1>3
    DEF RspResume, RspServed, Polls, conf, intr, clock, CpuTypeOK,
        InstructionBoundary
  <2>3. IntrTypeOK'
    BY <1>3 DEF RspResume, RspServed, Polls, conf, intr, clock, IntrTypeOK
  <2>4. HistTypeOK'
    BY <1>3 DEF RspResume, RspServed, Polls, conf, intr, clock, HistTypeOK
  <2>5. FetchInFlash'
    BY <1>3 DEF RspResume, RspServed, Polls, conf, intr, clock, FetchInFlash
  <2>. QED
    BY <2>1, <2>2, <2>3, <2>4, <2>5
<1>4. CASE RspKill
  BY <1>4 DEF RspKill, RspServed, conf, cpu, intr, clock, hist
<1>5. CASE RspRestart
  BY <1>5 DEF RspRestart, RspServed, conf, intr, clock, hist
<1>6. CASE RspWriteReg
  <2>1. stack' \in Seq(Nat)
    BY <1>6, StackOK DEF RspWriteReg
  <2>2. pc' \in Nat /\ sreg_i' \in BOOLEAN
    BY <1>6 DEF RspWriteReg
  <2>3. phase' = "tick" /\ UNCHANGED <<mci, ic_left, read_from_mpm>>
    BY <1>6 DEF RspWriteReg, RspServed
  <2>4. LoopTypeOK' /\ IntrTypeOK' /\ HistTypeOK'
    BY <1>6 DEF RspWriteReg, RspServed, conf, intr, clock, hist
  <2>5. CpuTypeOK' /\ InstructionBoundary' /\ FetchInFlash'
    BY <2>1, <2>2, <2>3
  <2>. QED
    BY <2>4, <2>5
<1>7. CASE RspFail
  BY <1>7 DEF RspFail, Terminate, conf, cpu, intr, clock, hist
<1>8. CASE TickPeripherals
  <2>a. /\ state' \in States /\ sreg_i' \in BOOLEAN /\ stack' \in Seq(Nat)
        /\ enabled' \subseteq TimerVectors /\ raised' \subseteq TimerVectors
    <3>1. CASE IsActive
      <4>1. LuaModelsWrite
        BY <1>8, <3>1 DEF TickPeripherals
      <4>2. stack' \in Seq(Nat)
        BY <4>1, StackOK DEF LuaModelsWrite
      <4>3. state' \in States
        BY <4>1, ModesAssumption DEF LuaModelsWrite, LoopTypeOK
      <4>. QED
        BY <4>1, <4>2, <4>3 DEF LuaModelsWrite
    <3>2. CASE ~IsActive
      BY <1>8, <3>2 DEF TickPeripherals, LoopTypeOK, CpuTypeOK, IntrTypeOK
    <3>. QED
      BY <3>1, <3>2
  <2>b. irq' \subseteq Vectors
    BY <1>8 DEF TickPeripherals, Vectors, IntrTypeOK
  <2>1. LoopTypeOK'
    BY <1>8, <2>a DEF TickPeripherals, conf, LoopTypeOK, Phases
  <2>2. CpuTypeOK' /\ InstructionBoundary'
    BY <1>8, <2>a DEF TickPeripherals, cpu, CpuTypeOK, InstructionBoundary
  <2>3. IntrTypeOK'
    BY <1>8, <2>a, <2>b DEF TickPeripherals, clock, IntrTypeOK
  <2>4. HistTypeOK'
    BY <1>8 DEF TickPeripherals, Vectors, conf, cpu, clock, hist, HistTypeOK
  <2>5. FetchInFlash'
    BY <1>8 DEF TickPeripherals, Vectors, conf, cpu, clock, hist, FetchInFlash
  <2>. QED
    BY <2>1, <2>2, <2>3, <2>4, <2>5
<1>9. CASE CheckScope
  BY <1>9 DEF CheckScope, OutOfScope, Terminate, conf, cpu, intr, clock, hist
<1>10. CASE ExecIdle
  BY <1>10 DEF ExecIdle, conf, cpu, intr, clock, hist
<1>11. CASE ExecUnknown
  BY <1>11 DEF ExecUnknown, Terminate, conf, intr, clock, hist
<1>12. CASE ExecSkipCycle
  <2>1. Fetched.cyc \in 0..4
    BY <1>12, FetchedInstr DEF ExecSkipCycle, Instr
  <2>2. mci' /\ mci' \in BOOLEAN
    BY <1>12, <2>1 DEF ExecSkipCycle, FirstSkip
  <2>3. ic_left' \in 1..4
    BY <1>12, <2>1 DEF ExecSkipCycle, FirstSkip, LastCycle
  <2>4. read_from_mpm' \in BOOLEAN /\ UNCHANGED <<pc, sreg_i, stack>>
    BY <1>12 DEF ExecSkipCycle
  <2>5. LoopTypeOK'
    BY <1>12 DEF ExecSkipCycle, conf, intr, clock, LoopTypeOK
  <2>6. CpuTypeOK' /\ InstructionBoundary'
    <3>1. CpuTypeOK'
      BY <2>2, <2>3, <2>4 DEF CpuTypeOK
    <3>2. mci' = TRUE /\ ic_left' > 0
      BY <2>2, <2>3
    <3>3. InstructionBoundary'
      BY <3>2, Zenon DEF InstructionBoundary
    <3>. QED
      BY <3>1, <3>3
  <2>7. IntrTypeOK'
    BY <1>12 DEF ExecSkipCycle, conf, intr, clock, IntrTypeOK
  <2>8. HistTypeOK'
    BY <1>12 DEF ExecSkipCycle, conf, intr, clock, HistTypeOK
  <2>9. FetchInFlash'
    BY <1>12 DEF ExecSkipCycle, conf, intr, clock, FetchInFlash
  <2>. QED
    BY <2>5, <2>6, <2>7, <2>8, <2>9
<1>13. CASE ExecSeq
  <2>1. pc' \in Nat
    BY <1>13 DEF ExecSeq
  <2>2. LoopTypeOK'
    BY <1>13, CompletesOK DEF ExecSeq, conf, intr, clock, LoopTypeOK
  <2>3. CpuTypeOK' /\ InstructionBoundary'
    BY <1>13, <2>1, CompletesOK
    DEF ExecSeq, conf, intr, clock, CpuTypeOK, InstructionBoundary
  <2>4. IntrTypeOK'
    BY <1>13 DEF ExecSeq, conf, intr, clock, IntrTypeOK
  <2>5. HistTypeOK'
    BY <1>13, CountInstrOK DEF ExecSeq, conf, intr, clock, HistTypeOK
  <2>6. FetchInFlash'
    BY <1>13, CompletesOK DEF ExecSeq, conf, intr, clock, FetchInFlash
  <2>. QED
    BY <2>2, <2>3, <2>4, <2>5, <2>6
<1>14. CASE ExecJmp
  <2>1. Fetched.to \in Nat
    BY <1>14, FetchedInstr DEF ExecJmp, Completes, Instr
  <2>2. LoopTypeOK'
    BY <1>14, CompletesOK DEF ExecJmp, conf, intr, clock, LoopTypeOK
  <2>3. CpuTypeOK' /\ InstructionBoundary'
    BY <1>14, <2>1, CompletesOK
    DEF ExecJmp, conf, intr, clock, CpuTypeOK, InstructionBoundary
  <2>4. IntrTypeOK'
    BY <1>14 DEF ExecJmp, conf, intr, clock, IntrTypeOK
  <2>5. HistTypeOK'
    BY <1>14, CountInstrOK DEF ExecJmp, conf, intr, clock, HistTypeOK
  <2>6. FetchInFlash'
    BY <1>14, CompletesOK DEF ExecJmp, conf, intr, clock, FetchInFlash
  <2>. QED
    BY <2>2, <2>3, <2>4, <2>5, <2>6
<1>15. CASE ExecSetI
  <2>1. pc' \in Nat
    BY <1>15 DEF ExecSetI
  <2>2. LoopTypeOK'
    BY <1>15, CompletesOK DEF ExecSetI, conf, intr, clock, LoopTypeOK
  <2>3. CpuTypeOK' /\ InstructionBoundary'
    BY <1>15, <2>1, CompletesOK
    DEF ExecSetI, conf, intr, clock, CpuTypeOK, InstructionBoundary
  <2>4. IntrTypeOK'
    BY <1>15 DEF ExecSetI, conf, intr, clock, IntrTypeOK
  <2>5. HistTypeOK'
    BY <1>15, CountInstrOK DEF ExecSetI, conf, intr, clock, HistTypeOK
  <2>6. FetchInFlash'
    BY <1>15, CompletesOK DEF ExecSetI, conf, intr, clock, FetchInFlash
  <2>. QED
    BY <2>2, <2>3, <2>4, <2>5, <2>6
<1>16. CASE ExecEnable
  <2>1. pc' \in Nat
    BY <1>16 DEF ExecEnable
  <2>2. Fetched.en \subseteq TimerVectors
    BY <1>16, FetchedInstr DEF ExecEnable, Completes, Instr
  <2>3. LoopTypeOK'
    BY <1>16, CompletesOK DEF ExecEnable, conf, clock, LoopTypeOK
  <2>4. CpuTypeOK' /\ InstructionBoundary'
    BY <1>16, <2>1, CompletesOK
    DEF ExecEnable, conf, clock, CpuTypeOK, InstructionBoundary
  <2>5. IntrTypeOK'
    BY <1>16, <2>2 DEF ExecEnable, conf, clock, IntrTypeOK
  <2>6. HistTypeOK'
    BY <1>16, CountInstrOK DEF ExecEnable, conf, clock, HistTypeOK
  <2>7. FetchInFlash'
    BY <1>16, CompletesOK DEF ExecEnable, conf, clock, FetchInFlash
  <2>. QED
    BY <2>3, <2>4, <2>5, <2>6, <2>7
<1>17. CASE ExecSbisSkips
  <2>1. pc' \in Nat
    BY <1>17 DEF ExecSbisSkips
  <2>2. LoopTypeOK'
    BY <1>17, CompletesOK DEF ExecSbisSkips, conf, intr, clock, LoopTypeOK
  <2>3. CpuTypeOK' /\ InstructionBoundary'
    BY <1>17, <2>1, CompletesOK
    DEF ExecSbisSkips, conf, intr, clock, CpuTypeOK, InstructionBoundary
  <2>4. IntrTypeOK'
    BY <1>17 DEF ExecSbisSkips, conf, intr, clock, IntrTypeOK
  <2>5. HistTypeOK'
    BY <1>17, CountInstrOK DEF ExecSbisSkips, conf, intr, clock, HistTypeOK
  <2>6. FetchInFlash'
    BY <1>17, CompletesOK DEF ExecSbisSkips, conf, intr, clock, FetchInFlash
  <2>. QED
    BY <2>2, <2>3, <2>4, <2>5, <2>6
<1>18. CASE ExecSbisFalls
  <2>1. pc' \in Nat
    BY <1>18 DEF ExecSbisFalls
  <2>2. LoopTypeOK'
    BY <1>18 DEF ExecSbisFalls, conf, intr, clock, LoopTypeOK
  <2>3. CpuTypeOK' /\ InstructionBoundary'
    BY <1>18, <2>1
    DEF ExecSbisFalls, conf, intr, clock, CpuTypeOK, InstructionBoundary
  <2>4. IntrTypeOK'
    BY <1>18 DEF ExecSbisFalls, conf, intr, clock, IntrTypeOK
  <2>5. HistTypeOK'
    BY <1>18, CountInstrOK DEF ExecSbisFalls, conf, intr, clock, HistTypeOK
  <2>6. FetchInFlash'
    BY <1>18 DEF ExecSbisFalls, conf, intr, clock, FetchInFlash
  <2>. QED
    BY <2>2, <2>3, <2>4, <2>5, <2>6
<1>19. CASE ExecReti
  <2>1. pc' \in Nat /\ stack' \in Seq(Nat)
    BY <1>19, PopOK DEF ExecReti
  <2>2. LoopTypeOK'
    BY <1>19, CompletesOK DEF ExecReti, conf, clock, LoopTypeOK
  <2>3. CpuTypeOK' /\ InstructionBoundary'
    BY <1>19, <2>1, CompletesOK
    DEF ExecReti, conf, clock, CpuTypeOK, InstructionBoundary
  <2>4. IntrTypeOK'
    BY <1>19 DEF ExecReti, conf, clock, IntrTypeOK
  <2>5. HistTypeOK'
    BY <1>19, CountInstrOK DEF ExecReti, conf, clock, HistTypeOK
  <2>6. FetchInFlash'
    BY <1>19, CompletesOK DEF ExecReti, conf, clock, FetchInFlash
  <2>. QED
    BY <2>2, <2>3, <2>4, <2>5, <2>6
<1>20. CASE ExecBreak
  <2>1. LoopTypeOK'
    BY <1>20, CompletesOK DEF ExecBreak, conf, intr, clock, LoopTypeOK
  <2>2. CpuTypeOK' /\ InstructionBoundary'
    BY <1>20, CompletesOK
    DEF ExecBreak, conf, intr, clock, CpuTypeOK, InstructionBoundary
  <2>3. IntrTypeOK'
    BY <1>20 DEF ExecBreak, conf, intr, clock, IntrTypeOK
  <2>4. HistTypeOK'
    BY <1>20 DEF ExecBreak, conf, intr, clock, HistTypeOK
  <2>5. FetchInFlash'
    BY <1>20, CompletesOK DEF ExecBreak, conf, intr, clock, FetchInFlash
  <2>. QED
    BY <2>1, <2>2, <2>3, <2>4, <2>5
<1>21. CASE ExecIllegal
  <2>1. LoopTypeOK'
    BY <1>21, CompletesOK DEF ExecIllegal, conf, intr, clock, LoopTypeOK
  <2>2. CpuTypeOK' /\ InstructionBoundary'
    BY <1>21, CompletesOK
    DEF ExecIllegal, conf, intr, clock, CpuTypeOK, InstructionBoundary
  <2>3. IntrTypeOK'
    BY <1>21 DEF ExecIllegal, conf, intr, clock, IntrTypeOK
  <2>4. HistTypeOK'
    BY <1>21 DEF ExecIllegal, conf, intr, clock, HistTypeOK
  <2>5. FetchInFlash'
    BY <1>21, CompletesOK DEF ExecIllegal, conf, intr, clock, FetchInFlash
  <2>. QED
    BY <2>1, <2>2, <2>3, <2>4, <2>5
<1>22. CASE ServeIrq
  <2>1. Pending \subseteq Vectors /\ Pending # {}
    BY <1>22 DEF ServeIrq, Pending, Latched, Vectors
  <2>2. pc' \in Nat
    BY <1>22, <2>1, FirstRequestedExists, VectorAddress DEF ServeIrq
  <2>3. stack' \in Seq(Nat)
    BY <1>22 DEF ServeIrq, Push
  <2>4. irq' \subseteq Vectors /\ raised' \subseteq TimerVectors
    BY <1>22, <2>1 DEF ServeIrq
  <2>. QED
    BY <1>22, <2>2, <2>3, <2>4
    DEF ServeIrq, TrapAtIsr, ClearExecMain, conf, clock
<1>23. CASE PassIrqs
  BY <1>23
  DEF PassIrqs, Pending, Latched, Vectors, ClearExecMain, conf, cpu, clock,
      hist
<1>24. CASE Finish
  <2>1. tick' \in 0..TicksMax
    BY <1>24 DEF Finish, CountTick, clock
  <2>2. tovf' \in BOOLEAN
    BY <1>24 DEF Finish, CountTick, clock
  <2>3. LoopTypeOK'
    BY <1>24 DEF Finish, HaltAfterStep, conf, cpu, intr, clock, LoopTypeOK
  <2>4. CpuTypeOK' /\ InstructionBoundary'
    BY <1>24
    DEF Finish, HaltAfterStep, conf, cpu, intr, clock, CpuTypeOK,
        InstructionBoundary
  <2>5. IntrTypeOK'
    BY <1>24, <2>1, <2>2
    DEF Finish, HaltAfterStep, conf, cpu, intr, clock, IntrTypeOK
  <2>6. HistTypeOK'
    BY <1>24 DEF Finish, HaltAfterStep, conf, cpu, intr, clock, HistTypeOK
  <2>7. FetchInFlash'
    BY <1>24 DEF Finish, HaltAfterStep, conf, cpu, intr, clock, FetchInFlash
  <2>. QED
    BY <2>3, <2>4, <2>5, <2>6, <2>7
<1>25. CASE UNCHANGED vars
  BY <1>25 DEF vars, conf, cpu, intr, clock, hist
<1>26. CASE RspWriteData
  <2>1. stack' \in Seq(Nat)
    BY <1>26, StackOK DEF RspWriteData
  <2>2. raised' \subseteq TimerVectors /\ enabled' \subseteq TimerVectors
    BY <1>26 DEF RspWriteData
  <2>3. /\ phase' = "tick"
        /\ UNCHANGED <<conf, rc, state, cpu, sreg_i, irq, exec_main, clock, hist>>
    BY <1>26 DEF RspWriteData, RspServed
  <2>4. LoopTypeOK' /\ InstructionBoundary' /\ FetchInFlash' /\ HistTypeOK'
    BY <2>3 DEF conf, cpu, hist
  <2>5. CpuTypeOK'
    BY <2>1, <2>3 DEF cpu
  <2>6. IntrTypeOK'
    BY <2>2, <2>3 DEF clock
  <2>. QED
    BY <2>4, <2>5, <2>6
<1>27. CASE RspWriteFlash
  BY <1>27, MatchMemoriesAssumption
  DEF RspWriteFlash, RspServed, cpu, intr, clock, hist
<1>. QED
  BY <1>1, <1>2, <1>3, <1>4, <1>5, <1>6, <1>7, <1>8, <1>9, <1>10, <1>11,
     <1>12, <1>13, <1>14, <1>15, <1>16, <1>17, <1>18, <1>19, <1>20, <1>21,
     <1>22, <1>23, <1>24, <1>25, <1>26, <1>27
  DEF Next, Loop, Debugger, Exec, Done

\* The parts of the invariant hold in every state the loop reaches: all
\* variables keep their ranges, ...
THEOREM TypeCorrect == Spec => []TypeOK
<1>1. IInv => TypeOK
  BY DEF IInv
<1>. QED
  BY InitIInv, NextIInv, <1>1, PTL DEF Spec

\* ... every test of ic_left = 0 is a test for an instruction boundary, ...
THEOREM BoundaryCorrect == Spec => []InstructionBoundary
<1>1. IInv => InstructionBoundary
  BY DEF IInv
<1>. QED
  BY InitIInv, NextIInv, <1>1, PTL DEF Spec

\* ... and no word outside the flash is fetched.
THEOREM FetchCorrect == Spec => []FetchInFlash
<1>1. IInv => FetchInFlash
  BY DEF IInv
<1>. QED
  BY InitIInv, NextIInv, <1>1, PTL DEF Spec

-----------------------------------------------------------------------------
\* The cycles spent and left add up to the length of the instruction.
CycleAccount ==
  IF mci
  THEN /\ pc <= FlashEnd /\ ~read_from_mpm
       /\ pm[pc].cyc > 0
       /\ spent + ic_left = pm[pc].cyc + 1
  ELSE spent = 0

\* One instruction has been executed since the step request: the MCU is halted
\* or about to be.
StepAccount ==
  /\ stepped <= 1
  /\ stepped = 1 =>
       /\ ic_left = 0
       /\ \/ state \in {"AVR_STOPPED", "AVR_MSIM_STOP"}
          \/ state = "AVR_MSIM_STEP" /\ phase \in {"irq", "finish", "done"}

\* A routine entered with trap_at_isr set is halted by the Finish that follows.
TrapAccount ==
  trap_at_isr /\ fresh =>
    phase = "finish" /\ ic_left = 0 /\ state = "AVR_MSIM_STEP"

\* An owed instruction keeps MayServe false when interrupts are looked at.
OwedAccount == phase = "irq" /\ owed => exec_main \/ ~IsActive \/ ic_left > 0

-----------------------------------------------------------------------------
\* mci and ic_left say the same thing.
LEMMA BoundaryFacts ==
  ASSUME IInv
  PROVE  (ic_left = 0 => ~mci) /\ (~mci => ic_left = 0) /\ (mci => ic_left > 0)
<1>1. ic_left \in 0..4 /\ mci = (ic_left > 0)
  BY DEF IInv, TypeOK, CpuTypeOK, InstructionBoundary
<1>2. ic_left > 0 <=> mci
  BY <1>1, Zenon
<1>. QED
  BY <1>1, <1>2

\* An instruction completes when its account is settled: nothing is left to skip.
LEMMA CompletesAccount ==
  ASSUME IInv, CycleAccount, NEW op, Completes(op)
  PROVE  /\ mci' \in BOOLEAN /\ ~mci'
         /\ ic_left' = 0
         /\ spent = Fetched.cyc
<1>1. phase = "exec" /\ Executing
  BY DEF Completes
<1>2. Fetched.cyc \in 0..4
  BY <1>1, FetchedInstr DEF Instr
<1>3. spent \in Nat /\ ic_left \in 0..4 /\ mci \in BOOLEAN
  BY DEF IInv, TypeOK, CpuTypeOK, HistTypeOK
<1>4. (mci => ic_left > 0) /\ (~mci => ic_left = 0)
  BY <1>3, BoundaryFacts
<1>5. mci => Fetched = pm[pc]
  BY DEF CycleAccount, Fetched
<1>6. CASE Fetched.cyc = 0
  <2>1. ~mci
    BY <1>5, <1>6 DEF CycleAccount
  <2>2. UNCHANGED <<mci, ic_left>>
    BY <1>6 DEF Completes
  <2>3. spent = 0
    BY <2>1 DEF CycleAccount
  <2>. QED
    BY <1>3, <1>4, <1>6, <2>1, <2>2, <2>3
<1>7. CASE Fetched.cyc # 0
  <2>1. mci /\ LastCycle /\ mci' \in BOOLEAN /\ ~mci'
    BY <1>7 DEF Completes
  <2>2. ic_left' = 0
    BY <1>7 DEF Completes
  <2>3. ic_left = 1
    BY <1>3, <1>4, <2>1 DEF LastCycle
  <2>4. spent + ic_left = Fetched.cyc + 1
    BY <1>5, <2>1 DEF CycleAccount
  <2>5. spent = Fetched.cyc
    BY <1>2, <1>3, <2>3, <2>4
  <2>. QED
    BY <2>1, <2>2, <2>5
<1>. QED
  BY <1>6, <1>7

\* The branch of SBIS/SBIC without SKIP_CYCLES is taken in the first cycle only.
LEMMA FallsAccount ==
  ASSUME ~VolatileIO, IInv, CycleAccount, ExecSbisFalls
  PROVE  ~mci /\ mci' = mci /\ ic_left' = 0 /\ spent = 0
<1>1. ~mci /\ mci' = mci /\ ic_left' = ic_left
  BY DEF ExecSbisFalls
<1>2. ic_left = 0
  BY <1>1, BoundaryFacts
<1>. QED
  BY <1>1, <1>2 DEF CycleAccount

\* A word of mpm takes a single cycle.
LEMMA ReadFromMpm ==
  ASSUME IInv, phase = "exec", read_from_mpm
  PROVE  Fetched.cyc = 0
<1>1. pc \in 0..FlashEnd /\ mpm \in MatchMemories
  BY SizesAssumption DEF IInv, TypeOK, LoopTypeOK, CpuTypeOK, FetchInFlash
<1>2. Fetched \in {Nop, NoInstr}
  BY <1>1, MatchMemoriesAssumption DEF Fetched
<1>. QED
  BY <1>2 DEF Nop, NoInstr

\* Between instructions pc and the request to read mpm are free to change.
LEMMA BoundaryAccount ==
  ASSUME CycleAccount, ~mci, mci' = mci, spent' = spent
  PROVE  CycleAccount'
  BY DEF CycleAccount

LEMMA InitCycleAccount == Init => CycleAccount
  BY DEF Init, CycleAccount

\* Every step keeps the account of cycles.
LEMMA NextCycleAccount ==
  ASSUME ~VolatileIO, IInv, CycleAccount, [Next]_vars
  PROVE  CycleAccount'
<1>1. CASE UNCHANGED <<pm, cpu, spent>>
  BY <1>1 DEF CycleAccount, cpu
<1>2. CASE RspResume \/ RspRestart \/ RspWriteReg \/ RspWriteFlash
  <2>1. ic_left = 0 /\ mci' = mci /\ spent' = spent
    BY <1>2 DEF RspResume, RspRestart, RspWriteReg, RspWriteFlash, RspServed,
                Polls, cpu, hist
  <2>. QED
    BY <2>1, BoundaryFacts, BoundaryAccount
<1>3. CASE ServeIrq
  <2>1. ic_left = 0 /\ mci' = mci /\ spent' = spent
    BY <1>3 DEF ServeIrq, MayServe
  <2>. QED
    BY <2>1, BoundaryFacts, BoundaryAccount
<1>4. CASE ExecUnknown
  <2>1. read_from_mpm' = FALSE /\ UNCHANGED <<pm, pc, mci, ic_left, spent>>
    BY <1>4 DEF ExecUnknown, conf, hist
  <2>. QED
    BY <2>1 DEF CycleAccount
<1>5. CASE ExecSkipCycle
  <2>1. Fetched.cyc \in 1..4
    BY <1>5, FetchedInstr DEF ExecSkipCycle, Instr
  <2>2. ~read_from_mpm /\ Fetched = pm[pc]
    BY <1>5, <2>1, ReadFromMpm DEF ExecSkipCycle, Fetched
  <2>3. /\ pc <= FlashEnd
        /\ spent \in Nat /\ ic_left \in 0..4 /\ mci \in BOOLEAN
    BY <1>5 DEF ExecSkipCycle, IInv, FetchInFlash, TypeOK, CpuTypeOK, HistTypeOK
  <2>4. ~read_from_mpm' /\ pc' = pc /\ pm' = pm /\ spent' = spent + 1
    BY <1>5 DEF ExecSkipCycle, conf
  <2>5. mci' /\ spent' + ic_left' = pm[pc].cyc + 1
    <3>1. CASE ~mci
      <4>1. mci' /\ ic_left' = pm[pc].cyc
        BY <1>5, <2>2, <3>1 DEF ExecSkipCycle, FirstSkip
      <4>2. spent = 0
        BY <3>1 DEF CycleAccount
      <4>. QED
        BY <2>1, <2>2, <2>4, <4>1, <4>2
    <3>2. CASE mci
      <4>1. mci' /\ ic_left' = ic_left - 1
        BY <1>5, <3>2 DEF ExecSkipCycle
      <4>2. spent + ic_left = pm[pc].cyc + 1
        BY <3>2 DEF CycleAccount
      <4>. QED
        BY <2>1, <2>2, <2>3, <2>4, <4>1, <4>2
    <3>. QED
      BY <3>1, <3>2
  <2>6. pm'[pc'].cyc = pm[pc].cyc /\ pm[pc].cyc > 0
    BY <2>1, <2>2, <2>4
  <2>. QED
    BY <2>3, <2>4, <2>5, <2>6 DEF CycleAccount
<1>6. CASE \E op : Completes(op) /\ spent' = 0
  BY <1>6, CompletesAccount DEF CycleAccount
<1>7. CASE ExecSbisFalls
  <2>1. spent' = 0
    BY <1>7 DEF ExecSbisFalls, CountInstr
  <2>. QED
    BY <1>7, <2>1, FallsAccount DEF CycleAccount
<1>8. ExecSeq \/ ExecJmp \/ ExecSetI \/ ExecEnable \/ ExecSbisSkips \/ ExecReti
      \/ ExecBreak \/ ExecIllegal => \E op : Completes(op) /\ spent' = 0
  BY DEF ExecSeq, ExecJmp, ExecSetI, ExecEnable, ExecSbisSkips, ExecReti,
         ExecBreak, ExecIllegal, CountInstr
<1>9. Check \/ RspSkip \/ TickPeripherals \/ CheckScope \/ ExecIdle \/ PassIrqs
      \/ Finish \/ RspKill \/ RspWriteData \/ RspFail \/ UNCHANGED vars
      => UNCHANGED <<pm, cpu, spent>>
  BY DEF Check, RspSkip, TickPeripherals, CheckScope, ExecIdle, PassIrqs, Finish,
         RspKill, RspWriteData, RspServed, RspFail, vars, conf, hist
<1>. QED
  BY <1>1, <1>2, <1>3, <1>4, <1>5, <1>6, <1>7, <1>8, <1>9
  DEF Next, Loop, Debugger, Exec, Done

\* An instruction of n + 1 cycles takes effect in its cycle n + 1, whatever the
\* debugger, the models and the interrupts do, if its I/O bits are stable.
THEOREM CyclesExact == ~VolatileIO => (Spec => CycleExact)
<1>. SUFFICES ASSUME ~VolatileIO PROVE Spec => CycleExact
  OBVIOUS
<1>1. IInv /\ CycleAccount /\ [Next]_vars => CycleAccount'
  BY NextCycleAccount
<1>2. IInv /\ CycleAccount /\ [Next]_vars => [CompletesOnTime]_vars
  <2>. SUFFICES ASSUME IInv, CycleAccount, Next,
                       phase = "exec", Executing, phase' = "irq", spent' = 0
                PROVE  spent = Fetched.cyc \/ (Fetched.op = "sbis" /\ spent = 0)
    BY DEF CompletesOnTime
  <2>1. CASE \E op : Completes(op)
    BY <2>1, CompletesAccount
  <2>2. CASE ExecSbisFalls
    BY <2>2, FallsAccount DEF ExecSbisFalls
  <2>3. ~ExecSkipCycle
    BY DEF ExecSkipCycle, IInv, TypeOK, HistTypeOK
  <2>4. ~(Check \/ RspSkip \/ TickPeripherals \/ CheckScope \/ ExecIdle
          \/ ServeIrq \/ PassIrqs \/ Finish \/ Debugger \/ Done)
    BY DEF Check, RspSkip, TickPeripherals, CheckScope, ExecIdle, ServeIrq,
           PassIrqs, Finish, Debugger, RspResume, RspKill, RspRestart,
           RspWriteReg, RspWriteData, RspWriteFlash, RspFail, RspServed, Done
  <2>5. ~ExecUnknown
    BY DEF ExecUnknown, Terminate
  <2>6. ExecSeq \/ ExecJmp \/ ExecSetI \/ ExecEnable \/ ExecSbisSkips
        \/ ExecReti \/ ExecBreak \/ ExecIllegal => \E op : Completes(op)
    BY DEF ExecSeq, ExecJmp, ExecSetI, ExecEnable, ExecSbisSkips, ExecReti,
           ExecBreak, ExecIllegal
  <2>. QED
    BY <2>1, <2>2, <2>3, <2>4, <2>5, <2>6 DEF Next, Loop, Exec
<1>. QED
  BY InitIInv, NextIInv, InitCycleAccount, <1>1, <1>2, PTL DEF Spec, CycleExact

-----------------------------------------------------------------------------
\* Nothing is executed while a completed step waits for the MCU to be halted.
LEMMA StepPending ==
  ASSUME IInv, StepAccount, phase \in {"rsp", "tick", "exec"},
         IsActive \/ (phase = "exec" /\ Executing)
  PROVE  stepped = 0
<1>1. stepped \in 0..2
  BY DEF IInv, TypeOK, HistTypeOK
<1>2. stepped # 1
  BY DEF StepAccount, IsActive, Executing
<1>. QED
  BY <1>1, <1>2 DEF StepAccount

\* An instruction done is the first one since the request.
LEMMA CountInstrStep ==
  ASSUME stepped = 0, CountInstr, state' = state, phase' = "irq", ic_left' = 0
  PROVE  StepAccount'
<1>1. stepped' = IF state = "AVR_MSIM_STEP" THEN 1 ELSE 0
  BY DEF CountInstr, Min2
<1>. QED
  BY <1>1 DEF StepAccount

LEMMA InitStepAccount == Init => StepAccount
  BY DEF Init, StepAccount

\* Every step keeps the account of instructions executed since the request.
LEMMA NextStepAccount ==
  ASSUME ~VolatileIO, IInv, CycleAccount, StepAccount, [Next]_vars
  PROVE  StepAccount'
<1>1. CASE /\ UNCHANGED <<state, ic_left, stepped>>
           /\ phase \notin {"irq", "finish", "done"}
  BY <1>1 DEF StepAccount
<1>2. CASE stepped' = 0
  BY <1>2 DEF StepAccount
<1>3. CASE RspKill \/ RspRestart \/ RspWriteReg \/ RspWriteData \/ RspWriteFlash
  <2>1. ic_left' = ic_left /\ stepped' = stepped
        /\ state' \in {"AVR_STOPPED", "AVR_MSIM_STOP"}
    BY <1>3 DEF RspKill, RspRestart, RspWriteReg, RspWriteData, RspWriteFlash,
                RspServed, Polls, cpu, hist
  <2>. QED
    BY <2>1 DEF StepAccount
<1>4. CASE TickPeripherals
  <2>1. stepped' = stepped /\ ic_left' = ic_left /\ phase = "tick"
    BY <1>4 DEF TickPeripherals, cpu, hist
  <2>2. CASE IsActive
    BY <1>2, <2>1, <2>2, StepPending
  <2>3. CASE ~IsActive
    BY <1>1, <1>4, <2>1, <2>3 DEF TickPeripherals
  <2>. QED
    BY <2>2, <2>3
<1>5. CASE ExecIdle
  BY <1>5 DEF ExecIdle, Executing, IsActive, StepAccount, cpu, hist
<1>6. CASE ExecUnknown \/ ExecSkipCycle \/ ExecBreak \/ ExecIllegal
  <2>1. phase = "exec" /\ Executing /\ stepped' = stepped
    BY <1>6 DEF ExecUnknown, ExecSkipCycle, ExecBreak, ExecIllegal, Completes, hist
  <2>. QED
    BY <1>2, <2>1, StepPending
<1>7. CASE ExecSbisFalls \/ \E op : Completes(op) /\ CountInstr /\ state' = state
  <2>1. phase = "exec" /\ Executing /\ phase' = "irq" /\ CountInstr /\ state' = state
    BY <1>7 DEF ExecSbisFalls, Completes
  <2>2. ic_left' = 0
    BY <1>7, CompletesAccount, FallsAccount
  <2>. QED
    BY <2>1, <2>2, StepPending, CountInstrStep
<1>8. CASE ServeIrq \/ PassIrqs
  <2>1. phase = "irq" /\ phase' = "finish" /\ UNCHANGED <<ic_left, stepped>>
    BY <1>8 DEF ServeIrq, PassIrqs, cpu, hist
  <2>2. state' = state \/ (state = "AVR_RUNNING" /\ ServeIrq)
    BY <1>8 DEF ServeIrq, PassIrqs, TrapAtIsr
  <2>. QED
    BY <2>1, <2>2 DEF StepAccount
<1>9. CASE Finish
  BY <1>9 DEF Finish, HaltAfterStep, StepAccount, cpu
<1>10. ExecSeq \/ ExecJmp \/ ExecSetI \/ ExecEnable \/ ExecSbisSkips \/ ExecReti
       => \E op : Completes(op) /\ CountInstr /\ state' = state
  BY DEF ExecSeq, ExecJmp, ExecSetI, ExecEnable, ExecSbisSkips, ExecReti
<1>11. Check \/ RspSkip \/ CheckScope \/ RspFail
       => /\ UNCHANGED <<state, ic_left, stepped>>
          /\ phase \notin {"irq", "finish", "done"}
  BY DEF Check, RspSkip, CheckScope, RspFail, cpu, hist
<1>12. RspResume => stepped' = 0
  BY DEF RspResume
<1>13. CASE UNCHANGED vars
  BY <1>13 DEF vars, cpu, hist, StepAccount
<1>. QED
  BY <1>1, <1>2, <1>3, <1>4, <1>5, <1>6, <1>7, <1>8, <1>9, <1>10, <1>11,
     <1>12, <1>13 DEF Next, Loop, Debugger, Exec, Done

\* One request, one instruction, if I/O bits are stable.
THEOREM OneInstructionPerStep == ~VolatileIO => (Spec => []StepExecutesOne)
<1>. SUFFICES ASSUME ~VolatileIO PROVE Spec => []StepExecutesOne
  OBVIOUS
<1>1. IInv /\ CycleAccount /\ [Next]_vars => CycleAccount'
  BY NextCycleAccount
<1>2. IInv /\ CycleAccount /\ StepAccount /\ [Next]_vars => StepAccount'
  BY NextStepAccount
<1>3. StepAccount => StepExecutesOne
  BY DEF StepAccount, StepExecutesOne
<1>. QED
  BY InitIInv, NextIInv, InitCycleAccount, InitStepAccount, <1>1, <1>2, <1>3,
     PTL DEF Spec

-----------------------------------------------------------------------------
LEMMA NextTrapAccount ==
  ASSUME TrapAccount, [Next]_vars
  PROVE  TrapAccount'
<1>. SUFFICES ASSUME trap_at_isr, fresh'
              PROVE  phase' = "finish" /\ ic_left' = 0 /\ state' = "AVR_MSIM_STEP"
  <2>1. trap_at_isr' = trap_at_isr
    BY DEF Next, Loop, Debugger, Exec, Done, Check, RspSkip, RspResume, RspKill,
           RspRestart, RspWriteReg, RspWriteData, RspWriteFlash, RspFail, TickPeripherals, CheckScope, ExecIdle,
           ExecUnknown, ExecSkipCycle, ExecSeq, ExecJmp, ExecSetI, ExecEnable,
           ExecSbisSkips, ExecSbisFalls, ExecReti, ExecBreak, ExecIllegal,
           ServeIrq, PassIrqs, Finish, vars, conf
  <2>. QED
    BY <2>1 DEF TrapAccount
<1>1. CASE ServeIrq
  BY <1>1 DEF ServeIrq, MayServe, IsActive, TrapAtIsr
<1>2. CASE Finish
  BY <1>2 DEF Finish, HaltAfterStep, TrapAccount
<1>3. CASE UNCHANGED vars
  BY <1>3 DEF vars, cpu, hist, TrapAccount
<1>4. CASE phase # "finish" /\ (fresh' => fresh)
  BY <1>4 DEF TrapAccount
<1>5. Next => ServeIrq \/ Finish \/ UNCHANGED vars
              \/ (phase # "finish" /\ (fresh' => fresh))
  BY DEF Next, Loop, Debugger, Exec, Done, Check, RspSkip, RspResume, RspKill,
         RspRestart, RspWriteReg, RspWriteData, RspWriteFlash, RspFail, RspServed, TickPeripherals, CheckScope,
         ExecIdle, ExecUnknown, ExecSkipCycle, ExecSeq, ExecJmp, ExecSetI,
         ExecEnable, ExecSbisSkips, ExecSbisFalls, ExecReti, ExecBreak,
         ExecIllegal, PassIrqs, Completes, CountInstr, hist
<1>. QED
  BY <1>1, <1>2, <1>3, <1>4, <1>5

\* A trapped MCU is stopped before the routine begins.
THEOREM TrapStopsFirst == Spec => []TrapStopsAtIsr
<1>1. Init => TrapAccount
  BY DEF Init, TrapAccount
<1>2. TrapAccount /\ [Next]_vars => TrapAccount'
  BY NextTrapAccount
<1>3. TrapAccount => TrapStopsAtIsr
  BY DEF TrapAccount, TrapStopsAtIsr
<1>. QED
  BY <1>1, <1>2, <1>3, PTL DEF Spec

-----------------------------------------------------------------------------
LEMMA NextOwedAccount ==
  ASSUME IInv, OwedAccount, [Next]_vars
  PROVE  OwedAccount'
<1>1. CASE UNCHANGED vars
  BY <1>1 DEF vars, cpu, hist, intr, OwedAccount, IsActive
<1>2. CASE ExecIdle
  BY <1>2 DEF ExecIdle, Executing, IsActive, OwedAccount
<1>3. CASE ExecSkipCycle
  <2>1. Fetched.cyc \in 0..4 /\ ic_left \in 0..4
    BY <1>3, FetchedInstr DEF ExecSkipCycle, Instr, IInv, TypeOK, CpuTypeOK
  <2>2. ic_left' > 0
    BY <1>3, <2>1 DEF ExecSkipCycle, FirstSkip, LastCycle
  <2>. QED
    BY <2>2 DEF OwedAccount
<1>4. CASE ExecReti
  BY <1>4 DEF ExecReti, OwedAccount
<1>5. CASE ExecBreak \/ ExecIllegal
  BY <1>5 DEF ExecBreak, ExecIllegal, OwedAccount, IsActive
<1>6. CASE phase' # "irq" \/ owed' = FALSE
  BY <1>6 DEF OwedAccount
<1>7. ExecSeq \/ ExecJmp \/ ExecSetI \/ ExecEnable \/ ExecSbisSkips
      \/ ExecSbisFalls => owed' = FALSE
  BY DEF ExecSeq, ExecJmp, ExecSetI, ExecEnable, ExecSbisSkips, ExecSbisFalls
<1>8. Check \/ RspSkip \/ TickPeripherals \/ CheckScope \/ ServeIrq \/ PassIrqs
      \/ Finish \/ ExecUnknown \/ Debugger => phase' # "irq"
  BY DEF Check, RspSkip, TickPeripherals, CheckScope, ServeIrq, PassIrqs, Finish,
         ExecUnknown, Debugger, RspResume, RspKill, RspRestart, RspWriteReg, RspWriteData, RspWriteFlash,
         RspFail, RspServed, Terminate
<1>. QED
  BY <1>1, <1>2, <1>3, <1>4, <1>5, <1>6, <1>7, <1>8 DEF Next, Loop, Exec, Done

\* An instruction of the interrupted program is executed between two routines,
\* also when the MCU is stopped and resumed in between.
THEOREM MainRunsBetweenIsrs == Spec => MainBetweenIsrs
<1>1. Init => OwedAccount
  BY DEF Init, OwedAccount
<1>2. IInv /\ OwedAccount /\ [Next]_vars => OwedAccount'
  BY NextOwedAccount
<1>3. OwedAccount /\ [Next]_vars => [ServesWhenNotOwed]_vars
  <2>. SUFFICES ASSUME OwedAccount, Next, phase = "irq", pc' # pc PROVE ~owed
    BY DEF ServesWhenNotOwed
  <2>1. CASE ServeIrq
    BY <2>1 DEF ServeIrq, MayServe, OwedAccount
  <2>2. ~ServeIrq => pc' = pc
    BY DEF Next, Loop, Debugger, Exec, Done, Check, RspSkip, RspResume, RspKill,
           RspRestart, RspWriteReg, RspWriteData, RspWriteFlash, RspFail, RspServed, TickPeripherals,
           CheckScope, ExecIdle, ExecUnknown, ExecSkipCycle, ExecSeq, ExecJmp,
           ExecSetI, ExecEnable, ExecSbisSkips, ExecSbisFalls, ExecReti,
           ExecBreak, ExecIllegal, PassIrqs, Completes, Finish, vars, cpu
  <2>. QED
    BY <2>1, <2>2
<1>. QED
  BY InitIInv, NextIInv, <1>1, <1>2, <1>3, PTL DEF Spec, MainBetweenIsrs

=============================================================================
