---------------------------- MODULE Instructions -----------------------------
(***************************************************************************)
(* What the instructions of avr_decoder.c do to registers, SREG, data      *)
(* memory, stack and pc.  Every step is one instruction: SimCore models    *)
(* the cycles it takes and what may happen between them.                   *)
(*                                                                         *)
(* The decoding of bit patterns is left out: a word of the program memory  *)
(* is a record with an operation, registers d and r and a constant k, and  *)
(* the second word of a 32-bit instruction is a "data" record.             *)
(***************************************************************************)
EXTENDS Integers

CONSTANTS
  Programs,    \* routine -> program memory that holds it: address -> instruction
  PcBits,      \* mcu->pc_bits
  Locs,        \* data memory in use: registers, I/O registers, SRAM
  SREG,        \* address of SREG in the data space
  IoMask,      \* address of an I/O register -> its writable bits
  StackTop,    \* value of SP when a routine is called
  Home,        \* where a routine returns to
  Entry,       \* first word of the routine
  Args         \* <<a, b, f>>: words passed in r25:r24 and r23:r22, flags set in SREG

VARIABLES
  pm,          \* program memory
  dm,          \* data memory
  pc, sp,
  sreg,        \* bits set in SREG
  fn, arg      \* history: the routine called and its arguments

vars == <<pm, dm, pc, sp, sreg, fn, arg>>

Byte == 0..255

\* Bits of SREG
CARRY == 0
ZERO == 1
NEG == 2
TCOF == 3
SIGN == 4
HCARRY == 5
TBIT == 6
GLOBINT == 7

Bit(x, i) == (x \div 2^i) % 2 = 1
Bits(x)   == {i \in 0..7 : Bit(x, i)}
ByteOf(S) == LET b(i) == IF i \in S THEN 2^i ELSE 0
             IN  b(0) + b(1) + b(2) + b(3) + b(4) + b(5) + b(6) + b(7)
Signed(x) == IF x > 127 THEN x - 256 ELSE x     \* (signed char) x

Low(n)  == n % 256
High(n) == (n \div 256) % 256

I == pm[pc]
Rd == dm[I.d]
Rr == dm[I.r]

\* Constant or register, the second operand of an instruction.
Immediate == {"SUBI", "SBCI", "CPI", "ANDI", "ORI"}
Operand   == IF I.op \in Immediate THEN I.k ELSE Rr

Carry == IF CARRY \in sreg THEN 1 ELSE 0
On(cond, flag) == IF cond THEN {flag} ELSE {}
UpdSr(written, set) == sreg' = (sreg \ written) \cup set

\* NEG and TCOF as given, SIGN as their exclusive or.
NegV(n, v) == On(n, NEG) \cup On(v, TCOF) \cup On(n # v, SIGN)
NVS == {NEG, TCOF, SIGN}

Advance     == pc' = pc + 1
Keeps       == UNCHANGED <<pm, fn, arg>>
Result(r)   == dm' = [dm EXCEPT ![I.d] = r] /\ UNCHANGED sp
NoResult    == UNCHANGED <<dm, sp>>

-----------------------------------------------------------------------------
(***************************************************************************)
(* Arithmetic.  Carries and borrows are found from single bits of the      *)
(* operands and the result.                                                *)
(***************************************************************************)

\* Mutant: a carry that comes from below is not passed on.
CarryOutGenerated(x, y, r, i) == Bit(x, i) /\ Bit(y, i)
CarryOut(x, y, r, i) ==
  (Bit(x, i) /\ Bit(y, i)) \/ (Bit(y, i) /\ ~Bit(r, i)) \/ (~Bit(r, i) /\ Bit(x, i))
Borrow(x, y, r, i) ==
  (~Bit(x, i) /\ Bit(y, i)) \/ (Bit(y, i) /\ Bit(r, i)) \/ (Bit(r, i) /\ ~Bit(x, i))
AddOverflow(x, y, r) ==
  \/ Bit(x, 7) /\ Bit(y, 7) /\ ~Bit(r, 7)
  \/ ~Bit(x, 7) /\ ~Bit(y, 7) /\ Bit(r, 7)
SubOverflow(x, y, r) ==
  \/ Bit(x, 7) /\ ~Bit(y, 7) /\ ~Bit(r, 7)
  \/ ~Bit(x, 7) /\ Bit(y, 7) /\ Bit(r, 7)

CHNVS == {CARRY, HCARRY} \cup NVS

\* ADD (LSL) and ADC (ROL)
ExecAdd ==
  /\ I.op \in {"ADD", "ADC"}
  /\ LET r == Low(Rd + Rr + (IF I.op = "ADC" THEN Carry ELSE 0))
     IN  /\ Result(r)
         /\ UpdSr(CHNVS \cup {ZERO},
              On(CarryOut(Rd, Rr, r, 7), CARRY) \cup On(CarryOut(Rd, Rr, r, 3), HCARRY)
              \cup NegV(Bit(r, 7), AddOverflow(Rd, Rr, r)) \cup On(r = 0, ZERO))
  /\ Advance /\ Keeps

\* Flags of a subtraction.  r is an int in CP, CPI and CPC: it may be negative.
SubFlags(y, r) ==
  On(Borrow(Rd, y, r, 7), CARRY) \cup On(Borrow(Rd, y, r, 3), HCARRY)
  \cup NegV(Bit(r, 7), SubOverflow(Rd, y, r))

\* With carry, ZERO is never set: it says whether all results so far were zero.
ZeroAfter(r) == On(r = 0 /\ ZERO \in sreg, ZERO)

ExecSub ==
  /\ I.op \in {"SUB", "SUBI"}
  /\ LET r == Low(Rd - Operand)
     IN  /\ Result(r)
         /\ UpdSr(CHNVS \cup {ZERO}, SubFlags(Operand, r) \cup On(r = 0, ZERO))
  /\ Advance /\ Keeps

ExecSbc ==
  /\ I.op \in {"SBC", "SBCI"}
  /\ LET r == Low(Rd - Operand - Carry)
     IN  /\ Result(r)
         /\ UpdSr(CHNVS \cup {ZERO}, SubFlags(Operand, r) \cup ZeroAfter(r))
  /\ Advance /\ Keeps

ExecCp ==
  /\ I.op \in {"CP", "CPI"}
  /\ LET r == Rd - Operand
     IN  UpdSr(CHNVS \cup {ZERO}, SubFlags(Operand, r) \cup On(r = 0, ZERO))
  /\ NoResult /\ Advance /\ Keeps

\* r may be -256, which is not zero although its byte is.
ExecCpc ==
  /\ I.op = "CPC"
  /\ LET r == Rd - Rr - Carry
     IN  UpdSr(CHNVS \cup {ZERO}, SubFlags(Rr, r) \cup ZeroAfter(r))
  /\ NoResult /\ Advance /\ Keeps

ExecNeg ==
  /\ I.op = "NEG"
  /\ LET r == Low(-Rd)
     IN  /\ Result(r)
         /\ UpdSr(CHNVS \cup {ZERO},
              On(r # 0, CARRY) \cup On(r = 0, ZERO) \cup NegV(Bit(r, 7), r = 128)
              \cup On(Bit(r, 3) \/ Bit(Rd, 3), HCARRY))
  /\ Advance /\ Keeps

\* Mutant: INC leaves ZERO as it was.
IncFlagsNoZero(r) == On(ZERO \in sreg, ZERO) \cup NegV(Bit(r, 7), Rd = 127)
IncFlags(r)       == On(r = 0, ZERO) \cup NegV(Bit(r, 7), Rd = 127)
DecFlags(r)       == On(r = 0, ZERO) \cup NegV(Bit(r, 7), Rd = 128)

ExecIncDec ==
  /\ \/ I.op = "INC" /\ Result(Low(Rd + 1)) /\ UpdSr({ZERO} \cup NVS, IncFlags(Low(Rd + 1)))
     \/ I.op = "DEC" /\ Result(Low(Rd - 1)) /\ UpdSr({ZERO} \cup NVS, DecFlags(Low(Rd - 1)))
  /\ Advance /\ Keeps

(***************************************************************************)
(* Words.                                                                  *)
(***************************************************************************)
Word(l) == dm[l] + 256 * dm[l + 1]
Top15(w) == (w \div 32768) % 2 = 1
WordResult(r) == dm' = [dm EXCEPT ![I.d] = Low(r), ![I.d + 1] = High(r)] /\ UNCHANGED sp

\* r is a uint32_t: 0xFFFF + 1 is not zero.
ExecAdiw ==
  /\ I.op = "ADIW"
  /\ LET w == Word(I.d)
         r == w + I.k
     IN  /\ WordResult(r)
         /\ UpdSr({CARRY, ZERO} \cup NVS,
              On(Top15(w) /\ ~Top15(r), CARRY) \cup On(r = 0, ZERO)
              \cup NegV(Top15(r), Top15(r) /\ ~Top15(w)))
  /\ Advance /\ Keeps

\* r is an int16_t.
ExecSbiw ==
  /\ I.op = "SBIW"
  /\ LET w == Word(I.d)
         r == (w - I.k) % 65536
     IN  /\ WordResult(r)
         /\ UpdSr({CARRY, ZERO} \cup NVS,
              On(Top15(r) /\ ~Top15(w), CARRY) \cup On(r = 0, ZERO)
              \cup NegV(Top15(r), Top15(w) /\ ~Top15(r)))
  /\ Advance /\ Keeps

\* Mutant: both operands of MULSU taken for signed.
ProductAllSigned ==
  IF I.op \in {"MUL", "FMUL"} THEN Rd * Rr ELSE Signed(Rd) * Signed(Rr)
Product ==
  CASE I.op \in {"MUL", "FMUL"}     -> Rd * Rr
    [] I.op \in {"MULS", "FMULS"}   -> Signed(Rd) * Signed(Rr)
    [] I.op \in {"MULSU", "FMULSU"} -> Signed(Rd) * Rr

MulFlags == UpdSr({CARRY, ZERO}, On(Top15(Product), CARRY) \cup On(Product = 0, ZERO))

ExecMul ==
  /\ I.op \in {"MUL", "MULS", "MULSU"}
  /\ dm' = [dm EXCEPT ![0] = Low(Product), ![1] = High(Product)]
  /\ MulFlags
  /\ Advance /\ UNCHANGED sp /\ Keeps

\* The fractional products keep four bits of each byte.
ExecFmul ==
  /\ I.op \in {"FMUL", "FMULS", "FMULSU"}
  /\ dm' = [dm EXCEPT ![0] = (2 * Product) % 16, ![1] = (Product \div 128) % 16]
  /\ MulFlags
  /\ Advance /\ UNCHANGED sp /\ Keeps

-----------------------------------------------------------------------------
(***************************************************************************)
(* Logic, shifts and single bits.                                          *)
(***************************************************************************)
LogicFlags(r) == On(r = 0, ZERO) \cup NegV(Bit(r, 7), FALSE)

\* AND, ANDI (CBR), OR, ORI (SBR), EOR (CLR)
ExecLogic ==
  /\ I.op \in {"AND", "ANDI", "OR", "ORI", "EOR"}
  /\ LET x == Bits(Rd)
         y == Bits(Operand)
         r == ByteOf(CASE I.op \in {"AND", "ANDI"} -> x \cap y
                       [] I.op \in {"OR", "ORI"}   -> x \cup y
                       [] I.op = "EOR"             -> (x \ y) \cup (y \ x))
     IN  Result(r) /\ UpdSr({ZERO} \cup NVS, LogicFlags(r))
  /\ Advance /\ Keeps

ExecCom ==
  /\ I.op = "COM"
  /\ Result(255 - Rd)
  /\ UpdSr({CARRY, ZERO} \cup NVS, {CARRY} \cup LogicFlags(255 - Rd))
  /\ Advance /\ Keeps

\* Flags of a shift to the right: the bit shifted out is CARRY.
ShiftFlags(r) == On(Bit(Rd, 0), CARRY) \cup On(r = 0, ZERO)
                 \cup NegV(Bit(r, 7), Bit(r, 7) # Bit(Rd, 0))
ShiftedFrom(top) == (Rd \div 2) + (IF top THEN 128 ELSE 0)

ExecAsrLsr ==
  /\ I.op \in {"ASR", "LSR"}
  /\ LET r == ShiftedFrom(I.op = "ASR" /\ Bit(Rd, 7))
     IN  Result(r) /\ UpdSr({CARRY, ZERO} \cup NVS, ShiftFlags(r))
  /\ Advance /\ Keeps

ExecRor ==
  /\ I.op = "ROR"
  /\ LET r == ShiftedFrom(CARRY \in sreg)
     IN  /\ Result(r)
         /\ UpdSr(CHNVS \cup {ZERO}, ShiftFlags(r) \cup On(Bit(Rd, 3), HCARRY))
  /\ Advance /\ Keeps

ExecSwap ==
  /\ I.op = "SWAP"
  /\ Result(16 * (Rd % 16) + (Rd \div 16))
  /\ Advance /\ UNCHANGED sreg /\ Keeps

ExecBitFlag ==
  /\ \/ I.op = "BSET" /\ UpdSr({}, {I.k})
     \/ I.op = "BCLR" /\ UpdSr({I.k}, {})
     \/ I.op = "BST"  /\ UpdSr({TBIT}, On(Bit(Rd, I.k), TBIT))
  /\ NoResult /\ Advance /\ Keeps

ExecBld ==
  /\ I.op = "BLD"
  /\ Result(ByteOf((Bits(Rd) \ {I.k}) \cup On(TBIT \in sreg, I.k)))
  /\ Advance /\ UNCHANGED sreg /\ Keeps

-----------------------------------------------------------------------------
(***************************************************************************)
(* Data transfer.  WRITE_DS keeps the read-only bits of an I/O register;   *)
(* SREG is one of the registers of the data space.                         *)
(***************************************************************************)

Masked(l, old, v) == ByteOf((Bits(old) \ IoMask[l]) \cup (Bits(v) \cap IoMask[l]))

At(m, l) == IF l = SREG THEN ByteOf(sreg) ELSE m[l]
Written(m, l, v) ==
  IF l \in DOMAIN IoMask THEN [m EXCEPT ![l] = Masked(l, m[l], v)]
  ELSE IF l = SREG THEN m ELSE [m EXCEPT ![l] = v]
SregWritten(l, v) == sreg' = IF l = SREG THEN Bits(v) ELSE sreg

ExecMove ==
  /\ \/ I.op = "MOV" /\ Result(Rr)
     \/ I.op = "LDI" /\ Result(I.k)
     \/ I.op = "SER" /\ Result(255)
     \/ /\ I.op = "MOVW" /\ UNCHANGED sp
        /\ dm' = [dm EXCEPT ![I.d] = Rr, ![I.d + 1] = dm[I.r + 1]]
  /\ Advance /\ UNCHANGED sreg /\ Keeps

\* Mutant: the pointer is left as it is.
PointerKept(m, p, a) == m
SetPointer(m, p, a) == [m EXCEPT ![p] = Low(a), ![p + 1] = High(a)]

\* LD and LDD with X, Y or Z (I.r): as it is, displaced, post-incremented ("LDP")
\* or pre-decremented ("LDM").
ExecLd ==
  /\ LET a == Word(I.r)
         m == SetPointer(dm, I.r, a - 1)
     IN  \/ I.op = "LD"  /\ dm' = [dm EXCEPT ![I.d] = At(dm, a + I.k)]
         \/ I.op = "LDP" /\ dm' = SetPointer([dm EXCEPT ![I.d] = At(dm, a)], I.r, a + 1)
         \/ I.op = "LDM" /\ dm' = [m EXCEPT ![I.d] = At(m, a - 1)]
  /\ Advance /\ UNCHANGED <<sp, sreg>> /\ Keeps

\* ST and STD, in the same ways.
ExecSt ==
  /\ LET a == Word(I.r)
         m == SetPointer(dm, I.r, a - 1)
     IN  \/ /\ I.op = "ST"
            /\ dm' = Written(dm, a + I.k, Rd) /\ SregWritten(a + I.k, Rd)
         \/ /\ I.op = "STP"
            /\ dm' = SetPointer(Written(dm, a, Rd), I.r, a + 1) /\ SregWritten(a, Rd)
         \/ /\ I.op = "STM"
            /\ dm' = Written(m, a - 1, m[I.d]) /\ SregWritten(a - 1, m[I.d])
  /\ Advance /\ UNCHANGED sp /\ Keeps

\* The second word of LDS, STS, JMP and CALL.
Second == pm[pc + 1].k

ExecLdsSts ==
  /\ \/ I.op = "LDS" /\ dm' = [dm EXCEPT ![I.d] = At(dm, Second)] /\ UNCHANGED sreg
     \/ I.op = "STS" /\ dm' = Written(dm, Second, Rd) /\ SregWritten(Second, Rd)
  /\ pc' = pc + 2
  /\ UNCHANGED sp /\ Keeps

\* I.k is the address of the I/O register in the data space.
ExecInOut ==
  /\ \/ I.op = "IN"  /\ dm' = [dm EXCEPT ![I.d] = At(dm, I.k)] /\ UNCHANGED sreg
     \/ I.op = "OUT" /\ dm' = Written(dm, I.k, Rd) /\ SregWritten(I.k, Rd)
  /\ Advance /\ UNCHANGED sp /\ Keeps

\* Bit I.r of the I/O register at I.k.
ExecSbiCbi ==
  /\ \/ I.op = "SBI" /\ dm' = Written(dm, I.k, ByteOf(Bits(dm[I.k]) \cup {I.r}))
     \/ I.op = "CBI" /\ dm' = Written(dm, I.k, ByteOf(Bits(dm[I.k]) \ {I.r}))
  /\ Advance /\ UNCHANGED <<sp, sreg>> /\ Keeps

\* XCH, LAS, LAC and LAT: read, modify and write at Z.
ExecModify ==
  /\ LET z == Word(30)
         old == Bits(At(dm, z))
         new == CASE I.op = "XCH" -> Bits(Rd)
                  [] I.op = "LAS" -> old \cup Bits(Rd)
                  [] I.op = "LAC" -> old \ Bits(Rd)
                  [] I.op = "LAT" -> (old \ Bits(Rd)) \cup (Bits(Rd) \ old)
     IN  /\ I.op \in {"XCH", "LAS", "LAC", "LAT"}
         /\ dm' = Written(Written(dm, I.d, ByteOf(old)), z, ByteOf(new))
         /\ SregWritten(z, ByteOf(new))
  /\ Advance /\ UNCHANGED sp /\ Keeps

\* A byte of the program memory: bit 0 of its address tells which of the word.
FlashByte(z) == LET w == pm[z \div 2].k
                IN  IF z % 2 = 1 THEN High(w) ELSE Low(w)

\* LPM: a byte of the word at Z / 2, low byte first.  ELPM is the same: the supported
\* MCUs have no RAMPZ.
ExecLpm ==
  /\ LET z == Word(30)
         m == [dm EXCEPT ![I.d] = FlashByte(z)]
     IN  \/ I.op \in {"LPM", "ELPM"} /\ dm' = m
         \/ I.op \in {"LPMP", "ELPMP"} /\ dm' = SetPointer(m, 30, z + 1)
  /\ Advance /\ UNCHANGED <<sp, sreg>> /\ Keeps

ExecPushPop ==
  /\ \/ I.op = "PUSH" /\ dm' = [dm EXCEPT ![sp] = Rd] /\ sp' = sp - 1
     \/ I.op = "POP"  /\ dm' = [dm EXCEPT ![I.d] = dm[sp + 1]] /\ sp' = sp + 1
  /\ Advance /\ UNCHANGED sreg /\ Keeps

-----------------------------------------------------------------------------
(***************************************************************************)
(* Control.                                                                *)
(***************************************************************************)
TwoWords == {"LDS", "STS", "JMP", "CALL"}       \* MSIM_AVR_Is32

\* Mutant: the instruction skipped is always taken for a single word.
SkipOneWord == 2
Skip == IF pm[pc + 1].op \in TwoWords THEN 3 ELSE 2

\* CPSE, SBRC, SBRS
ExecSkip ==
  /\ I.op \in {"CPSE", "SBRC", "SBRS"}
  /\ LET taken == CASE I.op = "CPSE" -> Rd = Rr
                    [] I.op = "SBRC" -> ~Bit(Rd, I.k)
                    [] I.op = "SBRS" -> Bit(Rd, I.k)
     IN  pc' = pc + (IF taken THEN Skip ELSE 1)
  /\ NoResult /\ UNCHANGED sreg /\ Keeps

\* Bit I.r of the I/O register at I.k.  SBIC compares the register with the bit,
\* and pc moves on by two words when neither condition holds.
ExecSbisSbic ==
  /\ I.op \in {"SBIS", "SBIC"}
  /\ LET taken == \/ I.op = "SBIS" /\ Bit(dm[I.k], I.r)
                  \/ I.op = "SBIC" /\ dm[I.k] # 2^I.r
     IN  pc' = pc + (IF taken THEN Skip ELSE 2)
  /\ NoResult /\ UNCHANGED sreg /\ Keeps

\* Conditional branches: BRBS and BRBC on flag I.r, which stand for all of them.
ExecBranch ==
  /\ I.op \in {"BRBS", "BRBC"}
  /\ pc' = IF (I.r \in sreg) = (I.op = "BRBS") THEN pc + I.k + 1 ELSE pc + 1
  /\ NoResult /\ UNCHANGED sreg /\ Keeps

ExecJump ==
  /\ \/ I.op = "RJMP" /\ pc' = pc + I.k + 1
     \/ I.op = "JMP"  /\ pc' = Second
     \/ I.op = "IJMP" /\ pc' = Word(30)
  /\ NoResult /\ UNCHANGED sreg /\ Keeps

PcBytes == IF PcBits > 16 THEN 3 ELSE 2

\* The return address is pushed low byte first, and popped in reverse.  (RETI leaves
\* the order of its pops to the compiler; gcc and clang emit them from left to right.)
PushPc(m, s, a) ==
  [l \in DOMAIN m |->
     IF l \in (s - PcBytes + 1)..s THEN (a \div 256^(s - l)) % 256 ELSE m[l]]
PoppedPc == LET w == 256 * dm[sp + 1] + dm[sp + 2]
            IN  IF PcBytes = 3 THEN 256 * w + dm[sp + 3] ELSE w

ExecCall ==
  /\ \/ /\ I.op = "RCALL" /\ pc' = pc + I.k + 1
        /\ dm' = PushPc(dm, sp, pc + 1)
     \/ /\ I.op = "CALL" /\ pc' = Second
        /\ dm' = PushPc(dm, sp, pc + 2)
     \/ /\ I.op = "ICALL" /\ pc' = Word(30)
        /\ dm' = PushPc(dm, sp, pc + 1)
  /\ sp' = sp - PcBytes
  /\ UNCHANGED sreg /\ Keeps

\* Mutant: RETI leaves the interrupts disabled.
RetiKeepsSreg == sreg
RetiSreg      == sreg \cup {GLOBINT}

ExecRet ==
  /\ \/ I.op = "RET"  /\ UNCHANGED sreg
     \/ I.op = "RETI" /\ sreg' = RetiSreg
  /\ pc' = PoppedPc /\ sp' = sp + PcBytes
  /\ UNCHANGED dm /\ Keeps

\* NOP and WDR
ExecNothing ==
  /\ I.op \in {"NOP", "WDR"}
  /\ NoResult /\ Advance /\ UNCHANGED sreg /\ Keeps

-----------------------------------------------------------------------------
\* Type invariant.  Registers and memory stay bytes: every uint32_t, int or int16_t
\* result is cut to eight bits when stored; pc and sp stay in their memories.
TypeOK ==
  /\ pc \in DOMAIN pm
  /\ dm \in [Locs -> Byte]
  /\ sp \in Locs
  /\ sreg \subseteq 0..7

\* A routine is called with its arguments in registers, as avr-gcc passes them.
Called(a) ==
  PushPc([l \in Locs |-> CASE l = 24 -> Low(a[1]) [] l = 25 -> High(a[1])
                           [] l = 22 -> Low(a[2]) [] l = 23 -> High(a[2])
                           [] OTHER  -> 0],
         StackTop, Home)

Init ==
  /\ fn \in DOMAIN Programs /\ pm = Programs[fn]
  /\ arg \in Args /\ dm = Called(arg)
  /\ pc = Entry
  /\ sp = StackTop - PcBytes
  /\ sreg = arg[3]

Next ==
  \/ ExecAdd \/ ExecSub \/ ExecSbc \/ ExecCp \/ ExecCpc \/ ExecNeg \/ ExecIncDec
  \/ ExecAdiw \/ ExecSbiw \/ ExecMul \/ ExecFmul
  \/ ExecLogic \/ ExecCom \/ ExecAsrLsr \/ ExecRor \/ ExecSwap \/ ExecBitFlag \/ ExecBld
  \/ ExecMove \/ ExecLd \/ ExecSt \/ ExecLdsSts \/ ExecInOut \/ ExecSbiCbi
  \/ ExecModify \/ ExecLpm \/ ExecPushPop
  \/ ExecSkip \/ ExecSbisSbic \/ ExecBranch \/ ExecJump \/ ExecCall \/ ExecRet
  \/ ExecNothing

\* The simulation loop executes one instruction after the other.
Spec == Init /\ [][Next]_vars /\ WF_vars(Next)
=============================================================================
