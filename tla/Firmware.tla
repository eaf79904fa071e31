------------------------------ MODULE Firmware -------------------------------
(***************************************************************************)
(* Routines as avr-gcc and its library write them, and what a caller       *)
(* expects of them.  Most take one or two 16-bit arguments (a in r25:r24,  *)
(* b in r23:r22) and work on them byte by byte, so the result depends on   *)
(* what one instruction leaves in SREG for the next.                       *)
(***************************************************************************)
EXTENDS Instructions, Sequences, TLC

CONSTANTS
  ByteValues,     \* bytes of which arguments are made
  Routines        \* names of the routines

\* Assembler: operation, register d, register or bit r, constant k.
A(op, d, r, k) == [op |-> op, d |-> d, r |-> r, k |-> k]
RR(op, d, r)   == A(op, d, r, 0)
RI(op, d, k)   == A(op, d, 0, k)
R(op, d)       == A(op, d, 0, 0)
Br(op, b, k)   == A(op, 0, b, k)
N(op)          == A(op, 0, 0, 0)
Data(k)        == A("data", 0, 0, k)
Ret            == N("RET")

\* PORTB, whose bits can all be written, MCUCSR, which has read-only bits, and
\* SRAM around a page of 256 bytes.
Port == 56
Ctrl == 84
Ram  == 248..271
Buf1 == 250
Buf2 == 254

Limit == 383    \* 256 + 127

AddCode == <<RR("ADD", 24, 22), RR("ADC", 25, 23), Ret>>
SubCode == <<RR("SUB", 24, 22), RR("SBC", 25, 23), Ret>>
SubiCode == <<RI("SUBI", 24, 127), RI("SBCI", 25, 1), Ret>>
NegCode  == <<R("COM", 25), R("NEG", 24), RI("SBCI", 25, 255), Ret>>
AdiwCode == <<RI("ADIW", 24, 63), Ret>>
SbiwCode == <<RI("SBIW", 24, 63), Ret>>
LslCode  == <<RR("ADD", 24, 24), RR("ADC", 25, 25), Ret>>
LsrCode  == <<R("LSR", 25), R("ROR", 24), Ret>>
AsrCode  == <<R("ASR", 25), R("ROR", 24), Ret>>
\* Rotate left by 3, counting up to zero; r1 is zero by convention.
RotateCode == <<RI("LDI", 18, 253), RR("ADD", 24, 24), RR("ADC", 25, 25), RR("ADC", 24, 1),
                R("INC", 18), Br("BRBC", ZERO, -5), Ret>>

\* r18, r19, r20 := a < b, a < b as signed numbers, a = b (255)
CmpCode == <<RR("CP", 24, 22), RR("CPC", 25, 23),
             RI("LDI", 18, 0), Br("BRBC", CARRY, 1), RI("LDI", 18, 1),
             RI("LDI", 19, 0), Br("BRBC", SIGN, 1), RI("LDI", 19, 1),
             RI("LDI", 20, 0), Br("BRBS", ZERO, 1), RI("RJMP", 0, 1), R("SER", 20), Ret>>
CpiCode == <<RI("LDI", 18, 1), RI("CPI", 24, 127), RR("CPC", 25, 18),
             RI("LDI", 18, 0), Br("BRBC", CARRY, 1), RI("LDI", 18, 1), Ret>>

\* r25:r24 := a * b, of 16 bits
MulCode == <<RR("MUL", 24, 22), RR("MOVW", 18, 0), RR("MUL", 24, 23), RR("ADD", 19, 0),
             RR("MUL", 25, 22), RR("ADD", 19, 0), RR("EOR", 1, 1), RR("MOVW", 24, 18), Ret>>
\* r19:r18:r17:r16 := a * b as signed numbers, of 32 bits
MulsCode == <<RR("MOVW", 20, 24), RR("EOR", 2, 2),
              RR("MULS", 21, 23), RR("MOVW", 18, 0), RR("MUL", 20, 22), RR("MOVW", 16, 0),
              RR("MULSU", 21, 22),
              RR("SBC", 19, 2), RR("ADD", 17, 0), RR("ADC", 18, 1), RR("ADC", 19, 2),
              RR("MULSU", 23, 20),
              RR("SBC", 19, 2), RR("ADD", 17, 0), RR("ADC", 18, 1), RR("ADC", 19, 2),
              RR("EOR", 1, 1), Ret>>
\* r1:r0 := 2 * ah * bh, of fractions
FmulCode == <<RR("MOV", 16, 25), RR("FMUL", 16, 23), Ret>>

\* r19 := 1: the complement of a conjunction is the disjunction of complements
LogicCode == <<RR("MOV", 18, 24), RR("AND", 18, 22), R("COM", 18), R("COM", 24),
               R("COM", 22), RR("OR", 24, 22), RI("LDI", 19, 1), RR("CPSE", 18, 24),
               RR("EOR", 19, 19), Ret>>
\* Exchange r24 and r22 with EOR; move bits and nibbles of r25 to r18.
BitsCode == <<RR("EOR", 24, 22), RR("EOR", 22, 24), RR("EOR", 24, 22),
              RR("MOV", 18, 25), R("SWAP", 18), RI("ANDI", 18, 15), RI("ORI", 18, 64),
              RI("BST", 25, 0), RI("BLD", 18, 7), RI("BCLR", 0, TBIT), Ret>>

\* Store a and b, copy the four bytes upwards and then downwards over a page.
CopyCode ==
  <<R("STS", 24), Data(Buf1), R("STS", 25), Data(Buf1 + 1),
    R("STS", 22), Data(Buf1 + 2), R("STS", 23), Data(Buf1 + 3),
    RI("LDI", 26, Buf1), RI("LDI", 27, 0), RI("LDI", 30, Buf2), RI("LDI", 31, 0),
    RI("LDI", 20, 4),
    RR("LDP", 0, 26), RR("STP", 0, 30), R("DEC", 20), Br("BRBC", ZERO, -4),
    RI("LDI", 28, 6), RI("LDI", 29, 1), RI("LDI", 20, 4),
    RR("LDM", 0, 30), RR("STM", 0, 28), R("DEC", 20), Br("BRBC", ZERO, -4),
    A("LD", 16, 28, 0), A("LD", 17, 28, 1), A("LD", 18, 28, 2), R("LDS", 19), Data(261),
    Ret>>
\* XCH, LAS, LAC and LAT at Buf1
ModifyCode ==
  <<RI("LDI", 30, Buf1), RI("LDI", 31, 0), A("ST", 24, 30, 0), RR("MOV", 16, 22),
    R("LAT", 16), RR("MOV", 17, 22), R("LAS", 17), RR("MOV", 18, 22), R("LAC", 18),
    R("XCH", 25), Ret>>

\* A routine that saves a around a call which clears it, called in three ways.
CallsCode ==
  <<R("PUSH", 24), R("PUSH", 25), RI("RCALL", 0, 10), N("CALL"), Data(Entry + 13),
    RI("LDI", 30, Entry + 13), RI("LDI", 31, 0), N("ICALL"),
    R("POP", 25), R("POP", 24), N("JMP"), Data(Entry + 16), N("NOP"),
    RR("EOR", 24, 24), RR("EOR", 25, 25), Ret,
    N("WDR"), RI("LDI", 30, Entry + 20), N("IJMP"), Data(0), Ret>>
\* An interrupt service routine.
IsrCode == <<R("PUSH", 0), RI("IN", 0, SREG), R("PUSH", 0), RI("BCLR", 0, ZERO),
             RI("BSET", 0, CARRY), R("PUSH", 24), R("INC", 24), R("POP", 24),
             R("POP", 0), RI("OUT", 0, SREG), R("POP", 0), N("RETI")>>
\* Skips over instructions of two words and of one; r18 counts what was not skipped.
\* The I/O bit is cleared for SBIC and set for SBIS: their conditions hold.
SkipCode ==
  <<RI("LDI", 18, 0), RI("SBRC", 24, 0), N("CALL"), Data(Entry + 21),
    RI("SBRS", 24, 7), R("INC", 18), RR("CPSE", 24, 22), N("CALL"), Data(Entry + 21),
    A("SBIC", 0, 3, Port), N("CALL"), Data(Entry + 21), A("SBIC", 0, 3, Port), R("INC", 18),
    A("SBI", 0, 3, Port),
    A("SBIS", 0, 3, Port), N("CALL"), Data(Entry + 21), A("SBIS", 0, 3, Port), R("INC", 18), Ret,
    R("INC", 18), Ret>>
\* One of two opposite skips on bit 0 of an I/O register; r18 counts the other.
PollCode == <<RI("LDI", 18, 0), RI("OUT", 24, Port), A("SBIS", 0, 0, Port), R("INC", 18),
              A("SBIC", 0, 0, Port), R("INC", 18), Ret>>
IoCode == <<RI("OUT", 24, Ctrl), RI("IN", 18, Ctrl), RI("OUT", 24, Port),
            A("CBI", 0, 0, Port), A("SBI", 0, 1, Port), RI("IN", 19, Port), Ret>>
\* r25:r24 := the word behind the routine
LpmCode ==
  <<RI("LDI", 30, (2 * (Entry + 7)) % 256), RI("LDI", 31, (2 * (Entry + 7)) \div 256),
    RR("LPMP", 24, 0), RR("LPM", 25, 0), RR("ELPMP", 18, 0), RR("ELPM", 19, 0), Ret,
    Data(4660), Data(22136)>>

-----------------------------------------------------------------------------
(***************************************************************************)
(* The program memory: a caller that waits at 0 and a routine behind it.   *)
(***************************************************************************)
CodeOf(f) ==
  CASE f = "calls"  -> CallsCode
    [] f = "skip"   -> SkipCode
    [] f = "lpm"    -> LpmCode
    [] f = "poll"   -> PollCode
    [] f = "isr"    -> IsrCode
    [] f = "io"     -> IoCode
    [] f = "add"    -> AddCode
    [] f = "sub"    -> SubCode
    [] f = "subi"   -> SubiCode
    [] f = "neg"    -> NegCode
    [] f = "adiw"   -> AdiwCode
    [] f = "sbiw"   -> SbiwCode
    [] f = "lsl"    -> LslCode
    [] f = "lsr"    -> LsrCode
    [] f = "asr"    -> AsrCode
    [] f = "rotate" -> RotateCode
    [] f = "cmp"    -> CmpCode
    [] f = "cpi"    -> CpiCode
    [] f = "mul"    -> MulCode
    [] f = "muls"   -> MulsCode
    [] f = "fmul"   -> FmulCode
    [] f = "logic"  -> LogicCode
    [] f = "bits"   -> BitsCode
    [] f = "copy"   -> CopyCode
    [] f = "modify" -> ModifyCode

Caller == <<RI("RJMP", 0, -1)>>
FirmwarePrograms ==
  [f \in Routines |-> LET image == Caller \o CodeOf(f)
                      IN  [a \in 0..(Len(image) - 1) |-> image[a + 1]]]
FirmwareLocs    == (0..31) \cup {Port, Ctrl} \cup Ram
FirmwareMask    == (Port :> 0..7) @@ (Ctrl :> 0..3)

Words        == {l + 256 * h : l \in ByteValues, h \in ByteValues}
FirmwareArgs == Words \X Words \X {{}, 0..7}

RoutineNames == {"calls", "skip", "lpm", "poll", "isr", "io", "add", "sub", "subi", "neg",
                 "adiw", "sbiw", "lsl", "lsr", "asr", "rotate", "cmp", "cpi", "mul", "muls",
                 "fmul", "logic", "bits", "copy", "modify"}

\* The routines are linked behind their caller, and take words and any flags; the I/O
\* registers and SREG are where the routines expect them.
Unsigned16 == 0..65535
ASSUME FirmwareSetup ==
  /\ Routines \subseteq RoutineNames
  /\ Programs = FirmwarePrograms /\ Locs = FirmwareLocs
  /\ Args \subseteq Unsigned16 \X Unsigned16 \X SUBSET (0..7)
  /\ Home = 0 /\ Entry = 1 /\ StackTop = 271
  /\ SREG = 95 /\ DOMAIN IoMask = {Port, Ctrl}
  /\ IoMask[Port] = 0..7 /\ IoMask[Ctrl] = 0..3

-----------------------------------------------------------------------------
(***************************************************************************)
(* Properties.                                                             *)
(***************************************************************************)
Returned(f) == pc = Home /\ fn = f

u == arg[1]     \* what the routine was called with
v == arg[2]
res == Word(24)
Signed16(w) == IF w > 32767 THEN w - 65536 ELSE w
One(cond) == IF cond THEN 1 ELSE 0
Sets(flag, cond) == (flag \in sreg) <=> cond

AddExact ==
  /\ res = (u + v) % 65536
  /\ Sets(CARRY, u + v > 65535) /\ Sets(SIGN, Signed16(u) + Signed16(v) < 0)
  /\ Sets(HCARRY, (u % 4096) + (v % 4096) > 4095)
SubExact ==
  /\ res = (u - v) % 65536
  /\ Sets(CARRY, u < v) /\ Sets(SIGN, Signed16(u) < Signed16(v)) /\ Sets(ZERO, u = v)
  /\ Sets(HCARRY, u % 4096 < v % 4096)
SubiExact == res = (u - Limit) % 65536 /\ Sets(CARRY, u < Limit) /\ Sets(ZERO, u = Limit)
NegExact  == res = (-u) % 65536 /\ Sets(ZERO, u = 0)
AdiwExact == /\ res = (u + 63) % 65536
             /\ Sets(CARRY, u + 63 > 65535) /\ Sets(SIGN, Signed16(u) + 63 < 0)
SbiwExact == /\ res = (u - 63) % 65536
             /\ Sets(CARRY, u < 63) /\ Sets(SIGN, Signed16(u) < 63)
LslExact  == res = (2 * u) % 65536 /\ Sets(CARRY, u > 32767)
LsrExact  == res = u \div 2 /\ Sets(CARRY, u % 2 = 1)
AsrExact  == Signed16(res) = Signed16(u) \div 2 /\ Sets(CARRY, u % 2 = 1)
RotateExact == res = (8 * u + (u \div 8192)) % 65536
BitsExact == /\ dm[24] = Low(v) /\ dm[22] = Low(u)
             /\ dm[18] = (High(u) \div 16) + 64 + 128 * (High(u) % 2)
CmpExact  == /\ (dm[18] = 1) <=> (u < v)
             /\ (dm[19] = 1) <=> (Signed16(u) < Signed16(v))
             /\ (dm[20] = 255) <=> (u = v)

\* Words are added, subtracted, negated and shifted or rotated byte by byte with the carry of one
\* instruction taken up by the next: the result is that of 16-bit arithmetic, CARRY says
\* whether it is exact as an unsigned number, SIGN its sign as a signed one, and ZERO
\* whether the whole word is zero.  Of the bitwise operations, a complemented conjunction
\* is a disjunction, and three exclusive ors exchange two registers.  CP, CPI and CPC
\* leave the flags from which the branches tell the order of two words, unsigned,
\* signed, and whether they are equal.
ArithmeticExact ==
  /\ Returned("add")    => AddExact
  /\ Returned("sub")    => SubExact
  /\ Returned("subi")   => SubiExact
  /\ Returned("neg")    => NegExact
  /\ Returned("adiw")   => AdiwExact
  /\ Returned("sbiw")   => SbiwExact
  /\ Returned("lsl")    => LslExact
  /\ Returned("lsr")    => LsrExact
  /\ Returned("asr")    => AsrExact
  /\ Returned("rotate") => RotateExact
  /\ Returned("logic")  => dm[19] = 1
  /\ Returned("bits")   => BitsExact
  /\ Returned("cmp")    => CmpExact
  /\ Returned("cpi")    => ((dm[18] = 1) <=> (u < Limit))

MulExact  == \* as u * v may not fit in an integer of TLC
  res = (Low(u) * Low(v) + 256 * ((Low(u) * High(v) + High(u) * Low(v)) % 256)) % 65536
MulsExact ==
  LET p == Signed16(u) * Signed16(v)
  IN  Word(16) = p % 65536 /\ Signed16(Word(18)) = p \div 65536

\* Products of words from MUL, MULS and MULSU, whose carry is the sign the next
\* instruction extends.
ProductsExact ==
  /\ Returned("mul")  => MulExact
  /\ Returned("muls") => MulsExact

CopyExact   == Word(16) = u /\ Word(18) = v
ModifyExact ==
  LET x == Bits(Low(u)) y == Bits(Low(v))
  IN  /\ Bits(dm[16]) = x
      /\ Bits(dm[17]) = (x \ y) \cup (y \ x)
      /\ Bits(dm[18]) = x \cup y
      /\ Bits(dm[25]) = x \ y
      /\ dm[Buf1] = High(u)
LpmExact    == res = 4660 /\ dm[18] = 18 /\ dm[19] = 120
IoExact     == /\ dm[18] = Low(u) % 16
               /\ Bits(dm[19]) = (Bits(Low(u)) \ {0}) \cup {1}

\* Post-incremented and pre-decremented pointers carry over a page of 256 bytes in
\* loads, stores, LPM and ELPM, XCH, LAS, LAC and LAT return what was in memory before, and
\* OUT, CBI and SBI leave in an I/O register what IN reads back.
MemoryCopied ==
  /\ Returned("copy")   => CopyExact
  /\ Returned("modify") => ModifyExact
  /\ Returned("lpm")    => LpmExact
  /\ Returned("io")     => IoExact

IsrExact == res = u /\ dm[0] = 0 /\ sreg = arg[3] \cup {GLOBINT}

\* A routine returns with the stack as it was; one that saves its registers hands them
\* back, and an interrupt service routine hands back SREG with the interrupts enabled.
CallsReturn ==
  /\ pc = Home => sp = StackTop
  /\ Returned("calls") => res = u
  /\ Returned("isr")   => IsrExact

SkipExact == dm[18] = (u % 2) + One(~Bit(Low(u), 7)) + One(Low(u) # Low(v))

\* CPSE, SBRC, SBRS, SBIC and SBIS skip the whole instruction that follows, of one word
\* or two, when their condition holds, and CPSE, SBRC and SBRS skip nothing when it does
\* not: pc is never on the second word of an instruction, and only what is skipped has no
\* effect.  Of SBIC and SBIS with a condition that does not hold see OneOfTwoSkips.
SkipsWhole ==
  /\ pm[pc].op # "data"
  /\ Returned("skip") => SkipExact

\* Every routine returns to its caller: the loops on DEC, INC and BRNE end, and the
\* jumps and calls in all their forms come back.
EveryRoutineReturns == <>(pc = Home)

\* "SBIS - Skip if Bit in I/O Register is Set", "SBIC - Skip if Bit in I/O Register is
\* Cleared": of the two on one bit, exactly one skips.  In the code the other one moves on
\* by two words as well: it skips an instruction of one word, and of one of two words the
\* first.
OneOfTwoSkips == Returned("poll") => dm[18] = 1
=============================================================================
