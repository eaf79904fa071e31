------------------------------- MODULE Devices --------------------------------
(***************************************************************************)
(* The timers of the devices (m8a.h, m328p.h): tables that avr_timer.c     *)
(* (module Timer) interprets, and the access to the bits of registers that *)
(* they name (io_macro.h).                                                 *)
(***************************************************************************)
EXTENDS Registers, SequencesExt

(***************************************************************************)
(* Bits of registers.  dm holds the registers.                             *)
(***************************************************************************)
Bits(reg, bit, n) == [reg |-> reg, bit |-> bit, mbits |-> n]
Bit(reg, bit)   == Bits(reg, bit, 1)
Byte(reg)       == Bits(reg, 0, 8)
Word(low, high) == <<Byte(low), Byte(high)>>
NoBit           == Bits("none", 0, 0)

\* IOBIT_RD and IOBIT_RDA: the first bits of the array are the lowest ones.
Rd(dm, b) == (dm[b.reg] \div 2^b.bit) % 2^b.mbits
Shift(bs, i) == FoldLeft(LAMBDA n, b : n + b.mbits, 0, SubSeq(bs, 1, i - 1))
Rda(dm, bs) == FoldLeftDomain(LAMBDA v, i : v + Rd(dm, bs[i]) * 2^Shift(bs, i), 0, bs)

\* IOBIT_WR through WRITE_DS, which keeps what the mask of the register protects.
Merge(old, new, mask) ==
  FoldSet(LAMBDA i, v : v + 2^i * (IF (mask \div 2^i) % 2 = 1 THEN (new \div 2^i) % 2
                                                             ELSE (old \div 2^i) % 2), 0, 0..7)
Wr(h, dm, b, v) ==
  LET put == dm[b.reg] - Rd(dm, b) * 2^b.bit + (v % 2^b.mbits) * 2^b.bit
  IN  [dm EXCEPT ![b.reg] = Merge(dm[b.reg], put, WriteMask(h, b.reg))]
\* IOBIT_WRA
\* Mutant: every element takes the lowest bits.
WraUnshifted(h, dm, bs, v) ==
  FoldLeftDomain(LAMBDA d, i : Wr(h, d, bs[i], v), dm, bs)
Wra(h, dm, bs, v) ==
  FoldLeftDomain(LAMBDA d, i : Wr(h, d, bs[i], v \div 2^Shift(bs, i)), dm, bs)

(***************************************************************************)
(* Waveform generation modes.  The registers that hold TOP are rtop, or    *)
(* none if top does.                                                       *)
(***************************************************************************)
Fixed(kind, size, top, upd, tov) ==
  [kind |-> kind, size |-> size, top |-> top, rtop |-> <<>>, updocr_at |-> upd, settov_at |-> tov]
ByReg(kind, rtop, upd, tov) ==
  [kind |-> kind, size |-> 0, top |-> 0, rtop |-> rtop, updocr_at |-> upd, settov_at |-> tov]
Undefined == Fixed("NONE", 0, 0, "ATNONE", "ATNONE")

Normal(size)       == Fixed("NORMAL", size, 2^size - 1, "ATIMMEDIATE", "ATMAX")
Ctc(reg)           == ByReg("CTC", reg, "ATIMMEDIATE", "ATMAX")
PcPwm(size)        == Fixed("PCPWM", size, 2^size - 1, "ATTOP", "ATBOTTOM")
PcPwmOf(reg)       == ByReg("PCPWM", reg, "ATTOP", "ATBOTTOM")
PfcPwmOf(reg)      == ByReg("PFCPWM", reg, "ATBOTTOM", "ATBOTTOM")
FastPwm(size, top) == Fixed("FASTPWM", size, top, "ATBOTTOM", "ATTOP")
FastPwmOf(reg)     == ByReg("FASTPWM", reg, "ATBOTTOM", "ATTOP")
FastPwmMax(size)   == Fixed("FASTPWM", size, 2^size - 1, "ATBOTTOM", "ATMAX")

Icr1  == Word("ICR1L", "ICR1H")
Ocr1a == Word("OCR1AL", "OCR1AH")
Timer1Modes(top7) ==
  << Normal(16), PcPwm(8), PcPwm(9), PcPwm(10), Ctc(Ocr1a), FastPwm(8, 255), FastPwm(9, 511),
     FastPwm(10, top7), PfcPwmOf(Icr1), PfcPwmOf(Ocr1a), PcPwmOf(Icr1), PcPwmOf(Ocr1a),
     Ctc(Icr1), Undefined, FastPwmOf(Icr1), FastPwmOf(Ocr1a) >>
EightBitModes(ocr) ==
  << Normal(8), PcPwm(8), Ctc(ocr), FastPwmMax(8), Undefined, PcPwmOf(ocr), Undefined,
     FastPwmOf(ocr) >>

M8ATimer1Modes    == Timer1Modes(511)      \* mode 7 counts as far as mode 6
M8ATimer2Modes    == <<Normal(8), PcPwm(8), Ctc(<<Byte("OCR2")>>), FastPwmMax(8)>>
M328PTimer0Modes  == EightBitModes(<<Byte("OCR0A")>>)
M328PTimer1Modes  == Timer1Modes(1023)
M328PTimer2Modes  == EightBitModes(<<Byte("OCR2A")>>)

(***************************************************************************)
(* Pin actions by the two COM bits: a row for each mode, the first for     *)
(* mode 0.                                                                 *)
(***************************************************************************)
Plain  == <<"DISC", "TGONCM", "CLONCM", "STONCM">>
Dual   == <<"DISC", "DISC", "CLONUP_STONDOWN", "STONUP_CLONDOWN">>
DualTg == <<"DISC", "TGONCM", "CLONUP_STONDOWN", "STONUP_CLONDOWN">>
Fast   == <<"DISC", "DISC", "CLONCM_STATBOT", "STONCM_CLATBOT">>
FastTg == <<"DISC", "TGONCM", "CLONCM_STATBOT", "STONCM_CLATBOT">>
NoRow  == <<"DISC", "DISC", "DISC", "DISC">>

Timer1Rows(r9, r11, r14, r15) ==
  << Plain, Dual, Dual, Dual, Plain, Fast, Fast, Fast, Dual, r9, Dual, r11, Plain, NoRow,
     r14, r15 >>
M8ATimer1RowsA   == Timer1Rows(DualTg, Dual, Fast, FastTg)
M8ATimer1RowsB   == Timer1Rows(Dual, Dual, Fast, Fast)
M8ATimer2Rows    == <<Plain, Dual, Plain, Fast>>
M328PTimer0RowsA == <<Plain, Dual, Plain, Fast, NoRow, DualTg, NoRow, FastTg>>
M328PTimer0RowsB == <<Plain, Dual, Plain, Fast, NoRow, Dual, NoRow, Fast>>
M328PTimer1RowsA == Timer1Rows(DualTg, DualTg, FastTg, FastTg)
M328PTimer1RowsB == Timer1Rows(Dual, Dual, Fast, Fast)
\* The fast modes 3 and 7 have the actions of the phase correct ones.
M328PTimer2RowsA == <<Plain, Dual, Plain, Dual, NoRow, DualTg, NoRow, DualTg>>
M328PTimer2RowsB == <<Plain, Dual, Plain, Dual, NoRow, Dual, NoRow, Dual>>

(***************************************************************************)
(* Timers.  An interrupt has a bit that enables it, a flag and a vector.   *)
(***************************************************************************)
Irq(enable, raised, vector) == [enable |-> enable, raised |-> raised, vector |-> vector]
Comp(ocr, pin, ddp, com, rows, iv) ==
  [ocr |-> ocr, pin |-> pin, ddp |-> ddp, com |-> com, com_op |-> rows, iv |-> iv]
Timer(size, tcnt, disabled, cs, cs_div, wgm, wgm_op, iv_ovf, capture, comps) ==
  [size |-> size, tcnt |-> tcnt, disabled |-> disabled, cs |-> cs, cs_div |-> cs_div,
   wgm |-> wgm, wgm_op |-> wgm_op, iv_ovf |-> iv_ovf, capture |-> capture, comp |-> comps]

From(reg, bit, n) == [i \in 1..n |-> Bit(reg, bit + (i - 1))]
NoCapture == <<>>
Capture(iv) == << [icr |-> Icr1, icp |-> Bit("PORTB", 0), ices |-> Bit("TCCR1B", 6), iv |-> iv] >>
Div5 == <<0, 0, 3, 6, 8, 10>>
Div7 == <<0, 0, 3, 5, 6, 7, 8, 10>>
Timer1Wgm == From("TCCR1A", 0, 2) \o From("TCCR1B", 3, 2)
Tcnt1     == Word("TCNT1L", "TCNT1H")

\* Timer 0 of the ATmega8A has no modes: avr_timer.c takes it for a normal one.
M8ATimer0 ==
  Timer(8, <<Byte("TCNT0")>>, NoBit, From("TCCR0", 0, 3), Div5, <<>>, <<>>,
        Irq(Bit("TIMSK", 0), Bit("TIFR", 0), 9), NoCapture, <<>>)
M8ATimer1 ==
  Timer(16, Tcnt1, NoBit, From("TCCR1B", 0, 3), Div5, Timer1Wgm, M8ATimer1Modes,
        Irq(Bit("TIMSK", 2), Bit("TIFR", 2), 8),
        Capture(Irq(Bit("TIMSK", 5), Bit("TIFR", 5), 5)),
        << Comp(Ocr1a, Bit("PORTB", 1), Bit("DDRB", 1), Bits("TCCR1A", 6, 2), M8ATimer1RowsA,
                Irq(Bit("TIMSK", 4), Bit("TIFR", 4), 6)),
           Comp(Word("OCR1BL", "OCR1BH"), Bit("PORTB", 2), Bit("DDRB", 2),
                Bits("TCCR1A", 4, 2), M8ATimer1RowsB,
                Irq(Bit("TIMSK", 3), Bit("TIFR", 3), 7)) >>)
M8ATimer2 ==
  Timer(8, <<Byte("TCNT2")>>, NoBit, From("TCCR2", 0, 3), Div7,
        <<Bit("TCCR2", 6), Bit("TCCR2", 3)>>, M8ATimer2Modes,
        Irq(Bit("TIMSK", 6), Bit("TIFR", 6), 4), NoCapture,
        << Comp(<<Byte("OCR2")>>, Bit("PORTB", 3), Bit("DDRB", 3), Bits("TCCR2", 4, 2),
                M8ATimer2Rows, Irq(Bit("TIMSK", 7), Bit("TIFR", 7), 3)) >>)

\* An eight-bit timer of the ATmega328P.
EightBit(n, prr, div, modes, vectors, portA, bitA, rowsA, portB, bitB, rowsB) ==
  LET reg(name) == name \o n
      a == "TCCR" \o n \o "A"
      b == "TCCR" \o n \o "B"
      irq(bit, vector) == Irq(Bit(reg("TIMSK"), bit), Bit(reg("TIFR"), bit), vector)
  IN  Timer(8, <<Byte(reg("TCNT"))>>, Bit("PRR", prr), From(b, 0, 3), div,
            From(a, 0, 2) \o <<Bit(b, 3)>>, modes, irq(0, vectors[3]), NoCapture,
            << Comp(<<Byte("OCR" \o n \o "A")>>, Bit("PORT" \o portA, bitA),
                    Bit("DDR" \o portA, bitA), Bits(a, 6, 2), rowsA, irq(1, vectors[1])),
               Comp(<<Byte("OCR" \o n \o "B")>>, Bit("PORT" \o portB, bitB),
                    Bit("DDR" \o portB, bitB), Bits(a, 4, 2), rowsB, irq(2, vectors[2])) >>)
M328PTimer0 == EightBit("0", 5, Div5, M328PTimer0Modes, <<14, 15, 16>>, "D", 6,
                        M328PTimer0RowsA, "D", 5, M328PTimer0RowsB)
M328PTimer1 ==
  LET irq(bit, vector) == Irq(Bit("TIMSK1", bit), Bit("TIFR1", bit), vector)
  IN  Timer(16, Tcnt1, Bit("PRR", 3), From("TCCR1B", 0, 3), Div5, Timer1Wgm,
            M328PTimer1Modes, irq(0, 13), Capture(irq(5, 10)),
            << Comp(Ocr1a, Bit("PORTB", 1), Bit("DDRB", 1), Bits("TCCR1A", 6, 2),
                    M328PTimer1RowsA, irq(1, 11)),
               Comp(Word("OCR1BL", "OCR1BH"), Bit("PORTB", 2), Bit("DDRB", 2),
                    Bits("TCCR1A", 4, 2), M328PTimer1RowsB, irq(2, 12)) >>)
M328PTimer2 == EightBit("2", 6, Div7, M328PTimer2Modes, <<7, 8, 9>>, "B", 3,
                        M328PTimer2RowsA, "D", 3, M328PTimer2RowsB)

M8A   == [header |-> M8Header, timers |-> <<M8ATimer0, M8ATimer1, M8ATimer2>>, ioports |-> <<>>]
M328P == [header |-> M328Header, timers |-> <<M328PTimer0, M328PTimer1, M328PTimer2>>,
          ioports |-> <<"B", "C", "D">>]
-----------------------------------------------------------------------------
(* Properties of a timer t of a device d. *)

Irqs(t) == {t.iv_ovf} \cup {t.capture[i].iv : i \in DOMAIN t.capture}
           \cup {t.comp[i].iv : i \in DOMAIN t.comp}
\* What avr_timer.c writes: the flags, the counter, the capture register, the pins.
WrittenBits(t) ==
  {<<iv.raised>> : iv \in Irqs(t)} \cup {t.tcnt}
  \cup {t.capture[i].icr : i \in DOMAIN t.capture}
  \cup {<<t.comp[i].pin>> : i \in DOMAIN t.comp}
\* What the firmware writes.
FirmwareBits(t) ==
  {<<iv.enable>> : iv \in Irqs(t)} \cup {t.cs} \cup {t.wgm} \cup {t.tcnt}
  \cup {t.comp[i].ocr : i \in DOMAIN t.comp} \cup {<<t.comp[i].com>> : i \in DOMAIN t.comp}
  \cup {<<t.comp[i].ddp>> : i \in DOMAIN t.comp}
  \cup ({t.wgm_op[m].rtop : m \in DOMAIN t.wgm_op} \ {<<>>})

\* A value written to bits in one or two registers is read back as it was, and the other
\* bits stay: the masks that protect the registers leave these bits writable.
BitsReadBack(d, bs, v) ==
  LET regs == {bs[i].reg : i \in DOMAIN bs}
      used == [r \in regs |-> FoldSet(LAMBDA i, m : m + (2^bs[i].mbits - 1) * 2^bs[i].bit, 0,
                                      {i \in DOMAIN bs : bs[i].reg = r})]
      value == v % 2^Shift(bs, Len(bs) + 1)
  IN  \A fill \in {0, 90, 255} :
        LET before == [r \in regs |-> fill]
            after  == Wra(d.header, before, bs, value)
        IN  /\ Rda(after, bs) = value
            /\ \A r \in regs : Merge(after[r], 0, used[r]) = Merge(fill, 0, used[r])

\* All interrupts of a device differ in vector, flag and enable bit, and all pins differ.
AllIrqs(d) == UNION {Irqs(d.timers[i]) : i \in DOMAIN d.timers}
AllPins(d) == UNION {{<<i, j>> : j \in DOMAIN d.timers[i].comp} : i \in DOMAIN d.timers}
PinOf(d, p) == d.timers[p[1]].comp[p[2]].pin
NothingShared(d) ==
  /\ \A x, y \in AllIrqs(d) :
       x.vector = y.vector \/ x.raised = y.raised \/ x.enable = y.enable => x = y
  /\ \A p, q \in AllPins(d) : PinOf(d, p) = PinOf(d, q) => p = q
  /\ \A p \in AllPins(d) : PinOf(d, p).bit = d.timers[p[1]].comp[p[2]].ddp.bit

\* The actions on a pin fit the slopes of a mode, and a fixed TOP its size.  Excepted
\* are mode 7 of timer 1 of the ATmega8A and the fast modes of timer 2 of the other.
DualKinds == {"PCPWM", "PFCPWM"}
ActionsFit(kind, row) ==
  CASE kind \in {"NORMAL", "CTC"} -> row = Plain
    [] kind \in DualKinds -> row \in {Dual, DualTg}
    [] kind = "FASTPWM" -> row \in {Fast, FastTg}
    [] OTHER -> row = NoRow
ModesFit(t) ==
  \A m \in DOMAIN t.wgm_op :
    LET w == t.wgm_op[m] IN
    /\ w.rtop = <<>> /\ w.kind # "NONE" =>
         w.top = 2^w.size - 1 \/ (t = M8ATimer1 /\ m = 8)
    /\ \A i \in DOMAIN t.comp :
         ActionsFit(w.kind, t.comp[i].com_op[m]) \/ (t = M328PTimer2 /\ m \in {4, 8})
=============================================================================
