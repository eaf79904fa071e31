-------------------------------- MODULE Usart ---------------------------------
(***************************************************************************)
(* The USART of the ATmega8A (avr_m8a.c), between the firmware and the     *)
(* pseudo-terminal.  A cycle of the simulation ticks the USART             *)
(* (MSIM_M8AUpdate) and then lets the firmware touch a register, so the    *)
(* USART sees what the firmware did in the cycle before.                   *)
(*                                                                         *)
(* The code is that of a build with a pseudo-terminal.  UBRRH and UCSRC    *)
(* are one cell of the data memory, which holds what was written last to   *)
(* either.  What update_watched does for SPMCR is not part of it.          *)
(***************************************************************************)
EXTENDS Pty, Integers, FiniteSets

CONSTANTS
  Weight,        \* of the low bit of UBRRH in the baud rate: 256
  Normal, Double,\* ticks of a clock in the asynchronous modes: 16 and 8
  UdrWrites,     \* number of bytes the firmware writes, which are Typed+1...
  Settings,      \* what it may write elsewhere: <<register, value>>
  MaxSettings    \* how often it does

\* Registers hold bytes.
ASSUME UsartAssumption ==
  /\ Weight \in Nat /\ Normal \in Nat /\ Double \in Nat
  /\ UdrWrites \in Nat /\ Typed + UdrWrites < 256
  /\ Settings \subseteq {"UCSRA", "UCSRB", "UBRRL", "UCSRC", "UBRRH"} \X (0..255)
\* A byte that is typed fits in the smallest frame, of five bits.
ASSUME FramesAssumption == Typed < 32

VARIABLES
  r,             \* the data memory: UDR, UCSRA, UCSRB, UBRRL and UCSRC (with UBRRH)
  did,           \* writ_io[0] and read_io[0]: did.writ and did.read are registers or "none"
  u,             \* mcu->usart
  w,             \* ubrrh_buf, ucsrc_buf, ubrrl_buf
  \* Histories.
  ubrrh,         \* what the firmware wrote last to UBRRH
  given,         \* bytes it wrote to an empty transmitter
  sent,          \* frames sent to the terminal: [data, from, size]
  got,           \* typed bytes it read after a receive complete
  lost,          \* bytes received that no read was for: overwritten, half a frame, ninth bits
  settings       \* number of settings written

usartVars == <<r, did, u, w, ubrrh, given, sent, got, lost, settings>>
vars == <<ptyVars, usartVars>>

Bit(v, i) == (v \div 2^i) % 2
With(v, i, b) == v + (b - Bit(v, i)) * 2^i

\* UCSRA
RXC == 7
TXC == 6
UDRE == 5
U2X == 1
\* UCSRB
RXEN == 4
TXEN == 3
UCSZ2 == 2
TXB8 == 0
\* UCSRC.  URSEL is 0 in UBRRH.
URSEL == 7
UMSEL == 6

-----------------------------------------------------------------------------
(* tick_usart.  Its state is s: the registers, mcu->usart, the terminal's buffer and  *)
(* what goes to the terminal.                                                         *)

\* The baud rate.  UMSEL is tested where URSEL tells which register the cell holds.
Baud(x) ==
  LET high == IF Bit(x.UCSRC, UMSEL) = 0 /\ x.UCSRC # w.ubrrh THEN x.UCSRC ELSE w.ubrrh
  IN  (high % 16) * Weight + x.UBRRL
Mult(x) == CASE Bit(x.UCSRC, UMSEL) = 1 -> 1
             [] Bit(x.UCSRA, U2X) = 1 -> Double
             [] OTHER -> Normal
Loaded(s) ==
  IF w.ubrrl = s.r.UBRRL /\ s.u.tx_ticks # 0 THEN s
  ELSE LET b == Baud(s.r) IN
       [s EXCEPT !.u = [@ EXCEPT !.baud = b, !.rx_presc = b + 1, !.rx_ticks = b + 1,
                                 !.tx_presc = Mult(s.r) * (b + 1),
                                 !.tx_ticks = Mult(s.r) * (b + 1)]]

\* A write of UDR goes to the transmitter if that is empty.
\* Mutant: it does so anyway.
TakenAlways(s) ==
  IF did.writ = "UDR"
  THEN [s EXCEPT !.u.txb = s.r.UDR, !.r.UCSRA = With(@, UDRE, 0)] ELSE s
Taken(s) ==
  IF did.writ = "UDR" /\ Bit(s.r.UCSRA, UDRE) = 1
  THEN [s EXCEPT !.u.txb = s.r.UDR, !.r.UCSRA = With(@, UDRE, 0)] ELSE s
ReadSeen(s) == IF did.read = "UDR" THEN [s EXCEPT !.r.UCSRA = With(@, RXC, 0)] ELSE s

Less(n) == IF n > 0 THEN n - 1 ELSE 0

\* Character size: 0, 1, 2, 3 and 7 are five to nine bits, the others reserved.
Ucsz(x) ==
  LET c == IF Bit(x.UCSRC, UMSEL) = 0 THEN w.ucsrc ELSE x.UCSRC
  IN  4 * Bit(x.UCSRB, UCSZ2) + ((c \div 2) % 4)
Reserved(size) == size \in {4, 5, 6}
Frame(size) == IF size = 7 THEN 2 ELSE 1
Masked(size, b) == b % 2^(IF size = 7 THEN 8 ELSE 5 + size)

\* usart_receive: a frame of nine bits is two bytes of the terminal.
Receive(s) ==
  LET size == Ucsz(s.r)
      n    == IF Frame(size) < Len(s.in) THEN Frame(size) ELSE Len(s.in)
      buf  == SubSeq(s.in, 1, n)
      left == [s EXCEPT !.in = SubSeq(s.in, n + 1, Len(s.in))]
  IN  IF Reserved(size) \/ Bit(s.r.UCSRA, RXC) = 1 \/ opened = "nomaster" THEN s
      ELSE IF n # Frame(size) THEN [left EXCEPT !.lost = s.lost \o buf]
      ELSE [left EXCEPT !.lost = s.lost \o Tail(buf),
                        !.r.UDR = Masked(size, buf[1]),
                        !.r.UCSRB = With(@, TXB8, IF n = 2 THEN buf[2] % 2 ELSE 0),
                        !.r.UCSRA = With(@, RXC, 1)]
Received(s) ==
  LET c == [s EXCEPT !.u.rx_ticks = Less(@)] IN
  IF c.u.rx_ticks = 0 /\ Bit(c.r.UCSRB, RXEN) = 1
  THEN [Receive(c) EXCEPT !.u.rx_ticks = c.u.rx_presc] ELSE c

\* usart_transmit.  A write to a descriptor that is closed fails; what was to be sent
\* counts as sent.
Transmit(s) ==
  LET size == Ucsz(s.r) IN
  IF Reserved(size) \/ Bit(s.r.UCSRA, UDRE) = 1 \/ opened = "nomaster" THEN s
  ELSE [s EXCEPT !.out = IF opened = "ok"
                         THEN Append(s.out, [data |-> Masked(size, s.u.txb), size |-> size])
                         ELSE s.out,
                 !.r.UCSRA = With(With(@, UDRE, 1), TXC, 1)]
Transmitted(s) ==
  LET c == [s EXCEPT !.u.tx_ticks = Less(@)] IN
  IF c.u.tx_ticks = 0 /\ Bit(c.r.UCSRB, TXEN) = 1 THEN Transmit(c) ELSE c

\* Mutant: what was read is forgotten only after the next byte has come in.
TickForgetsLate(s) == Transmitted(ReadSeen(Received(Taken(Loaded(s)))))
Tick(s) == Transmitted(Received(ReadSeen(Taken(Loaded(s)))))

\* update_watched
Watched(x) ==
  [ ubrrh |-> IF Bit(x.UCSRC, URSEL) = 0 THEN x.UCSRC ELSE w.ubrrh,
    ucsrc |-> IF Bit(x.UCSRC, URSEL) = 1 THEN x.UCSRC ELSE w.ucsrc,
    ubrrl |-> x.UBRRL ]

-----------------------------------------------------------------------------
(* Cycles. *)

\* MSIM_M8AInit.  The static ucsrc_buf is set by update_watched.
Init ==
  /\ PtyInit
  /\ r = [UDR |-> 0, UCSRA |-> 32, UCSRB |-> 0, UBRRL |-> 0, UCSRC |-> 130]
  /\ did = [writ |-> "none", read |-> "none"]
  /\ u = [baud |-> 0, rx_ticks |-> 0, tx_ticks |-> 0, rx_presc |-> 0, tx_presc |-> 0, txb |-> 0]
  /\ w = [ubrrh |-> 0, ucsrc |-> 130, ubrrl |-> 0]
  /\ ubrrh = 0 /\ given = <<>> /\ sent = <<>> /\ got = <<>> /\ lost = <<>> /\ settings = 0

\* The cycle up to the instruction: MSIM_M8AUpdate
Ticked == Tick([r |-> r, u |-> u, in |-> thr.buf, out |-> <<>>, lost |-> lost])

\* What a cycle leaves, with what the firmware does at its end.
Cycle(s, regs, op) ==
  /\ phase = "run"
  /\ u' = s.u /\ thr' = [thr EXCEPT !.buf = s.in] /\ sent' = sent \o s.out
  /\ w' = Watched(s.r)
  /\ r' = regs /\ did' = op
  /\ UNCHANGED <<opened, phase, slave, attached, typed, line, reader, dropped>>
Nothing == [writ |-> "none", read |-> "none"]

Compute ==
  LET s == Ticked IN
  /\ Cycle(s, s.r, Nothing) /\ lost' = s.lost
  /\ UNCHANGED <<ubrrh, given, got, settings>>
\* A byte received and not read yet shares its register with the one that is written.
WriteUdr ==
  LET s == Ticked
      b == Typed + Len(given) + 1
      full == Bit(s.r.UCSRA, RXC) = 1
  IN  /\ Len(given) < UdrWrites
      /\ Cycle(s, [s.r EXCEPT !.UDR = b], [writ |-> "UDR", read |-> "none"])
      /\ given' = IF Bit(s.r.UCSRA, UDRE) = 1 THEN Append(given, b) ELSE given
      /\ lost' = IF full /\ s.r.UDR \in 1..Typed THEN Append(s.lost, s.r.UDR) ELSE s.lost
      /\ UNCHANGED <<ubrrh, got, settings>>
ReadUdr ==
  LET s == Ticked IN
  /\ Cycle(s, s.r, [writ |-> "none", read |-> "UDR"])
  /\ got' = IF Bit(s.r.UCSRA, RXC) = 1 /\ s.r.UDR \in 1..Typed
            THEN Append(got, s.r.UDR) ELSE got
  /\ lost' = s.lost /\ UNCHANGED <<ubrrh, given, settings>>
Set(reg, v) ==
  LET s == Ticked
      \* UCSRA takes TXC, U2X and MPCM, UCSRB all but RXB8
      value == CASE reg = "UCSRA" -> With(With(s.r.UCSRA, U2X, Bit(v, U2X)), TXC, Bit(v, TXC))
                 [] OTHER -> v
      cell  == IF reg = "UBRRH" THEN "UCSRC" ELSE reg
  IN  /\ settings < MaxSettings /\ settings' = settings + 1
      /\ Cycle(s, [s.r EXCEPT ![cell] = value], [writ |-> cell, read |-> "none"])
      /\ ubrrh' = IF reg = "UBRRH" THEN v ELSE ubrrh
      /\ lost' = s.lost /\ UNCHANGED <<given, got>>

Firmware == Compute \/ WriteUdr \/ ReadUdr \/ \E x \in Settings : Set(x[1], x[2])
Terminal == Type \/ Detach
Next == Firmware \/ ((Terminal \/ Reader \/ Close) /\ UNCHANGED usartVars)

\* The threads run.  Nothing is asked of the firmware or of the terminal's user.
Spec == Init /\ [][Next]_vars /\ WF_vars(Reader /\ UNCHANGED usartVars)
             /\ WF_vars((CloseSlave \/ CloseMaster \/ Join) /\ UNCHANGED usartVars)

-----------------------------------------------------------------------------
(* Properties. *)

\* What the firmware writes to an empty transmitter reaches the terminal once and in
\* order, in the character size of the time; a byte is on its way if UDRE is clear or
\* the last cycle wrote it.
SentOnce ==
  opened = "ok" =>
    /\ Len(sent) = Len(given) - (IF Bit(r.UCSRA, UDRE) = 0 \/ did.writ = "UDR" THEN 1 ELSE 0)
    /\ \A i \in DOMAIN sent : sent[i].data = Masked(sent[i].size, given[i])

\* Every byte typed is in one place: read by the firmware, waiting in UDR, in the
\* buffer, on its way there, or lost as the code loses it, because the buffer was full,
\* UDR was written, or a frame of nine bits took it.  Bytes are read in the order
\* they were typed, and once.
InUdr == IF Bit(r.UCSRA, RXC) = 1 /\ did.read # "UDR" /\ r.UDR \in 1..Typed THEN <<r.UDR>> ELSE <<>>
OnTheWay == got \o InUdr \o thr.buf \o reader.buf \o line
ReadOnce ==
  /\ \A i, j \in DOMAIN OnTheWay : i < j => OnTheWay[i] < OnTheWay[j]
  /\ \A b \in 1..typed :
       Cardinality({i \in DOMAIN OnTheWay : OnTheWay[i] = b})
       + Cardinality({i \in DOMAIN lost : lost[i] = b})
       + Cardinality({i \in DOMAIN dropped : dropped[i] = b}) = 1

\* MSIM_PTY_Close waits for a reader that may be in read(): it comes back unless a
\* terminal program keeps the line open.
CloseReturns == (phase = "marked") ~> (phase = "joined" \/ attached)

\* A baud rate is the one the firmware asked for last.
BaudAsWritten == [][u'.baud # u.baud => u'.baud = ubrrh * Weight + r.UBRRL]_vars
=============================================================================
