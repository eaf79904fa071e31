------------------------------ MODULE RspFormats ------------------------------
(***************************************************************************)
(* How the requests of a debugger (avr_gdb.c) read and write registers and *)
(* memory: packets of hexadecimal digits, most significant digit of a byte *)
(* first, and binary ones with escapes.  A target is a record of the       *)
(* program memory pm, the data memory dm and pc, a request takes it to     *)
(* another one; a request that is refused leaves it as it is.              *)
(*                                                                         *)
(* Digits are numbers from 0 to 15, bytes are numbers from 0 to 255.       *)
(* Matchpoints are in ProgMem, packets and acknowledgements in Rsp, what   *)
(* "G", "c" and "R" do to the simulation in SimCore.                      *)
(***************************************************************************)
EXTENDS ProgWords, Sequences

CONSTANTS SPL, SPH, SREGADDR,   \* addresses in dm
          flashend, ramend,
          GDB_BUF_MAX

Data   == 8388608     \* 0x800000
E01 == "E01"

Register == 0..34     \* 32 general purpose registers, SREG, SP, pc

\* hex2reg: the digits as a number, most significant first.
Hex2Reg(d) ==
  LET value[n \in 0..Len(d)] == IF n = 0 THEN 0 ELSE (16 * value[n - 1]) + d[n]
  IN  value[Len(d)]

Digits(b) == <<b \div 16, b % 16>>      \* "%02X"
AllDigits(s) ==
  [i \in 1..(2 * Len(s)) |-> Digits(s[(i + 1) \div 2])[IF i % 2 = 1 THEN 1 ELSE 2]]

-----------------------------------------------------------------------------
(* Registers. *)

\* read_reg: SP and pc go out lower byte first.
ReadReg(t, n) ==
  CASE n \in 0..31 -> Digits(t.dm[n])
    [] n = 32 -> Digits(t.dm[SREGADDR])
    [] n = 33 -> Digits(t.dm[SPL]) \o Digits(t.dm[SPH])
    [] n = 34 -> Digits((2 * t.pc) % 256) \o Digits(((2 * t.pc) \div 256) % 256)
                 \o Digits(((2 * t.pc) \div 65536) % 256) \o <<0, 0>>

RegDigits(n) == IF n = 34 THEN 8 ELSE IF n = 33 THEN 4 ELSE 2

\* write_reg.  pc is taken higher byte first, unlike in read_reg.
WriteReg(t, n, d) ==
  CASE n \in 0..31 -> [t EXCEPT !.dm[n] = Hex2Reg(d)]
    [] n = 32 -> [t EXCEPT !.dm[SREGADDR] = Hex2Reg(d)]
    [] n = 33 -> [t EXCEPT !.dm[SPH] = Hex2Reg(d) % 256, !.dm[SPL] = Hex2Reg(d) \div 256]
    [] n = 34 -> [t EXCEPT !.pc = Hex2Reg(d) \div 2]

\* rsp_read_all_regs
RegOffset(n) == IF n <= 33 THEN 2 * n ELSE 70
ReadAll(t) ==
  [i \in 1..78 |->
     LET n == CHOOSE k \in Register : i - RegOffset(k) \in 1..RegDigits(k)
     IN  ReadReg(t, n)[i - RegOffset(n)]]

-----------------------------------------------------------------------------
(* Memory. *)

InFlash(addr)  == addr < flashend       \* an even address, or the last byte is cut off
InData(addr)   == addr >= Data /\ addr - Data <= ramend

\* rsp_read_mem: the even address below is read.
ReadLength(len) == IF 2 * len >= GDB_BUF_MAX THEN (GDB_BUF_MAX - 1) \div 2 ELSE len
FlashByte(t, addr, i) ==
  LET w == t.pm[(addr \div 2) + (i \div 2)] IN IF i % 2 = 0 THEN Lo(w) ELSE Hi(w)
ReadMem(t, addr, len) ==
  LET n == ReadLength(len) IN
  IF InFlash(addr) THEN AllDigits([i \in 1..n |-> FlashByte(t, addr, i - 1)])
  ELSE IF InData(addr) THEN AllDigits([i \in 1..n |-> t.dm[addr - Data + (i - 1)]])
  ELSE IF addr = Data + ramend + 1 /\ n = 2 THEN <<0, 0, 0, 0>>
  ELSE E01

\* Writes bytes: whole words of the flash, any bytes of the data memory.
Written(t, addr, s) ==
  IF InFlash(addr)
  THEN [t EXCEPT !.pm = [k \in DOMAIN t.pm |->
          LET i == k - (addr \div 2) IN
          IF i \in 0..((Len(s) \div 2) - 1) THEN (256 * s[(2 * i) + 2]) + s[(2 * i) + 1]
          ELSE t.pm[k]]]
  ELSE IF InData(addr)
  THEN [t EXCEPT !.dm = [k \in DOMAIN t.dm |->
          LET i == k - (addr - Data) IN IF i \in 0..(Len(s) - 1) THEN s[i + 1] ELSE t.dm[k]]]
  ELSE t

\* rsp_write_mem: len bytes in d digits
WriteMem(t, addr, len, d) ==
  IF Len(d) # 2 * len THEN t
  ELSE Written(t, addr, [i \in 1..len |-> Hex2Reg(<<d[(2 * i) - 1], d[2 * i]>>)])

Escape == 125      \* '}'
Flip(b) == IF (b \div 32) % 2 = 1 THEN b - 32 ELSE b + 32      \* b ^ 0x20
\* Mutant: the escape is dropped and the byte behind it kept as it is.
UnescapeKeeps(s) ==
  LET from[i \in 1..(Len(s) + 1)] ==
        IF i > Len(s) THEN <<>>
        ELSE (IF s[i] = Escape THEN <<>> ELSE <<s[i]>>) \o from[i + 1]
  IN  from[1]
\* rsp_unescape
Unescape(s) ==
  LET from[i \in 1..(Len(s) + 2)] ==
        IF i > Len(s) THEN <<>>
        ELSE IF s[i] # Escape THEN <<s[i]>> \o from[i + 1]
        ELSE <<Flip(IF i < Len(s) THEN s[i + 1] ELSE 0)>> \o from[i + 2]   \* 0 ends the packet
  IN  from[1]

\* rsp_write_mem_bin: no more bytes than there are
WriteMemBin(t, addr, len, s) ==
  LET u == Unescape(s) IN
  Written(t, addr, SubSeq(u, 1, IF len < Len(u) THEN len ELSE Len(u)))

-----------------------------------------------------------------------------
(* Properties. *)

Probe == [pm |-> [i \in 0..15 |-> 4660 + i], dm |-> [i \in 0..(ramend + 4) |-> i], pc |-> 7]

\* What a debugger writes to a register is what it reads from there, and from "g", and
\* no other register changes, except pc, whose bytes are swapped.
RegisterReadsBack(n, d) ==
  LET v == SubSeq(d, 1, RegDigits(n))
      t == WriteReg(Probe, n, v)
  IN  /\ ReadReg(t, n) = v
      /\ \A m \in Register \ {n} : ReadReg(t, m) = ReadReg(Probe, m)
      /\ SubSeq(ReadAll(t), RegOffset(n) + 1, RegOffset(n) + RegDigits(n)) = v

\* What GDB escapes before it sends it.
Escaped(s) ==
  LET from[i \in 1..(Len(s) + 1)] ==
        IF i > Len(s) THEN <<>>
        ELSE (IF s[i] \in {35, 36, Escape} THEN <<Escape, Flip(s[i])>> ELSE <<s[i]>>) \o from[i + 1]
  IN  from[1]

\* The two ways to write memory agree, and reading gives the bytes written: words of
\* the flash at even addresses, any bytes of the data memory up to its end.
MemoryReadsBack(addr, s) ==
  LET n == Len(s)
      b == WriteMemBin(Probe, addr, n, Escaped(s))
  IN  /\ b = WriteMem(Probe, addr, n, AllDigits(s))
      /\ (addr >= Data \/ n % 2 = 0) => ReadMem(b, addr, n) = AllDigits(s)
=============================================================================
