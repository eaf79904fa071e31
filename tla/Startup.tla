------------------------------- MODULE Startup --------------------------------
(***************************************************************************)
(* How a simulation starts: the configuration is read from the first file  *)
(* that can be (msim_config.c), MSIM_AVR_Init (avr_simcore.c) makes the    *)
(* device that it names and writes the fuses (avr_m8a.c, avr_m328p.c).     *)
(*                                                                         *)
(* A file is a sequence of lines <<option, value>>, or Missing.  A value   *)
(* is a number: of a name it is which one, of a switch 1 is "yes".  A line *)
(* that is empty, a comment or not of two words is left out.               *)
(***************************************************************************)
EXTENDS Integers, Sequences, SequencesExt

Missing == <<<<"no such file", 0>>>>
Bad     == -1          \* a value that is not what its option takes

Numbers  == {"mcu_freq"}
Flagged  == {"mcu_lockbits", "mcu_efuse", "mcu_hfuse", "mcu_lfuse", "firmware_file"}
Booleans == {"firmware_test", "reset_flash", "trap_at_isr"}
Lists    == {"lua_model", "dump_reg"}
Names    == {"mcu", "vcd_file"}

\* MSIM_CFG, as main leaves it; the options of Flagged are there once they are read.
FirstConf ==
  [ mcu |-> 0, vcd_file |-> 0, mcu_freq |-> 0, rsp_port |-> 12750,
    firmware_test |-> 0, reset_flash |-> 0, trap_at_isr |-> 0,
    lua_model |-> <<>>, dump_reg |-> <<>>, flagged |-> <<>> ]

Ok(c) == [rc |-> 0, conf |-> c]
Error(n, c) == [rc |-> n, conf |-> c]

\* read_line
ReadLine(c, opt, val) ==
  CASE opt \in Numbers /\ val # Bad -> Ok([c EXCEPT ![opt] = val])
    [] opt \in Names -> Ok([c EXCEPT ![opt] = val])
    [] opt \in Flagged /\ val # Bad ->
         Ok([c EXCEPT !.flagged = [o \in DOMAIN c.flagged \cup {opt} |->
                                     IF o = opt THEN val ELSE c.flagged[o]]])
    \* parse_bool: what is neither "yes" nor "no" changes nothing
    [] opt \in Booleans -> Ok(IF val = Bad THEN c ELSE [c EXCEPT ![opt] = val])
    [] opt \in Lists -> Ok([c EXCEPT ![opt] = Append(c[opt], val)])
    [] opt = "rsp_port" /\ val # Bad ->
         Ok(IF val \in 1025..65535 THEN [c EXCEPT !.rsp_port = val] ELSE c)
    [] opt \in Numbers \cup Flagged \cup {"rsp_port"} /\ val = Bad -> Error(2, c)
    [] OTHER -> Error(1, c)

\* read_lines: up to the first line that is refused
ReadLines(c, file) ==
  FoldLeft(LAMBDA r, l : IF r.rc = 0 THEN ReadLine(r.conf, l[1], l[2]) ELSE r, Ok(c), file)

\* read_file
Cleared(c) == [c EXCEPT !.lua_model = <<>>, !.dump_reg = <<>>, !.flagged = <<>>,
                        !.firmware_test = 0, !.reset_flash = 1]
ReadFile(c, file) == IF file = Missing THEN Error(1, c) ELSE ReadLines(Cleared(c), file)

\* MSIM_CFG_Read: the given file, the one of the working directory, the one installed
CfgRead(files) ==
  FoldLeft(LAMBDA r, f : IF r.rc = 0 THEN r ELSE ReadFile(r.conf, f),
           Error(1, FirstConf), files)

-----------------------------------------------------------------------------
(* Fuses. *)

FUSE_LOW == 0
FUSE_HIGH == 1
FUSE_EXT == 2
Bit(v, i) == (v \div 2^i) % 2
KHz(n) == 1000 * n

\* ORIG_M8A and ORIG_M328P, with the default fuses of the headers.
OrigM8A ==
  [ name |-> "m8a", freq |-> KHz(1000), clk_source |-> "INT_CAL_RC", fuse |-> <<\hE1, \hD9>>,
    bls |-> [start |-> \h1800, end |-> \h1FFF, size |-> 2048], reset_pc |-> 0, pc |-> 0,
    flashend |-> \h1FFF ]
OrigM328P ==
  [ name |-> "m328p", freq |-> KHz(1000), clk_source |-> "INT_CAL_RC",
    fuse |-> <<\h62, \hD9, \hFF>>,
    bls |-> [start |-> \h7000, end |-> \h7FFF, size |-> 4096], reset_pc |-> 0, pc |-> 0,
    flashend |-> \h7FFF ]

Clocked(d, source, freq) == [d EXCEPT !.clk_source = source, !.freq = freq]

\* BOOTSZ and BOOTRST.  bls.start counts bytes and reset_pc words, yet one is assigned
\* to the other as it is.
Booted(d, v, least) ==
  LET size == least * 2^(3 - ((v \div 2) % 4))
      b == [start |-> d.flashend + 1 - size, end |-> d.flashend, size |-> size]
      pc == IF Bit(v, 0) = 1 THEN 0 ELSE b.start
  IN  [d EXCEPT !.bls = b, !.reset_pc = pc, !.pc = pc]

CrystalRange == <<KHz(900), KHz(3000), KHz(8000)>>
\* FUSE_LOW of MSIM_M8ASetFuse.  CKOPT is in the high fuse.
LowM8A(d, v) ==
  LET cksel == v % 16 IN
  CASE cksel = 0 -> Clocked(d, "EXT", d.freq)
    [] cksel \in 1..4 -> Clocked(d, "INT_CAL_RC", KHz(1000 * 2^(cksel - 1)))
    [] cksel \in 5..8 ->
         Clocked(d, "EXT_RC", <<KHz(900), KHz(3000), KHz(8000), KHz(12000)>>[cksel - 4])
    [] cksel = 9 -> Clocked(d, "EXT_LOWF_CRYSTAL", 32768)
    [] OTHER -> Clocked(d, "EXT_CRYSTAL", IF Bit(d.fuse[2], 4) = 0 THEN KHz(16000)
                                          ELSE CrystalRange[(cksel \div 2) - 4])
HighM8A(d, v) ==
  LET cksel == d.fuse[1] % 16
      b == Booted(d, v, 256)
  IN  IF Bit(v, 4) = 0 THEN [b EXCEPT !.freq = KHz(16000)]
      ELSE IF cksel \in 5..7 THEN [b EXCEPT !.freq = CrystalRange[cksel - 4]]
      ELSE b
M8ASetFuse(d, n, v) ==
  IF n > 1 THEN d
  ELSE LET w == [d EXCEPT !.fuse[n + 1] = v]
       IN  IF n = FUSE_LOW THEN LowM8A(w, v) ELSE HighM8A(w, v)

\* FUSE_LOW of MSIM_M328PSetFuse
LowM328P(d, v) ==
  LET cksel == v % 16 IN
  CASE cksel = 0 -> Clocked(d, "EXT", d.freq)
    [] cksel = 1 -> d
    [] cksel = 2 -> Clocked(d, "INT_CAL_RC", KHz(8000))
    [] cksel = 3 -> Clocked(d, "INT_128K_RC", KHz(128))
    [] cksel \in {4, 5} ->
         Clocked(d, "EXT_LOWF_CRYSTAL", IF cksel = 4 THEN KHz(1000) ELSE 32768)
    [] cksel \in {6, 7} -> Clocked(d, "FULLSWING_CRYSTAL", KHz(20000))
    [] OTHER -> Clocked(d, "LOWP_CRYSTAL",
                        <<KHz(900), KHz(3000), KHz(8000), KHz(16000)>>[(cksel \div 2) - 3])
M328PSetFuse(d, n, v) ==
  IF n > 2 THEN d
  ELSE LET w == [d EXCEPT !.fuse[n + 1] = v]
       IN  CASE n = FUSE_LOW -> LowM328P(w, v)
             [] n = FUSE_HIGH -> Booted(w, v, 512)
             [] OTHER -> w

SetFuse(d, n, v) == IF d.name = "m8a" THEN M8ASetFuse(d, n, v) ELSE M328PSetFuse(d, n, v)

\* The part of MSIM_AVR_Init behind setup_avr.  Only the lower fuse knows the clock
\* source, so it comes last.
\* Mutant: the other way round.
WrittenLowFirst == <<<<"mcu_lfuse", FUSE_LOW>>, <<"mcu_hfuse", FUSE_HIGH>>,
                     <<"mcu_efuse", FUSE_EXT>>>>
Written == <<<<"mcu_efuse", FUSE_EXT>>, <<"mcu_hfuse", FUSE_HIGH>>, <<"mcu_lfuse", FUSE_LOW>>>>
Frequency(d, freq) == IF freq > d.freq \/ freq = 0 THEN d ELSE [d EXCEPT !.freq = freq]
AvrInit(orig, conf) ==
  LET fused == FoldLeft(LAMBDA d, w : IF w[1] \in DOMAIN conf.flagged
                                      THEN SetFuse(d, w[2], conf.flagged[w[1]]) ELSE d,
                        orig, Written)
  IN  Frequency(fused, conf.mcu_freq)

-----------------------------------------------------------------------------
(* Properties, of the files and of a device. *)

\* Which of the files is used: one is read to its end.
Whole(files) == {i \in 1..Len(files) : files[i] # Missing /\ ReadLines(FirstConf, files[i]).rc = 0}
Lines(file, opt) == SelectSeq(file, LAMBDA l : l[1] = opt /\ l[2] # Bad)

\* A file that is refused half-way leaves nothing behind in what is found in the next
\* one: its fuses, lock bits, firmware, models and registers to dump are those of the
\* file in use, each as the last line on it says.
OneFileInUse(files) ==
  LET r == CfgRead(files) IN
  /\ (r.rc = 0) = (Whole(files) # {})
  /\ r.rc = 0 =>
       LET file == files[CHOOSE i \in Whole(files) : \A j \in Whole(files) : i <= j]
       IN  /\ \A o \in Flagged : (o \in DOMAIN r.conf.flagged) = (Lines(file, o) # <<>>)
           /\ \A o \in DOMAIN r.conf.flagged : r.conf.flagged[o] = Last(Lines(file, o))[2]
           /\ \A o \in Lists : Len(r.conf[o]) = Len(SelectSeq(file, LAMBDA l : l[1] = o))

\* What the comments beside the assignments allow a clock source and its CKSEL.
Fastest(d) ==
  LET cksel == d.fuse[1] % 16 IN
  CASE d.clk_source = "INT_CAL_RC" -> KHz(IF d.name = "m8a" THEN 1000 * 2^(cksel - 1) ELSE 8000)
    [] d.clk_source = "INT_128K_RC" -> KHz(128)
    [] d.clk_source = "EXT_RC" -> KHz(<<900, 3000, 4000, 12000>>[cksel - 4])
    [] d.clk_source = "EXT_LOWF_CRYSTAL" -> IF cksel = 4 THEN KHz(1000) ELSE 32768
    [] d.clk_source = "EXT_CRYSTAL" ->
         KHz(IF Bit(d.fuse[2], 4) = 0 THEN 16000 ELSE <<900, 3000, 8000>>[(cksel \div 2) - 4])
    [] d.clk_source = "LOWP_CRYSTAL" -> KHz(<<900, 3000, 8000, 16000>>[(cksel \div 2) - 3])
    [] d.clk_source = "FULLSWING_CRYSTAL" -> KHz(20000)
    [] d.clk_source = "EXT" -> KHz(16000)

Fused(orig, flagged, freq) ==
  AvrInit(orig, [FirstConf EXCEPT !.flagged = flagged, !.mcu_freq = freq])

\* The clock after all fuses have been written is not faster than that.  A high fuse
\* without a low one is left out: it sets a clock of its own.
ClockAsCommented(orig, flagged, freq) ==
  LET d == Fused(orig, flagged, freq) IN
  "mcu_lfuse" \in DOMAIN flagged \/ "mcu_hfuse" \notin DOMAIN flagged => d.freq <= Fastest(d)

\* Whatever fuses are configured, the clock is one that its source can give although the
\* high fuse writes it too, the boot section ends with the flash and has the size that
\* BOOTSZ tells, and a frequency that the configuration asks for is taken if it is not
\* too high.  The external RC oscillator with CKSEL 7 of the ATmega8A is left out, as
\* ClockAsCommented does not hold of it; where a reset leads is ResetInFlash.
FusesFit(orig, flagged, freq) ==
  LET plain == Fused(orig, flagged, 0)
      d == Fused(orig, flagged, freq)
  IN  /\ \/ d.clk_source = "EXT_RC" /\ d.fuse[1] % 16 = 7
         \/ ClockAsCommented(orig, flagged, freq)
      /\ d.freq = IF freq = 0 \/ freq > plain.freq THEN plain.freq ELSE freq
      /\ d.bls.end = d.flashend /\ d.bls.size = d.bls.end - d.bls.start + 1
      /\ d.bls.size = orig.bls.size \div 2^((d.fuse[2] \div 2) % 4)

\* A reset leads to the first word of the flash or of the boot section.  reset_pc and pc
\* count words, as the loop takes them; bls.start counts bytes.
ResetInFlash(orig, flagged) ==
  LET d == Fused(orig, flagged, 0) IN
  /\ d.reset_pc \in {0, d.bls.start \div 2} /\ d.reset_pc <= d.flashend \div 2
  /\ d.pc = d.reset_pc
=============================================================================
