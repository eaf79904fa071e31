------------------------------- MODULE Decoder -------------------------------
(***************************************************************************)
(* How decode_inst (avr_decoder.c) finds the handler of a word.  It looks  *)
(* at the upper four bits first and then tries masks one after the other,  *)
(* so the order matters wherever two masks share a word: sixteen handlers  *)
(* of branches, sixteen of SREG bits and some of loads and stores are      *)
(* never called because a more general one comes first.                    *)
(*                                                                         *)
(* Instructions has what the handlers do.                                  *)
(***************************************************************************)
EXTENDS ProgWords, SequencesExt

Words16 == 0..65535

\* Bitwise and of two words, one hexadecimal digit at a time.
AndOf == [a \in 0..15, b \in 0..15 |->
            SumSet({2^i : i \in {j \in 0..3 : (a \div 2^j) % 2 = 1 /\ (b \div 2^j) % 2 = 1}})]
Digit(x, i) == (x \div 16^i) % 16
And(x, m) == AndOf[Digit(x, 0), Digit(m, 0)] + 16 * AndOf[Digit(x, 1), Digit(m, 1)]
             + 256 * AndOf[Digit(x, 2), Digit(m, 2)] + 4096 * AndOf[Digit(x, 3), Digit(m, 3)]

-----------------------------------------------------------------------------
(* decode_inst: <<mask, value, handler>> in the order of the tests. *)

M(mask, value, handler) == <<mask, value, handler>>
Exact(value, handler)   == <<\hFFFF, value, handler>>
RegD(value, handler)    == <<\hFE0F, value, handler>>   \* one register operand

Group0 ==
  << M(\hFF00, \h0200, "muls"), M(\hFF88, \h0300, "mulsu"), M(\hFF88, \h0308, "fmul"),
     M(\hFF88, \h0380, "fmuls"), M(\hFF88, \h0388, "fmulsu"), Exact(0, "nop"),
     M(\hFC00, \h0400, "cpc"), M(\hFC00, \h0800, "sbc"), M(\hFC00, \h0C00, "add_lsl"),
     M(\hFF00, \h0100, "movw") >>

Group1 ==
  << M(\hFC00, \h1000, "cpse"), M(\hFC00, \h1400, "cp"), M(\hFC00, \h1800, "sub"),
     M(\hFC00, \h1C00, "adc_rol") >>
Group2 ==
  << M(\hFC00, \h2000, "and"), M(\hFC00, \h2400, "eor_clr"), M(\hFC00, \h2800, "or"),
     M(\hFC00, \h2C00, "mov") >>

\* Y and Z with displacement, from 0x8000 and from 0xA000.
Displacements ==
  << M(\hD208, \h8000, "ld_zdisp"), M(\hD208, \h8008, "ld_ydisp"),
     M(\hD208, \h8200, "st_zdisp"), M(\hD208, \h8208, "st_ydisp") >>
Group8 == Displacements \o
  << RegD(\h8000, "ld_z"), RegD(\h8008, "ld_y"), RegD(\h8200, "st_z"), RegD(\h8208, "st_y") >>
GroupA == Displacements \o
  << M(\hF800, \hA000, "lds16"), M(\hF800, \hA800, "sts16") >>

Flags == <<"c", "z", "n", "v", "s", "h", "t", "i">>     \* bits 0 to 7 of SREG
SetFlags   == [i \in 1..8 |-> Exact(\h9408 + 16 * (i - 1), "se" \o Flags[i])]
ClearFlags == [i \in 1..8 |-> Exact(\h9488 + 16 * (i - 1), "cl" \o Flags[i])]

Group9 ==
  << M(\hFF00, \h9600, "adiw"), M(\hFF8F, \h9488, "bclr"), M(\hFF8F, \h9408, "bset"),
     M(\hFE0E, \h940C, "jmp"), M(\hFE0E, \h940E, "call"), M(\hFC00, \h9C00, "mul") >>
  \o SetFlags \o ClearFlags \o
  << Exact(\h9409, "ijmp"), Exact(\h9419, "eijmp"), Exact(\h9508, "ret"),
     Exact(\h9509, "icall"), Exact(\h9518, "reti"), Exact(\h9519, "eicall"),
     Exact(\h9598, "break"), Exact(\h95A8, "wdr"), Exact(\h95C8, "lpm"),
     Exact(\h95D8, "elpm"), Exact(\h95E8, "spm"), Exact(\h95F8, "spm"),
     RegD(\h9000, "lds"), RegD(\h9001, "ld_z"), RegD(\h9002, "ld_z"),
     RegD(\h9004, "lpm"), RegD(\h9005, "lpm"), RegD(\h9006, "elpm"), RegD(\h9007, "elpm"),
     RegD(\h9009, "ld_y"), RegD(\h900A, "ld_y"), RegD(\h900C, "ld_x"),
     RegD(\h900D, "ld_x"), RegD(\h900E, "ld_x"), RegD(\h900F, "pop"),
     RegD(\h9200, "sts"), RegD(\h9201, "st_z"), RegD(\h9202, "st_z"), RegD(\h9204, "xch"),
     RegD(\h9205, "las"), RegD(\h9206, "lac"), RegD(\h9207, "lat"), RegD(\h9209, "st_y"),
     RegD(\h920A, "st_y"), RegD(\h920C, "st_x"), RegD(\h920D, "st_x"),
     RegD(\h920E, "st_x"), RegD(\h920F, "push"),
     RegD(\h9400, "com"), RegD(\h9401, "neg"), RegD(\h9402, "swap"), RegD(\h9403, "inc"),
     RegD(\h9405, "asr"), RegD(\h9406, "lsr"), RegD(\h9407, "ror"), RegD(\h940A, "dec"),
     M(\hFF00, \h9700, "sbiw"), M(\hFF00, \h9800, "cbi"), M(\hFF00, \h9900, "sbic"),
     M(\hFF00, \h9A00, "sbi"), M(\hFF00, \h9B00, "sbis") >>

BranchesSet   == <<"brcs", "breq", "brmi", "brvs", "brlt", "brhs", "brts", "brie">>
BranchesClear == <<"brcc", "brne", "brpl", "brvc", "brge", "brhc", "brtc", "brid">>
GroupF ==
  << M(\hFE08, \hF800, "bld"), M(\hFE08, \hFA00, "bst"), M(\hFE08, \hFC00, "sbrc"),
     M(\hFE08, \hFE00, "sbrs"), M(\hFC00, \hF400, "brbc"), M(\hFC00, \hF000, "brbs") >>
  \o [i \in 1..8 |-> M(\hFC07, \hF000 + (i - 1), BranchesSet[i])]
  \o [i \in 1..8 |-> M(\hFC07, \hF400 + (i - 1), BranchesClear[i])]

All(n, handler) == <<M(\hF000, 4096 * n, handler)>>
Groups ==
  << Group0, Group1, Group2, All(3, "cpi"), All(4, "sbci"), All(5, "subi"),
     All(6, "ori_sbr"), All(7, "andi_cbr"), Group8, Group9, GroupA, All(11, "in_out"),
     All(12, "rjmp"), All(13, "rcall"), <<M(\hFF0F, \hEF0F, "ser")>> \o All(14, "ldi"),
     GroupF >>

Claims(w) == SelectSeq(Groups[(w \div 4096) + 1], LAMBDA e : And(w, e[1]) = e[2])
Handler(w) == IF Claims(w) = <<>> THEN "unknown" ELSE Head(Claims(w))[3]
\* Handlers that would take the word if an earlier test had not.
Shadowed(w) == {Claims(w)[i][3] : i \in 2..Len(Claims(w))}

-----------------------------------------------------------------------------
(* What the handlers of branches and SREG bits make of a word. *)

\* Words that a taken branch moves pc by: c > 63 is negative.
Distance(w) == LET c == (w \div 8) % 128 IN (IF c > 63 THEN c - 128 ELSE c) + 1

\* The second operand is the set of bits that are set in SREG.
GenericTaken(h, w, s) == ((w % 8) \in s) = (h = "brbs")

\* exec_brlt and exec_brge take the exclusive or of NEG and TCOF instead of SIGN.
Condition(i, s) == IF i = 5 THEN (2 \in s) # (3 \in s) ELSE (i - 1) \in s
NamedTaken(h, s) ==
  \E i \in 1..8 : \/ h = BranchesSet[i] /\ Condition(i, s)
                  \/ h = BranchesClear[i] /\ ~Condition(i, s)

\* exec_brne shifts an unsigned word and keeps the bits of the opcode: pc is out of
\* the flash.
NamedDistance(h, w) == IF h = "brne" THEN (w \div 8) + 1 ELSE Distance(w)

GenericSreg(h, w, s) ==
  LET bit == (w \div 16) % 8 IN IF h = "bset" THEN s \cup {bit} ELSE s \ {bit}
NamedSreg(h, s) ==
  LET i == CHOOSE j \in 1..8 : h \in {"se" \o Flags[j], "cl" \o Flags[j]}
  IN  IF h = "se" \o Flags[i] THEN s \cup {i - 1} ELSE s \ {i - 1}

-----------------------------------------------------------------------------
(* Properties. *)

\* CPSE, SBRC, SBRS, SBIC, SBIS and the debugger ask MSIM_AVR_Is32 how long an
\* instruction is, and its handler moves pc by as much: the two are masks in
\* different places.  Only LDS, STS, JMP and CALL have a second word.
TwoWordHandlers == {"lds", "sts", "jmp", "call"}
LengthAgrees(w) == Is32(w) <=> Handler(w) \in TwoWordHandlers

\* A handler that is never called because a general one comes first would do the
\* same to SREG and pc, whatever is set in SREG.  Excepted are BRNE, and BRLT and
\* BRGE in firmware that leaves SIGN different from the exclusive or of NEG and TCOF.
Sregs == {s \in SUBSET (0..7) : Cardinality(s) <= 3}
Consistent(s) == (4 \in s) = ((2 \in s) # (3 \in s))
AliasesAgree(w) ==
  \A g \in {Handler(w)}, h \in Shadowed(w) :
    /\ w \in \hF000..\hF7FF /\ h # "brne" =>
         /\ Distance(w) = NamedDistance(h, w)
         /\ \A s \in Sregs : Consistent(s) \/ h \notin {"brlt", "brge"} =>
                               GenericTaken(g, w, s) = NamedTaken(h, s)
    /\ g \in {"bset", "bclr"} =>
         \A s \in Sregs : GenericSreg(g, w, s) = NamedSreg(h, s)
DecodingAgrees(w) == LengthAgrees(w) /\ AliasesAgree(w)
=============================================================================
