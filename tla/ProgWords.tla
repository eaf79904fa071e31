------------------------------ MODULE ProgWords -------------------------------
(***************************************************************************)
(* Words of the program memory, as far as the decoder, the skip            *)
(* instructions and the debugger look into them.                           *)
(***************************************************************************)
EXTENDS Integers

Lo(w) == w % 256
Hi(w) == (w \div 256) % 256

BREAK      == 38296      \* 0x9598
BREAK_LOW  == 152
BREAK_HIGH == 149

\* MSIM_AVR_Is32.  The masks 0xFE0F and 0xFE0E keep the upper seven bits and the
\* lower four or three of them: STS 0x9200, LDS 0x9000, JMP 0x940C, CALL 0x940E.
Masked32(w) == <<w \div 512, w % 16>>
\* Mutant: LDS and STS are told from LDD and STD by one bit less.
Is32Short(w) == Masked32(w) \in ({72, 73} \X {0, 1}) \cup ({74} \X (12..15))
Is32(w) == Masked32(w) \in ({72, 73} \X {0}) \cup ({74} \X (12..15))
=============================================================================
