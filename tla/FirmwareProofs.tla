---------------------------- MODULE FirmwareProofs ----------------------------
(***************************************************************************)
(* The routines of Firmware keep what they promise to their caller,        *)
(* whatever words and flags they are called with: the arithmetic and the   *)
(* products of words, copies of memory, calls that return, and skips of    *)
(* whole instructions.                                                     *)
(*                                                                         *)
(* The argument is that of a proof of a program: an assertion before every *)
(* instruction of every routine (AddAt, ..., MulsAt), and for every        *)
(* instruction what it leaves to the next one as a number or as a set of   *)
(* bits (AddRuns, ..., RetRuns), found from the single bits from which     *)
(* avr_decoder.c computes its flags.  XHolds takes a routine from one      *)
(* assertion to the next; FirmwareInv is what all of them amount to.       *)
(***************************************************************************)
EXTENDS Firmware, TLAPS

\* Single bits of a number, as comparisons.
LEMMA Bit7 == \A x \in Int : Bit(x, 7) <=> x % 256 >= 128
<1>1. 2^7 = 128
  OBVIOUS
<1>2. \A x \in Int : (x \div 128) % 2 = 1 <=> x % 256 >= 128
  OBVIOUS
<1>. QED
  BY <1>1, <1>2 DEF Bit

\* The bit from which the half carry is found.
LEMMA Bit3 == \A x \in Int : Bit(x, 3) <=> x % 16 >= 8
<1>1. 2^3 = 8
  OBVIOUS
<1>2. \A x \in Int : (x \div 8) % 2 = 1 <=> x % 16 >= 8
  OBVIOUS
<1>. QED
  BY <1>1, <1>2 DEF Bit

\* The lowest bit.
LEMMA Bit0 == \A x \in Int : Bit(x, 0) <=> x % 2 = 1
<1>1. 2^0 = 1
  OBVIOUS
<1>2. \A x \in Int : (x \div 1) % 2 = 1 <=> x % 2 = 1
  OBVIOUS
<1>. QED
  BY <1>1, <1>2 DEF Bit

\* The byte of a sum or a difference of two bytes and a carry.
LEMMA LowOfSum ==
  \A n \in (-256)..511 : /\ n % 256 \in Byte
                         /\ n < 0 => n % 256 = n + 256
                         /\ n \in Byte => n % 256 = n
                         /\ n > 255 => n % 256 = n - 256
BY DEF Byte

\* The carries and the sign that an addition finds from single bits.
LEMMA AddCarries ==
  ASSUME NEW x \in Byte, NEW y \in Byte, NEW c \in {0, 1}, NEW r, r = Low(x + y + c)
  PROVE  /\ CarryOut(x, y, r, 7) <=> x + y + c > 255
         /\ CarryOut(x, y, r, 3) <=> (x % 16) + (y % 16) + c > 15
         /\ (Bit(r, 7) # AddOverflow(x, y, r)) <=> Signed(x) + Signed(y) + c < 0
<1>1. r \in Byte /\ (r = x + y + c \/ r = x + y + c - 256) /\ x \in Int /\ y \in Int /\ r \in Int
  <2>1. PICK n \in (-256)..511 : n = x + y + c
    BY DEF Byte
  <2>2. r = n % 256 /\ n >= 0 /\ x \in Int /\ y \in Int
    BY <2>1 DEF Byte, Low
  <2>3. r \in Byte /\ (r = n \/ r = n - 256)
    BY <2>2, LowOfSum DEF Byte
  <2>. QED
    BY <2>1, <2>2, <2>3 DEF Byte
<1>2. \A z \in Byte : Bit(z, 7) <=> z >= 128
  BY Bit7 DEF Byte
<1>3. CarryOut(x, y, r, 7) <=> x + y + c > 255
  BY <1>1, <1>2 DEF CarryOut, Byte
<1>4. CarryOut(x, y, r, 3) <=> (x % 16) + (y % 16) + c > 15
  <2>1. \A a, b, d \in 0..15 : d = (a + b + c) % 16 =>
           (a + b + c > 15 <=> (a >= 8 /\ b >= 8) \/ (b >= 8 /\ ~(d >= 8)) \/ (~(d >= 8) /\ a >= 8))
    <3>1. CASE c = 0
      BY <3>1
    <3>2. CASE c = 1
      BY <3>2
    <3>. QED
      BY <3>1, <3>2
  <2>2. (Bit(x, 3) <=> x % 16 >= 8) /\ (Bit(y, 3) <=> y % 16 >= 8) /\ (Bit(r, 3) <=> r % 16 >= 8)
    BY <1>1, Bit3
  <2>. DEFINE a == x % 16
              b == y % 16
              d == r % 16
  <2>3. a \in 0..15 /\ b \in 0..15 /\ d \in 0..15 /\ d = (a + b + c) % 16
    BY <1>1 DEF Byte
  <2>4. (Bit(x, 3) <=> a >= 8) /\ (Bit(y, 3) <=> b >= 8) /\ (Bit(r, 3) <=> d >= 8)
    BY <2>2
  <2>. HIDE DEF a, b, d
  <2>5. CarryOut(x, y, r, 3) <=> (a >= 8 /\ b >= 8) \/ (b >= 8 /\ ~(d >= 8))
          \/ (~(d >= 8) /\ a >= 8)
    BY <2>4 DEF CarryOut
  <2>6. CarryOut(x, y, r, 3) <=> a + b + c > 15
    BY <2>1, <2>3, <2>5
  <2>. QED
    BY <2>6 DEF a, b
<1>5. (Bit(r, 7) # AddOverflow(x, y, r)) <=> Signed(x) + Signed(y) + c < 0
  <2>1. AddOverflow(x, y, r) <=> \/ x >= 128 /\ y >= 128 /\ r < 128
                                 \/ x < 128 /\ y < 128 /\ r >= 128
    BY <1>1, <1>2 DEF AddOverflow, Byte
  <2>2. Signed(x) = (IF x >= 128 THEN x - 256 ELSE x)
          /\ Signed(y) = (IF y >= 128 THEN y - 256 ELSE y)
    BY DEF Signed, Byte
  <2>3. (Bit(r, 7) /\ ~AddOverflow(x, y, r)) \/ (~Bit(r, 7) /\ AddOverflow(x, y, r))
        <=> Signed(x) + Signed(y) + c < 0
    BY <1>1, <1>2, <2>1, <2>2 DEF Byte
  <2>. QED
    BY <2>3 DEF Bit, AddOverflow
<1>. QED
  BY <1>3, <1>4, <1>5

\* The borrows and the sign that a subtraction finds from single bits.
LEMMA SubBorrows ==
  ASSUME NEW x \in Byte, NEW y \in Byte, NEW c \in {0, 1}, NEW r \in Int,
         Low(r) = Low(x - y - c)
  PROVE  /\ Borrow(x, y, r, 7) <=> x < y + c
         /\ Borrow(x, y, r, 3) <=> x % 16 < (y % 16) + c
         /\ (Bit(r, 7) # SubOverflow(x, y, r)) <=> Signed(x) - Signed(y) - c < 0
<1>. DEFINE q == r % 256
<1>1. q \in Byte /\ (q = x - y - c \/ q = x - y - c + 256) /\ x \in Int /\ y \in Int
      /\ q % 16 = r % 16
  <2>1. x - y - c \in (-256)..511
    BY DEF Byte
  <2>2. \A n \in Int : (n % 256) % 256 = n % 256 /\ (n % 256) % 16 = n % 16
    OBVIOUS
  <2>3. q = (x - y - c) % 256
    BY DEF Low
  <2>4. PICK n \in (-256)..511 : n = x - y - c
    BY <2>1
  <2>5. q \in Byte /\ (q = n \/ q = n + 256)
    BY <2>3, <2>4, LowOfSum DEF Byte
  <2>. QED
    BY <2>2, <2>4, <2>5 DEF Byte
<1>2. (\A z \in Byte : Bit(z, 7) <=> z >= 128) /\ (Bit(r, 7) <=> q >= 128)
  BY Bit7 DEF Byte
<1>3. Borrow(x, y, r, 7) <=> x < y + c
  BY <1>1, <1>2 DEF Borrow, Byte
<1>4. Borrow(x, y, r, 3) <=> x % 16 < (y % 16) + c
  <2>1. q % 16 = ((x % 16) - (y % 16) - c) % 16
    BY <1>1 DEF Byte
  <2>2. (Bit(x, 3) <=> x % 16 >= 8) /\ (Bit(y, 3) <=> y % 16 >= 8) /\ (Bit(r, 3) <=> q % 16 >= 8)
    BY <1>1, Bit3
  <2>3. \A a, b, d \in 0..15 : d = (a - b - c) % 16 =>
           (a < b + c <=> (~(a >= 8) /\ b >= 8) \/ (b >= 8 /\ d >= 8) \/ (d >= 8 /\ ~(a >= 8)))
    <3>1. CASE c = 0
      BY <3>1
    <3>2. CASE c = 1
      BY <3>2
    <3>. QED
      BY <3>1, <3>2
  <2>. DEFINE a == x % 16
              b == y % 16
              d == q % 16
  <2>4. a \in 0..15 /\ b \in 0..15 /\ d \in 0..15 /\ d = (a - b - c) % 16
    BY <1>1, <2>1 DEF Byte
  <2>5. (Bit(x, 3) <=> a >= 8) /\ (Bit(y, 3) <=> b >= 8) /\ (Bit(r, 3) <=> d >= 8)
    BY <2>2
  <2>. HIDE DEF a, b, d
  <2>6. Borrow(x, y, r, 3) <=> (~(a >= 8) /\ b >= 8) \/ (b >= 8 /\ d >= 8) \/ (d >= 8 /\ ~(a >= 8))
    BY <2>5 DEF Borrow
  <2>7. Borrow(x, y, r, 3) <=> a < b + c
    BY <2>3, <2>4, <2>6
  <2>. QED
    BY <2>7 DEF a, b
<1>5. (Bit(r, 7) # SubOverflow(x, y, r)) <=> Signed(x) - Signed(y) - c < 0
  <2>1. SubOverflow(x, y, r) <=> \/ x >= 128 /\ y < 128 /\ q < 128
                                 \/ x < 128 /\ y >= 128 /\ q >= 128
    BY <1>1, <1>2 DEF SubOverflow, Byte
  <2>2. Signed(x) = (IF x >= 128 THEN x - 256 ELSE x)
          /\ Signed(y) = (IF y >= 128 THEN y - 256 ELSE y)
    BY DEF Signed, Byte
  <2>3. (Bit(r, 7) /\ ~SubOverflow(x, y, r)) \/ (~Bit(r, 7) /\ SubOverflow(x, y, r))
        <=> Signed(x) - Signed(y) - c < 0
    BY <1>1, <1>2, <2>1, <2>2 DEF Byte
  <2>. QED
    BY <2>3 DEF Bit, SubOverflow
<1>. QED
  BY <1>3, <1>4, <1>5

-----------------------------------------------------------------------------
(* One instruction. *)

\* The operation of an instruction decides which handler it has.
LEMMA Guards ==
  /\ ExecAdd      => I.op \in {"ADD", "ADC"}
  /\ ExecSub      => I.op \in {"SUB", "SUBI"}
  /\ ExecSbc      => I.op \in {"SBC", "SBCI"}
  /\ ExecCp       => I.op \in {"CP", "CPI"}
  /\ ExecCpc      => I.op \in {"CPC"}
  /\ ExecNeg      => I.op \in {"NEG"}
  /\ ExecIncDec   => I.op \in {"INC", "DEC"}
  /\ ExecAdiw     => I.op \in {"ADIW"}
  /\ ExecSbiw     => I.op \in {"SBIW"}
  /\ ExecMul      => I.op \in {"MUL", "MULS", "MULSU"}
  /\ ExecFmul     => I.op \in {"FMUL", "FMULS", "FMULSU"}
  /\ ExecLogic    => I.op \in {"AND", "ANDI", "OR", "ORI", "EOR"}
  /\ ExecCom      => I.op \in {"COM"}
  /\ ExecAsrLsr   => I.op \in {"ASR", "LSR"}
  /\ ExecRor      => I.op \in {"ROR"}
  /\ ExecSwap     => I.op \in {"SWAP"}
  /\ ExecBitFlag  => I.op \in {"BSET", "BCLR", "BST"}
  /\ ExecBld      => I.op \in {"BLD"}
  /\ ExecMove     => I.op \in {"MOV", "LDI", "SER", "MOVW"}
  /\ ExecLd       => I.op \in {"LD", "LDP", "LDM"}
  /\ ExecSt       => I.op \in {"ST", "STP", "STM"}
  /\ ExecLdsSts   => I.op \in {"LDS", "STS"}
  /\ ExecInOut    => I.op \in {"IN", "OUT"}
  /\ ExecSbiCbi   => I.op \in {"SBI", "CBI"}
  /\ ExecModify   => I.op \in {"XCH", "LAS", "LAC", "LAT"}
  /\ ExecLpm      => I.op \in {"LPM", "LPMP", "ELPM", "ELPMP"}
  /\ ExecPushPop  => I.op \in {"PUSH", "POP"}
  /\ ExecSkip     => I.op \in {"CPSE", "SBRC", "SBRS"}
  /\ ExecSbisSbic => I.op \in {"SBIS", "SBIC"}
  /\ ExecBranch   => I.op \in {"BRBS", "BRBC"}
  /\ ExecJump     => I.op \in {"RJMP", "JMP", "IJMP"}
  /\ ExecCall     => I.op \in {"RCALL", "CALL", "ICALL"}
  /\ ExecRet      => I.op \in {"RET", "RETI"}
  /\ ExecNothing  => I.op \in {"NOP", "WDR"}
<1>1. ExecAdd => I.op \in {"ADD", "ADC"}
  BY DEF ExecAdd
<1>2. ExecSub => I.op \in {"SUB", "SUBI"}
  BY DEF ExecSub
<1>3. ExecSbc => I.op \in {"SBC", "SBCI"}
  BY DEF ExecSbc
<1>4. ExecCp => I.op \in {"CP", "CPI"}
  BY DEF ExecCp
<1>5. ExecCpc => I.op \in {"CPC"}
  BY DEF ExecCpc
<1>6. ExecNeg => I.op \in {"NEG"}
  BY DEF ExecNeg
<1>7. ExecIncDec => I.op \in {"INC", "DEC"}
  BY DEF ExecIncDec
<1>8. ExecAdiw => I.op \in {"ADIW"}
  BY DEF ExecAdiw
<1>9. ExecSbiw => I.op \in {"SBIW"}
  BY DEF ExecSbiw
<1>10. ExecMul => I.op \in {"MUL", "MULS", "MULSU"}
  BY DEF ExecMul
<1>11. ExecFmul => I.op \in {"FMUL", "FMULS", "FMULSU"}
  BY DEF ExecFmul
<1>12. ExecLogic => I.op \in {"AND", "ANDI", "OR", "ORI", "EOR"}
  BY DEF ExecLogic
<1>13. ExecCom => I.op \in {"COM"}
  BY DEF ExecCom
<1>14. ExecAsrLsr => I.op \in {"ASR", "LSR"}
  BY DEF ExecAsrLsr
<1>15. ExecRor => I.op \in {"ROR"}
  BY DEF ExecRor
<1>16. ExecSwap => I.op \in {"SWAP"}
  BY DEF ExecSwap
<1>17. ExecBitFlag => I.op \in {"BSET", "BCLR", "BST"}
  BY DEF ExecBitFlag
<1>18. ExecBld => I.op \in {"BLD"}
  BY DEF ExecBld
<1>19. ExecMove => I.op \in {"MOV", "LDI", "SER", "MOVW"}
  BY DEF ExecMove
<1>20. ExecLd => I.op \in {"LD", "LDP", "LDM"}
  BY DEF ExecLd
<1>21. ExecSt => I.op \in {"ST", "STP", "STM"}
  BY DEF ExecSt
<1>22. ExecLdsSts => I.op \in {"LDS", "STS"}
  BY DEF ExecLdsSts
<1>23. ExecInOut => I.op \in {"IN", "OUT"}
  BY DEF ExecInOut
<1>24. ExecSbiCbi => I.op \in {"SBI", "CBI"}
  BY DEF ExecSbiCbi
<1>25. ExecModify => I.op \in {"XCH", "LAS", "LAC", "LAT"}
  BY DEF ExecModify
<1>26. ExecLpm => I.op \in {"LPM", "LPMP", "ELPM", "ELPMP"}
  BY DEF ExecLpm
<1>27. ExecPushPop => I.op \in {"PUSH", "POP"}
  BY DEF ExecPushPop
<1>28. ExecSkip => I.op \in {"CPSE", "SBRC", "SBRS"}
  BY DEF ExecSkip
<1>29. ExecSbisSbic => I.op \in {"SBIS", "SBIC"}
  BY DEF ExecSbisSbic
<1>30. ExecBranch => I.op \in {"BRBS", "BRBC"}
  BY DEF ExecBranch
<1>31. ExecJump => I.op \in {"RJMP", "JMP", "IJMP"}
  BY DEF ExecJump
<1>32. ExecCall => I.op \in {"RCALL", "CALL", "ICALL"}
  BY DEF ExecCall
<1>33. ExecRet => I.op \in {"RET", "RETI"}
  BY DEF ExecRet
<1>34. ExecNothing => I.op \in {"NOP", "WDR"}
  BY DEF ExecNothing
<1>. QED
  BY <1>1, <1>2, <1>3, <1>4, <1>5, <1>6, <1>7, <1>8, <1>9, <1>10, <1>11, <1>12, <1>13, <1>14,
     <1>15, <1>16, <1>17, <1>18, <1>19, <1>20, <1>21, <1>22, <1>23, <1>24, <1>25, <1>26, <1>27,
     <1>28, <1>29, <1>30, <1>31, <1>32, <1>33, <1>34

\* Next is the handler of the operation.
LEMMA Dispatch ==
  ASSUME Next
  PROVE  /\ I.op \in {"ADD", "ADC"} => ExecAdd
         /\ I.op \in {"SUB", "SUBI"} => ExecSub
         /\ I.op \in {"SBC", "SBCI"} => ExecSbc
         /\ I.op \in {"CP", "CPI"} => ExecCp
         /\ I.op \in {"CPC"} => ExecCpc
         /\ I.op \in {"NEG"} => ExecNeg
         /\ I.op \in {"INC", "DEC"} => ExecIncDec
         /\ I.op \in {"ADIW"} => ExecAdiw
         /\ I.op \in {"SBIW"} => ExecSbiw
         /\ I.op \in {"MUL", "MULS", "MULSU"} => ExecMul
         /\ I.op \in {"FMUL", "FMULS", "FMULSU"} => ExecFmul
         /\ I.op \in {"AND", "ANDI", "OR", "ORI", "EOR"} => ExecLogic
         /\ I.op \in {"COM"} => ExecCom
         /\ I.op \in {"ASR", "LSR"} => ExecAsrLsr
         /\ I.op \in {"ROR"} => ExecRor
         /\ I.op \in {"SWAP"} => ExecSwap
         /\ I.op \in {"BSET", "BCLR", "BST"} => ExecBitFlag
         /\ I.op \in {"BLD"} => ExecBld
         /\ I.op \in {"MOV", "LDI", "SER", "MOVW"} => ExecMove
         /\ I.op \in {"LD", "LDP", "LDM"} => ExecLd
         /\ I.op \in {"ST", "STP", "STM"} => ExecSt
         /\ I.op \in {"LDS", "STS"} => ExecLdsSts
         /\ I.op \in {"IN", "OUT"} => ExecInOut
         /\ I.op \in {"SBI", "CBI"} => ExecSbiCbi
         /\ I.op \in {"XCH", "LAS", "LAC", "LAT"} => ExecModify
         /\ I.op \in {"LPM", "LPMP", "ELPM", "ELPMP"} => ExecLpm
         /\ I.op \in {"PUSH", "POP"} => ExecPushPop
         /\ I.op \in {"CPSE", "SBRC", "SBRS"} => ExecSkip
         /\ I.op \in {"SBIS", "SBIC"} => ExecSbisSbic
         /\ I.op \in {"BRBS", "BRBC"} => ExecBranch
         /\ I.op \in {"RJMP", "JMP", "IJMP"} => ExecJump
         /\ I.op \in {"RCALL", "CALL", "ICALL"} => ExecCall
         /\ I.op \in {"RET", "RETI"} => ExecRet
         /\ I.op \in {"NOP", "WDR"} => ExecNothing
<1>1. I.op \in {"ADD", "ADC"} => ExecAdd
  BY Guards DEF Next
<1>2. I.op \in {"SUB", "SUBI"} => ExecSub
  BY Guards DEF Next
<1>3. I.op \in {"SBC", "SBCI"} => ExecSbc
  BY Guards DEF Next
<1>4. I.op \in {"CP", "CPI"} => ExecCp
  BY Guards DEF Next
<1>5. I.op \in {"CPC"} => ExecCpc
  BY Guards DEF Next
<1>6. I.op \in {"NEG"} => ExecNeg
  BY Guards DEF Next
<1>7. I.op \in {"INC", "DEC"} => ExecIncDec
  BY Guards DEF Next
<1>8. I.op \in {"ADIW"} => ExecAdiw
  BY Guards DEF Next
<1>9. I.op \in {"SBIW"} => ExecSbiw
  BY Guards DEF Next
<1>10. I.op \in {"MUL", "MULS", "MULSU"} => ExecMul
  BY Guards DEF Next
<1>11. I.op \in {"FMUL", "FMULS", "FMULSU"} => ExecFmul
  BY Guards DEF Next
<1>12. I.op \in {"AND", "ANDI", "OR", "ORI", "EOR"} => ExecLogic
  BY Guards DEF Next
<1>13. I.op \in {"COM"} => ExecCom
  BY Guards DEF Next
<1>14. I.op \in {"ASR", "LSR"} => ExecAsrLsr
  BY Guards DEF Next
<1>15. I.op \in {"ROR"} => ExecRor
  BY Guards DEF Next
<1>16. I.op \in {"SWAP"} => ExecSwap
  BY Guards DEF Next
<1>17. I.op \in {"BSET", "BCLR", "BST"} => ExecBitFlag
  BY Guards DEF Next
<1>18. I.op \in {"BLD"} => ExecBld
  BY Guards DEF Next
<1>19. I.op \in {"MOV", "LDI", "SER", "MOVW"} => ExecMove
  BY Guards DEF Next
<1>20. I.op \in {"LD", "LDP", "LDM"} => ExecLd
  BY Guards DEF Next
<1>21. I.op \in {"ST", "STP", "STM"} => ExecSt
  BY Guards DEF Next
<1>22. I.op \in {"LDS", "STS"} => ExecLdsSts
  BY Guards DEF Next
<1>23. I.op \in {"IN", "OUT"} => ExecInOut
  BY Guards DEF Next
<1>24. I.op \in {"SBI", "CBI"} => ExecSbiCbi
  BY Guards DEF Next
<1>25. I.op \in {"XCH", "LAS", "LAC", "LAT"} => ExecModify
  BY Guards DEF Next
<1>26. I.op \in {"LPM", "LPMP", "ELPM", "ELPMP"} => ExecLpm
  BY Guards DEF Next
<1>27. I.op \in {"PUSH", "POP"} => ExecPushPop
  BY Guards DEF Next
<1>28. I.op \in {"CPSE", "SBRC", "SBRS"} => ExecSkip
  BY Guards DEF Next
<1>29. I.op \in {"SBIS", "SBIC"} => ExecSbisSbic
  BY Guards DEF Next
<1>30. I.op \in {"BRBS", "BRBC"} => ExecBranch
  BY Guards DEF Next
<1>31. I.op \in {"RJMP", "JMP", "IJMP"} => ExecJump
  BY Guards DEF Next
<1>32. I.op \in {"RCALL", "CALL", "ICALL"} => ExecCall
  BY Guards DEF Next
<1>33. I.op \in {"RET", "RETI"} => ExecRet
  BY Guards DEF Next
<1>34. I.op \in {"NOP", "WDR"} => ExecNothing
  BY Guards DEF Next
<1>. QED
  BY <1>1, <1>2, <1>3, <1>4, <1>5, <1>6, <1>7, <1>8, <1>9, <1>10, <1>11, <1>12, <1>13, <1>14,
     <1>15, <1>16, <1>17, <1>18, <1>19, <1>20, <1>21, <1>22, <1>23, <1>24, <1>25, <1>26, <1>27,
     <1>28, <1>29, <1>30, <1>31, <1>32, <1>33, <1>34

Reg == 0..31

\* What every instruction finds: registers in the memory, bytes in both, flags in SREG.
Regs == dm \in [Locs -> Byte] /\ sreg \subseteq 0..7 /\ Reg \subseteq Locs

\* An instruction leaves n in register d, or in none, and execution goes on behind it.
GoesOn       == pc' = pc + 1 /\ UNCHANGED <<sp, pm, fn, arg>> /\ sreg' \subseteq 0..7
Stores(d, n) == n \in Byte /\ dm' = [dm EXCEPT ![d] = n] /\ GoesOn

\* The flags after x + y + c and after x - y - c, as numbers.
AddFlags(x, y, c) ==
  /\ CARRY \in sreg'  <=> x + y + c > 255
  /\ HCARRY \in sreg' <=> (x % 16) + (y % 16) + c > 15
  /\ SIGN \in sreg'   <=> Signed(x) + Signed(y) + c < 0
SubtractFlags(x, y, c) ==
  /\ CARRY \in sreg'  <=> x < y + c
  /\ HCARRY \in sreg' <=> x % 16 < (y % 16) + c
  /\ SIGN \in sreg'   <=> Signed(x) - Signed(y) - c < 0

\* A byte stored in a register leaves the rest of the memory.
LEMMA StoredRegister ==
  ASSUME Regs, NEW d \in Reg, NEW n, Stores(d, n)
  PROVE  /\ Regs' /\ dm'[d] = n
         /\ \A l \in Locs : l # d => dm'[l] = dm[l]
  BY DEF Regs, Stores, GoesOn

\* Sums and differences of bytes, and their low bytes.
LEMMA ByteSums ==
  \A x, y \in Byte : \A c \in {0, 1} :
    /\ x + y + c \in Int /\ Low(x + y + c) \in Byte /\ Low(x + y + c) = (x + y + c) % 256
    /\ x - y - c \in Int /\ Low(x - y - c) \in Byte /\ Low(x - y - c) = (x - y - c) % 256
BY DEF Low, Byte

\* A low byte is its own low byte.
LEMMA CutTwice == \A n \in Int : Low(Low(n)) = Low(n)
BY DEF Low

\* A low byte is a remainder.
LEMMA LowByte == \A n \in Int : Low(n) \in Byte /\ Low(n) = n % 256
  BY DEF Low, Byte

\* Flags are set one by one.
LEMMA FlagSets ==
  /\ \A a, f : On(a, f) \subseteq {f}
  /\ \A n, o : NegV(n, o) \subseteq NVS
  /\ NVS \subseteq 0..7 /\ CARRY \notin NVS /\ TBIT \notin NVS
<1>1. \A a, f : On(a, f) \subseteq {f}
  BY Zenon DEF On
<1>2. \A n, o : NegV(n, o) \subseteq NVS
  BY <1>1, Zenon DEF NegV, NVS
<1>3. NVS \subseteq 0..7 /\ CARRY \notin NVS /\ TBIT \notin NVS
  BY DEF NVS, NEG, TCOF, SIGN, CARRY, TBIT
<1>. QED
  BY <1>1, <1>2, <1>3

\* SREG after an instruction that sets or clears six flags, by five tests.
SixFlags(S, a, b, n, o, z) ==
  (S \ (CHNVS \cup {ZERO})) \cup (On(a, CARRY) \cup On(b, HCARRY) \cup NegV(n, o) \cup On(z, ZERO))

\* What the six flags say is what their tests say.
LEMMA FlagsOf ==
  ASSUME NEW S \in SUBSET (0..7), NEW a \in BOOLEAN, NEW b \in BOOLEAN, NEW n \in BOOLEAN,
         NEW o \in BOOLEAN, NEW z \in BOOLEAN
  PROVE  /\ SixFlags(S, a, b, n, o, z) \subseteq 0..7
         /\ CARRY \in SixFlags(S, a, b, n, o, z)  <=> a
         /\ HCARRY \in SixFlags(S, a, b, n, o, z) <=> b
         /\ SIGN \in SixFlags(S, a, b, n, o, z)   <=> n # o
         /\ ZERO \in SixFlags(S, a, b, n, o, z)   <=> z
<1>. DEFINE T == SixFlags(S, a, b, n, o, z)
<1>1. T \subseteq 0..7
  <2>1. CARRY \in 0..7 /\ HCARRY \in 0..7 /\ ZERO \in 0..7
    BY DEF CARRY, HCARRY, ZERO
  <2>2. /\ On(a, CARRY) \subseteq {CARRY} /\ On(b, HCARRY) \subseteq {HCARRY}
        /\ On(z, ZERO) \subseteq {ZERO} /\ NegV(n, o) \subseteq NVS /\ NVS \subseteq 0..7
    BY FlagSets
  <2>. QED
    BY <2>1, <2>2 DEF SixFlags
<1>2. CARRY \in T <=> a
  BY DEF SixFlags, On, NegV, CARRY, HCARRY, SIGN, ZERO, NEG, TCOF, CHNVS, NVS
<1>3. HCARRY \in T <=> b
  BY DEF SixFlags, On, NegV, CARRY, HCARRY, SIGN, ZERO, NEG, TCOF, CHNVS, NVS
<1>4. SIGN \in T <=> n # o
  BY DEF SixFlags, On, NegV, CARRY, HCARRY, SIGN, ZERO, NEG, TCOF, CHNVS, NVS
<1>5. ZERO \in T <=> z
  BY DEF SixFlags, On, NegV, CARRY, HCARRY, SIGN, ZERO, NEG, TCOF, CHNVS, NVS
<1>. QED
  BY <1>1, <1>2, <1>3, <1>4, <1>5

\* ADD and ADC store the low byte of the sum; the flags are those of the sum.
LEMMA AddStep ==
  ASSUME Regs, Next, NEW d \in Reg, NEW r \in Reg, NEW c,
         \/ I = RR("ADD", d, r) /\ c = 0
         \/ I = RR("ADC", d, r) /\ c = Carry
  PROVE  /\ c \in {0, 1}
         /\ Stores(d, Low(dm[d] + dm[r] + c))
         /\ AddFlags(dm[d], dm[r], c)
         /\ ZERO \in sreg' <=> Low(dm[d] + dm[r] + c) = 0
<1>1. c \in {0, 1} /\ c = IF I.op = "ADC" THEN Carry ELSE 0
  BY DEF Carry, RR, A
<1>2. I.op \in {"ADD", "ADC"} /\ I.d = d /\ I.r = r
  BY DEF RR, A
<1>3. ExecAdd
  BY <1>2, Dispatch
<1>. DEFINE x == dm[d]
            y == dm[r]
            q == Low(x + y + c)
<1>4. Rd = x /\ Rr = y /\ x \in Byte /\ y \in Byte
  BY <1>2 DEF Rd, Rr, Regs
<1>5. q \in Byte
  BY <1>1, <1>4, ByteSums
<1>6. /\ dm' = [dm EXCEPT ![d] = q] /\ pc' = pc + 1 /\ UNCHANGED <<sp, pm, fn, arg>>
      /\ sreg' = (sreg \ (CHNVS \cup {ZERO}))
                 \cup (On(CarryOut(x, y, q, 7), CARRY) \cup On(CarryOut(x, y, q, 3), HCARRY)
                       \cup NegV(Bit(q, 7), AddOverflow(x, y, q)) \cup On(q = 0, ZERO))
  BY <1>1, <1>2, <1>3, <1>4 DEF ExecAdd, Result, UpdSr, Advance, Keeps
<1>. DEFINE ca == CarryOut(x, y, q, 7)
            ha == CarryOut(x, y, q, 3)
            ne == Bit(q, 7)
            ov == AddOverflow(x, y, q)
            ze == q = 0
<1>7. ca \in BOOLEAN /\ ha \in BOOLEAN /\ ne \in BOOLEAN /\ ov \in BOOLEAN /\ ze \in BOOLEAN
  BY DEF CarryOut, AddOverflow, Bit
<1>8. (ca <=> x + y + c > 255) /\ (ha <=> (x % 16) + (y % 16) + c > 15)
      /\ (ne # ov <=> Signed(x) + Signed(y) + c < 0)
  BY <1>1, <1>4, <1>5, AddCarries
<1>. HIDE DEF x, y, q, ca, ha, ne, ov, ze
<1>9. /\ sreg' \subseteq 0..7
      /\ CARRY \in sreg'  <=> ca
      /\ HCARRY \in sreg' <=> ha
      /\ SIGN \in sreg'   <=> ne # ov
      /\ ZERO \in sreg'   <=> ze
  <2>1. sreg' = SixFlags(sreg, ca, ha, ne, ov, ze)
    BY <1>6 DEF SixFlags, ca, ha, ne, ov, ze
  <2>2. sreg \in SUBSET (0..7)
    BY DEF Regs
  <2>. QED
    BY <1>7, <2>1, <2>2, FlagsOf
<1>10. AddFlags(x, y, c)
  BY <1>8, <1>9, Zenon DEF AddFlags
<1>11. ZERO \in sreg' <=> q = 0
  BY <1>9 DEF ze
<1>. QED
  BY <1>1, <1>5, <1>6, <1>9, <1>10, <1>11 DEF Stores, GoesOn, x, y, q

\* The flags that SubFlags sets, with any test for ZERO.
LEMMA SubtractionSets ==
  ASSUME Regs, Rd \in Byte, NEW y \in Byte, NEW c \in {0, 1}, NEW r \in Int,
         Low(r) = Low(Rd - y - c), NEW z \in BOOLEAN,
         UpdSr(CHNVS \cup {ZERO}, SubFlags(y, r) \cup On(z, ZERO))
  PROVE  sreg' \subseteq 0..7 /\ SubtractFlags(Rd, y, c) /\ (ZERO \in sreg' <=> z)
<1>. DEFINE x  == Rd
            ca == Borrow(x, y, r, 7)
            ha == Borrow(x, y, r, 3)
            ne == Bit(r, 7)
            ov == SubOverflow(x, y, r)
<1>1. ca \in BOOLEAN /\ ha \in BOOLEAN /\ ne \in BOOLEAN /\ ov \in BOOLEAN
  BY DEF Borrow, SubOverflow, Bit
<1>2. (ca <=> x < y + c) /\ (ha <=> x % 16 < (y % 16) + c)
      /\ (ne # ov <=> Signed(x) - Signed(y) - c < 0)
  <2>1. x \in Byte /\ Low(r) = Low(x - y - c)
    OBVIOUS
  <2>. HIDE DEF x
  <2>2. ca <=> x < y + c
    BY <2>1, SubBorrows
  <2>3. ha <=> x % 16 < (y % 16) + c
    BY <2>1, SubBorrows
  <2>4. ne # ov <=> Signed(x) - Signed(y) - c < 0
    BY <2>1, SubBorrows
  <2>. QED
    BY <2>2, <2>3, <2>4
<1>3. sreg' = SixFlags(sreg, ca, ha, ne, ov, z)
  BY DEF UpdSr, SubFlags, SixFlags
<1>4. sreg \in SUBSET (0..7)
  BY DEF Regs
<1>. HIDE DEF x, ca, ha, ne, ov
<1>5. /\ sreg' \subseteq 0..7
      /\ CARRY \in sreg'  <=> ca
      /\ HCARRY \in sreg' <=> ha
      /\ SIGN \in sreg'   <=> ne # ov
      /\ ZERO \in sreg'   <=> z
  BY <1>1, <1>3, <1>4, FlagsOf
<1>6. SubtractFlags(x, y, c)
  BY <1>2, <1>5, Zenon DEF SubtractFlags
<1>. QED
  BY <1>5, <1>6 DEF x

\* Carry is a number.
LEMMA CarryType ==
  Carry \in {0, 1} /\ (Carry = 1 <=> CARRY \in sreg)
  BY DEF Carry

\* SUB and SUBI
LEMMA SubStep ==
  ASSUME Regs, Next, NEW d \in Reg, NEW y,
         \/ \E r \in Reg : I = RR("SUB", d, r) /\ y = dm[r]
         \/ I = RI("SUBI", d, y) /\ y \in Byte
  PROVE  /\ Stores(d, Low(dm[d] - y))
         /\ SubtractFlags(dm[d], y, 0)
         /\ ZERO \in sreg' <=> Low(dm[d] - y) = 0
<1>1. I.op \in {"SUB", "SUBI"} /\ I.d = d
  BY DEF RR, RI, A
<1>2. ExecSub
  BY <1>1, Dispatch
<1>3. Operand = y /\ y \in Byte /\ Rd = dm[d] /\ Rd \in Byte
  BY DEF Operand, Immediate, Rd, Rr, RR, RI, A, Regs
<1>4. PICK q : q = Low(Rd - y)
  OBVIOUS
<1>5. q \in Byte /\ q \in Int /\ Low(q) = Low(Rd - y - 0)
  <2>1. Rd - y \in Int /\ Rd - y - 0 = Rd - y
    BY <1>3 DEF Byte
  <2>2. q \in Byte
    BY <1>4, <2>1, LowByte
  <2>3. Low(q) = q
    BY <1>4, <2>1, CutTwice
  <2>. QED
    BY <1>4, <2>1, <2>2, <2>3 DEF Byte
<1>. DEFINE z == q = 0
<1>6. /\ dm' = [dm EXCEPT ![d] = q] /\ pc' = pc + 1 /\ UNCHANGED <<sp, pm, fn, arg>>
      /\ UpdSr(CHNVS \cup {ZERO}, SubFlags(y, q) \cup On(z, ZERO))
  BY <1>1, <1>2, <1>3, <1>4 DEF ExecSub, Result, Advance, Keeps
<1>7. sreg' \subseteq 0..7 /\ SubtractFlags(Rd, y, 0) /\ (ZERO \in sreg' <=> z)
  <2>1. z \in BOOLEAN
    OBVIOUS
  <2>. HIDE DEF z
  <2>. QED
    BY <1>3, <1>5, <1>6, <2>1, SubtractionSets
<1>. QED
  BY <1>3, <1>4, <1>5, <1>6, <1>7 DEF Stores, GoesOn

\* SBC and SBCI
LEMMA SbcStep ==
  ASSUME Regs, Next, NEW d \in Reg, NEW y,
         \/ \E r \in Reg : I = RR("SBC", d, r) /\ y = dm[r]
         \/ I = RI("SBCI", d, y) /\ y \in Byte
  PROVE  /\ Stores(d, Low(dm[d] - y - Carry))
         /\ SubtractFlags(dm[d], y, Carry)
         /\ ZERO \in sreg' <=> Low(dm[d] - y - Carry) = 0 /\ ZERO \in sreg
<1>1. I.op \in {"SBC", "SBCI"} /\ I.d = d
  BY DEF RR, RI, A
<1>2. ExecSbc
  BY <1>1, Dispatch
<1>3. Operand = y /\ y \in Byte /\ Rd = dm[d] /\ Rd \in Byte
  BY DEF Operand, Immediate, Rd, Rr, RR, RI, A, Regs
<1>4. PICK c \in {0, 1} : c = Carry
  BY CarryType
<1>5. PICK q : q = Low(Rd - y - c)
  OBVIOUS
<1>6. q \in Byte /\ q \in Int /\ Low(q) = Low(Rd - y - c)
  <2>1. q \in Byte /\ Rd - y - c \in Int
    BY <1>3, <1>5, ByteSums
  <2>2. Low(q) = q
    BY <1>5, <2>1, CutTwice
  <2>. QED
    BY <1>5, <2>1, <2>2 DEF Byte
<1>. DEFINE z == q = 0 /\ ZERO \in sreg
<1>7. /\ dm' = [dm EXCEPT ![d] = q] /\ pc' = pc + 1 /\ UNCHANGED <<sp, pm, fn, arg>>
      /\ UpdSr(CHNVS \cup {ZERO}, SubFlags(y, q) \cup On(z, ZERO))
  BY <1>1, <1>2, <1>3, <1>4, <1>5 DEF ExecSbc, Result, Advance, Keeps, ZeroAfter
<1>8. sreg' \subseteq 0..7 /\ SubtractFlags(Rd, y, c)
      /\ (ZERO \in sreg' <=> z)
  <2>1. z \in BOOLEAN
    OBVIOUS
  <2>. HIDE DEF z
  <2>. QED
    BY <1>3, <1>6, <1>7, <2>1, SubtractionSets
<1>. QED
  BY <1>3, <1>4, <1>5, <1>6, <1>7, <1>8 DEF Stores, GoesOn

\* CP and CPI
LEMMA CpStep ==
  ASSUME Regs, Next, NEW d \in Reg, NEW y,
         \/ \E r \in Reg : I = RR("CP", d, r) /\ y = dm[r]
         \/ I = RI("CPI", d, y) /\ y \in Byte
  PROVE  /\ dm' = dm /\ GoesOn
         /\ SubtractFlags(dm[d], y, 0)
         /\ ZERO \in sreg' <=> dm[d] = y
<1>1. I.op \in {"CP", "CPI"} /\ I.d = d
  BY DEF RR, RI, A
<1>2. ExecCp
  BY <1>1, Dispatch
<1>3. Operand = y /\ y \in Byte /\ Rd = dm[d] /\ Rd \in Byte
  BY DEF Operand, Immediate, Rd, Rr, RR, RI, A, Regs
<1>4. PICK q : q = Rd - y
  OBVIOUS
<1>5. q \in Int /\ Low(q) = Low(Rd - y - 0) /\ (q = 0 <=> Rd = y)
  BY <1>3, <1>4 DEF Byte
<1>6. /\ dm' = dm /\ pc' = pc + 1 /\ UNCHANGED <<sp, pm, fn, arg>>
      /\ UpdSr(CHNVS \cup {ZERO}, SubFlags(y, q) \cup On(q = 0, ZERO))
  BY <1>2, <1>3, <1>4 DEF ExecCp, NoResult, Advance, Keeps
<1>7. sreg' \subseteq 0..7 /\ SubtractFlags(Rd, y, 0) /\ (ZERO \in sreg' <=> q = 0)
  BY <1>3, <1>5, <1>6, SubtractionSets
<1>. QED
  BY <1>3, <1>5, <1>6, <1>7 DEF GoesOn

\* CPC: zero is a difference of zero, not one of -256.
LEMMA CpcStep ==
  ASSUME Regs, Next, NEW d \in Reg, NEW r \in Reg, I = RR("CPC", d, r)
  PROVE  /\ dm' = dm /\ GoesOn
         /\ SubtractFlags(dm[d], dm[r], Carry)
         /\ ZERO \in sreg' <=> dm[d] - dm[r] - Carry = 0 /\ ZERO \in sreg
<1>1. I.op = "CPC" /\ I.d = d /\ I.r = r
  BY DEF RR, A
<1>2. ExecCpc
  BY <1>1, Dispatch
<1>3. Rr = dm[r] /\ Rr \in Byte /\ Rd = dm[d] /\ Rd \in Byte
  BY <1>1 DEF Rd, Rr, Regs
<1>4. PICK c \in {0, 1} : c = Carry
  BY CarryType
<1>5. PICK q : q = Rd - Rr - c
  OBVIOUS
<1>6. q \in Int /\ Low(q) = Low(Rd - Rr - c)
  BY <1>3, <1>5, ByteSums
<1>7. /\ dm' = dm /\ pc' = pc + 1 /\ UNCHANGED <<sp, pm, fn, arg>>
      /\ UpdSr(CHNVS \cup {ZERO}, SubFlags(Rr, q) \cup On(q = 0 /\ ZERO \in sreg, ZERO))
  BY <1>2, <1>4, <1>5 DEF ExecCpc, NoResult, Advance, Keeps, ZeroAfter
<1>8. sreg' \subseteq 0..7 /\ SubtractFlags(Rd, Rr, c)
      /\ (ZERO \in sreg' <=> q = 0 /\ ZERO \in sreg)
  BY <1>3, <1>5, <1>6, <1>7, SubtractionSets
<1>. QED
  BY <1>3, <1>4, <1>5, <1>7, <1>8 DEF GoesOn

-----------------------------------------------------------------------------
(* A routine that runs. *)

\* The bytes of the arguments.
ul == Low(u)
uh == High(u)
vl == Low(v)
vh == High(v)

Loaded  == fn \in Routines /\ pm = FirmwarePrograms[fn] /\ arg \in Args
\* The caller's address, 0, is on the stack; a routine finds sp below it and must
\* find it there again to return.
Floor   == StackTop - PcBytes
Running == Regs /\ Loaded /\ \A i \in 1..PcBytes : dm[Floor + i] = 0
Level   == sp = Floor
Returns == pc' = 0 /\ sp' = StackTop

\* The next instruction of the routine follows; memory outside of D stays.
Goes(D) == /\ Running' /\ pc' = pc + 1 /\ UNCHANGED <<sp, fn, arg>>
           /\ \A l \in Locs \ D : dm'[l] = dm[l]

\* Words and their bytes.
LEMMA WordRange == /\ \A w \in Unsigned16 : w \in Int /\ 0 <= w /\ w <= 65535
                 /\ \A w \in Int : 0 <= w /\ w <= 65535 => w \in Unsigned16
<1>1. PICK c \in Int : c = 65535
  OBVIOUS
<1>2. Unsigned16 = 0..c
  BY <1>1, SMT DEF Unsigned16
<1>3. /\ \A w \in 0..c : w \in Int /\ 0 <= w /\ w <= c
      /\ \A w \in Int : 0 <= w /\ w <= c => w \in 0..c
  OBVIOUS
<1>4. /\ \A w \in Unsigned16 : w \in Int /\ 0 <= w /\ w <= c
      /\ \A w \in Int : 0 <= w /\ w <= c => w \in Unsigned16
  BY <1>2, <1>3, Zenon
<1>. QED
  BY <1>1, <1>4, SMT

\* A word is its two bytes.
LEMMA BytesOfWord ==
  ASSUME NEW w \in Int, 0 <= w, w <= 65535
  PROVE  Low(w) \in Byte /\ High(w) \in Byte /\ w = Low(w) + 256 * High(w)
<1>1. w \div 256 \in 0..255 /\ w % 256 \in 0..255 /\ w = (w % 256) + 256 * (w \div 256)
  BY SMT
<1>2. \A h \in 0..255 : h % 256 = h
  OBVIOUS
<1>. QED
  BY <1>1, <1>2 DEF Low, High, Byte

\* A routine is called with two words.
LEMMA Words16 ==
  ASSUME Loaded
  PROVE  /\ ul \in Byte /\ uh \in Byte /\ vl \in Byte /\ vh \in Byte
         /\ u = ul + 256 * uh /\ v = vl + 256 * vh
<1>1. arg \in Unsigned16 \X Unsigned16 \X SUBSET (0..7)
  BY FirmwareSetup, Zenon DEF FirmwareSetup, Loaded
<1>2. u \in Unsigned16 /\ v \in Unsigned16
  BY <1>1 DEF u, v
<1>. QED
  BY <1>2, WordRange, BytesOfWord DEF ul, uh, vl, vh

\* The return address lies in the memory and outside of the registers.
LEMMA Places ==
  /\ PcBytes \in {2, 3} /\ StackTop = 271 /\ Reg \subseteq Locs
  /\ Floor = 271 - PcBytes /\ Floor \in {268, 269}
  /\ \A i \in 1..PcBytes : Floor + i \in Locs \ Reg
<1>1. PcBytes \in {2, 3} /\ StackTop = 271
  BY FirmwareSetup DEF FirmwareSetup, PcBytes
<1>2. Locs = (0..31) \cup {Port, Ctrl} \cup (248..271)
  BY FirmwareSetup DEF FirmwareSetup, FirmwareLocs, Ram
<1>3. Reg \subseteq Locs
  BY <1>2 DEF Reg
<1>4. \A i \in 1..PcBytes : Floor + i \in 248..271
  BY <1>1 DEF Floor
<1>5. \A l \in 248..271 : l \in Locs \ Reg
  BY <1>2 DEF Reg
<1>6. Floor = 271 - PcBytes /\ Floor \in {268, 269}
  BY <1>1 DEF Floor
<1>. QED
  BY <1>1, <1>3, <1>4, <1>5, <1>6

\* An instruction that stores a byte in a register, or that only sets flags, goes on in the routine.
LEMMA StoreGoes ==
  ASSUME Running, NEW d \in Reg, NEW n, Stores(d, n)
  PROVE  Goes({d}) /\ dm'[d] = n
<1>1. Regs' /\ dm'[d] = n /\ \A l \in Locs : l # d => dm'[l] = dm[l]
  BY StoredRegister DEF Running
<1>2. UNCHANGED <<sp, pm, fn, arg>> /\ pc' = pc + 1
  BY DEF Stores, GoesOn
<1>3. \A i \in 1..PcBytes : dm'[Floor + i] = 0
  BY <1>1, Places DEF Running
<1>. QED
  BY <1>1, <1>2, <1>3, Places DEF Goes, Running, Loaded, PcBytes, Floor

\* A comparison leaves memory.
LEMMA TestGoes ==
  ASSUME Running, dm' = dm, GoesOn
  PROVE  Goes({})
BY DEF Goes, Running, Loaded, Regs, GoesOn, PcBytes, Floor

\* A sum or a difference of bytes is a byte and the carry.
LEMMA Addition ==
  ASSUME Running, Next, NEW d \in Reg, NEW r \in Reg, NEW c,
         (I = RR("ADD", d, r) /\ c = 0) \/ (I = RR("ADC", d, r) /\ c = Carry)
  PROVE  Goes({d}) /\ dm'[d] + 256 * Carry' = dm[d] + dm[r] + c /\ AddFlags(dm[d], dm[r], c)
<1>. DEFINE x == dm[d]
            y == dm[r]
<1>1. c \in {0, 1} /\ Stores(d, Low(x + y + c)) /\ AddFlags(x, y, c)
  BY AddStep DEF Running
<1>2. x \in Byte /\ y \in Byte
  BY DEF Running, Regs
<1>3. Goes({d}) /\ dm'[d] = Low(x + y + c)
  BY <1>1, StoreGoes
<1>4. Carry' = IF x + y + c > 255 THEN 1 ELSE 0
  BY <1>1 DEF AddFlags, Carry
<1>. HIDE DEF x, y
<1>5. PICK n \in (-256)..511 : n = x + y + c /\ n >= 0
  BY <1>1, <1>2 DEF Byte
<1>6. Low(n) = IF n > 255 THEN n - 256 ELSE n
  BY <1>5, LowOfSum DEF Low, Byte
<1>7. dm'[d] + 256 * Carry' = x + y + c
  BY <1>3, <1>4, <1>5, <1>6
<1>. QED
  BY <1>1, <1>3, <1>7 DEF x, y

\* Registers are bytes, before and after.
LEMMA RegisterTypes ==
  ASSUME Running
  PROVE  /\ \A l \in Reg : dm[l] \in Byte /\ dm[l] \in Int /\ 0 <= dm[l] /\ dm[l] < 256
         /\ Carry \in {0, 1}
<1>1. \A l \in Reg : dm[l] \in Byte
  BY Places DEF Running, Regs
<1>. QED
  BY <1>1 DEF Byte, Carry

\* ADD and ADC: result and carry together are the sum.
LEMMA AddRuns ==
  ASSUME Running, Next, NEW d \in Reg, NEW r \in Reg, I = RR("ADD", d, r)
  PROVE  /\ Goes({d}) /\ dm'[d] + 256 * Carry' = dm[d] + dm[r]
         /\ AddFlags(dm[d], dm[r], 0)
<1>1. Goes({d}) /\ dm'[d] + 256 * Carry' = dm[d] + dm[r] + 0 /\ AddFlags(dm[d], dm[r], 0)
  BY Addition
<1>2. dm[d] + dm[r] + 0 = dm[d] + dm[r]
  BY RegisterTypes
<1>. QED
  BY <1>1, <1>2

\* ADC adds the carry.
LEMMA AdcRuns ==
  ASSUME Running, Next, NEW d \in Reg, NEW r \in Reg, I = RR("ADC", d, r)
  PROVE  /\ Goes({d}) /\ dm'[d] + 256 * Carry' = dm[d] + dm[r] + Carry
         /\ AddFlags(dm[d], dm[r], Carry)
BY Addition

\* Registers are bytes after an instruction of a routine.
LEMMA GoesTypes ==
  ASSUME NEW D, Goes(D)
  PROVE  /\ \A l \in Reg : dm'[l] \in Byte /\ dm'[l] \in Int /\ 0 <= dm'[l] /\ dm'[l] < 256
         /\ Carry' \in {0, 1}
<1>1. Regs' /\ Reg \subseteq Locs
  BY Places DEF Goes, Running
<1>2. \A l \in Reg : dm'[l] \in Byte
  BY <1>1 DEF Regs
<1>. QED
  BY <1>2 DEF Byte, Carry

\* Low byte and borrow together are the difference.
LEMMA Difference ==
  ASSUME NEW x \in Byte, NEW y \in Byte, NEW c \in {0, 1}, SubtractFlags(x, y, c)
  PROVE  Low(x - y - c) - 256 * Carry' = x - y - c
<1>1. Carry' = IF x < y + c THEN 1 ELSE 0
  BY DEF SubtractFlags, Carry
<1>2. PICK n \in (-256)..511 : n = x - y - c /\ n < 256
  BY DEF Byte
<1>3. Low(n) = IF n < 0 THEN n + 256 ELSE n
  BY <1>2, LowOfSum DEF Low, Byte
<1>4. x < y + c <=> n < 0
  BY <1>2 DEF Byte
<1>. QED
  BY <1>1, <1>2, <1>3, <1>4

\* SUB, SUBI, SBC and SBCI: result and borrow together are the difference; after a
\* difference with carry ZERO says that all bytes so far were zero.
LEMMA SubRuns ==
  ASSUME Running, Next, NEW d \in Reg, NEW y,
         \/ \E r \in Reg : I = RR("SUB", d, r) /\ y = dm[r]
         \/ I = RI("SUBI", d, y) /\ y \in Byte
  PROVE  /\ Goes({d}) /\ dm'[d] - 256 * Carry' = dm[d] - y
         /\ ZERO \in sreg' <=> dm[d] = y
<1>1. Stores(d, Low(dm[d] - y)) /\ SubtractFlags(dm[d], y, 0)
      /\ (ZERO \in sreg' <=> Low(dm[d] - y) = 0)
  BY SubStep DEF Running
<1>2. dm[d] \in Byte /\ y \in Byte
  BY DEF Running, Regs
<1>3. Goes({d}) /\ dm'[d] = Low(dm[d] - y)
  BY <1>1, StoreGoes
<1>4. dm[d] - y - 0 = dm[d] - y
  BY <1>2 DEF Byte
<1>5. Low(dm[d] - y) - 256 * Carry' = dm[d] - y
  BY <1>1, <1>2, <1>4, Difference
<1>6. Carry' \in {0, 1}
  BY DEF Carry
<1>7. Low(dm[d] - y) \in Byte
  BY <1>1 DEF Stores
<1>8. Low(dm[d] - y) = 0 <=> dm[d] = y
  <2>. DEFINE k == Low(dm[d] - y)
              a == dm[d]
              c == Carry'
  <2>2. k \in Byte /\ a \in Byte /\ y \in Byte /\ c \in {0, 1} /\ k - 256 * c = a - y
    BY <1>2, <1>5, <1>6, <1>7
  <2>. HIDE DEF k, a, c
  <2>3. k = 0 <=> a = y
    BY <2>2 DEF Byte
  <2>. QED
    BY <2>3 DEF k, a
<1>. QED
  BY <1>1, <1>3, <1>5, <1>8

\* SBC subtracts the borrow.
LEMMA SbcRuns ==
  ASSUME Running, Next, NEW d \in Reg, NEW y,
         \/ \E r \in Reg : I = RR("SBC", d, r) /\ y = dm[r]
         \/ I = RI("SBCI", d, y) /\ y \in Byte
  PROVE  /\ Goes({d}) /\ dm'[d] - 256 * Carry' = dm[d] - y - Carry
         /\ SubtractFlags(dm[d], y, Carry)
         /\ ZERO \in sreg' <=> dm'[d] = 0 /\ ZERO \in sreg
<1>1. Stores(d, Low(dm[d] - y - Carry)) /\ SubtractFlags(dm[d], y, Carry)
      /\ (ZERO \in sreg' <=> Low(dm[d] - y - Carry) = 0 /\ ZERO \in sreg)
  BY SbcStep DEF Running
<1>2. dm[d] \in Byte /\ y \in Byte /\ Carry \in {0, 1}
  BY CarryType DEF Running, Regs
<1>3. Goes({d}) /\ dm'[d] = Low(dm[d] - y - Carry)
  BY <1>1, StoreGoes
<1>4. Low(dm[d] - y - Carry) - 256 * Carry' = dm[d] - y - Carry
  BY <1>1, <1>2, Difference
<1>. QED
  BY <1>1, <1>3, <1>4

-----------------------------------------------------------------------------
(* Bytes and their bits. *)

\* The bits of a byte determine it, and every set of bits is that of a byte.
LEMMA EightBits ==
  ASSUME NEW x \in Byte
  PROVE  \E b0, b1, b2, b3, b4, b5, b6, b7 \in {0, 1} :
           /\ x = b0 + 2 * b1 + 4 * b2 + 8 * b3 + 16 * b4 + 32 * b5 + 64 * b6 + 128 * b7
           /\ (Bit(x, 0) <=> b0 = 1) /\ (Bit(x, 1) <=> b1 = 1) /\ (Bit(x, 2) <=> b2 = 1)
           /\ (Bit(x, 3) <=> b3 = 1) /\ (Bit(x, 4) <=> b4 = 1) /\ (Bit(x, 5) <=> b5 = 1)
           /\ (Bit(x, 6) <=> b6 = 1) /\ (Bit(x, 7) <=> b7 = 1)
<1>. DEFINE q(i) == x \div 2^i
            b(i) == q(i) % 2
<1>1. q(0) = x /\ q(1) = x \div 2 /\ q(2) = x \div 4 /\ q(3) = x \div 8 /\ q(4) = x \div 16
      /\ q(5) = x \div 32 /\ q(6) = x \div 64 /\ q(7) = x \div 128
  <2>1. 2^0 = 1 /\ 2^1 = 2 /\ 2^2 = 4 /\ 2^3 = 8 /\ 2^4 = 16 /\ 2^5 = 32 /\ 2^6 = 64 /\ 2^7 = 128
    OBVIOUS
  <2>. QED
    BY <2>1 DEF Byte
<1>2. /\ x = 2 * (x \div 2) + (x % 2)
      /\ x \div 2 = 2 * (x \div 4) + ((x \div 2) % 2)
      /\ x \div 4 = 2 * (x \div 8) + ((x \div 4) % 2)
      /\ x \div 8 = 2 * (x \div 16) + ((x \div 8) % 2)
      /\ x \div 16 = 2 * (x \div 32) + ((x \div 16) % 2)
      /\ x \div 32 = 2 * (x \div 64) + ((x \div 32) % 2)
      /\ x \div 64 = 2 * (x \div 128) + ((x \div 64) % 2)
      /\ x \div 128 = (x \div 128) % 2
  BY DEF Byte
<1>3. /\ x % 2 \in {0, 1} /\ (x \div 2) % 2 \in {0, 1} /\ (x \div 4) % 2 \in {0, 1}
      /\ (x \div 8) % 2 \in {0, 1} /\ (x \div 16) % 2 \in {0, 1} /\ (x \div 32) % 2 \in {0, 1}
      /\ (x \div 64) % 2 \in {0, 1} /\ (x \div 128) % 2 \in {0, 1}
  BY DEF Byte
<1>4. x = b(0) + 2 * b(1) + 4 * b(2) + 8 * b(3) + 16 * b(4) + 32 * b(5) + 64 * b(6) + 128 * b(7)
  <2>1. /\ x = 2 * q(1) + b(0) /\ q(1) = 2 * q(2) + b(1) /\ q(2) = 2 * q(3) + b(2)
        /\ q(3) = 2 * q(4) + b(3) /\ q(4) = 2 * q(5) + b(4) /\ q(5) = 2 * q(6) + b(5)
        /\ q(6) = 2 * q(7) + b(6) /\ q(7) = b(7)
    BY <1>1, <1>2
  <2>2. /\ b(0) \in Int /\ b(1) \in Int /\ b(2) \in Int /\ b(3) \in Int
        /\ b(4) \in Int /\ b(5) \in Int /\ b(6) \in Int /\ b(7) \in Int
    BY <1>1, <1>3
  <2>3. /\ q(1) \in Int /\ q(2) \in Int /\ q(3) \in Int /\ q(4) \in Int
        /\ q(5) \in Int /\ q(6) \in Int /\ q(7) \in Int
    BY <1>1 DEF Byte
  <2>. HIDE DEF q, b
  <2>. QED
    BY <2>1, <2>2, <2>3
<1>5. b(0) \in {0, 1} /\ b(1) \in {0, 1} /\ b(2) \in {0, 1} /\ b(3) \in {0, 1}
      /\ b(4) \in {0, 1} /\ b(5) \in {0, 1} /\ b(6) \in {0, 1} /\ b(7) \in {0, 1}
  BY <1>1, <1>3
<1>6. \A i : Bit(x, i) <=> b(i) = 1
  BY DEF Bit
<1>. HIDE DEF b
<1>. QED
  BY <1>4, <1>5, <1>6

\* Eight binary digits are the bits of the byte they make.
LEMMA Expansion ==
  ASSUME NEW b0 \in {0, 1}, NEW b1 \in {0, 1}, NEW b2 \in {0, 1}, NEW b3 \in {0, 1},
         NEW b4 \in {0, 1}, NEW b5 \in {0, 1}, NEW b6 \in {0, 1}, NEW b7 \in {0, 1}, NEW x,
         x = b0 + 2 * b1 + 4 * b2 + 8 * b3 + 16 * b4 + 32 * b5 + 64 * b6 + 128 * b7
  PROVE  /\ x \in Byte
         /\ (Bit(x, 0) <=> b0 = 1) /\ (Bit(x, 1) <=> b1 = 1) /\ (Bit(x, 2) <=> b2 = 1)
         /\ (Bit(x, 3) <=> b3 = 1) /\ (Bit(x, 4) <=> b4 = 1) /\ (Bit(x, 5) <=> b5 = 1)
         /\ (Bit(x, 6) <=> b6 = 1) /\ (Bit(x, 7) <=> b7 = 1)
<1>1. x \in Byte
  BY DEF Byte
<1>2. PICK c0, c1, c2, c3, c4, c5, c6, c7 \in {0, 1} :
           /\ x = c0 + 2 * c1 + 4 * c2 + 8 * c3 + 16 * c4 + 32 * c5 + 64 * c6 + 128 * c7
           /\ (Bit(x, 0) <=> c0 = 1) /\ (Bit(x, 1) <=> c1 = 1) /\ (Bit(x, 2) <=> c2 = 1)
           /\ (Bit(x, 3) <=> c3 = 1) /\ (Bit(x, 4) <=> c4 = 1) /\ (Bit(x, 5) <=> c5 = 1)
           /\ (Bit(x, 6) <=> c6 = 1) /\ (Bit(x, 7) <=> c7 = 1)
  BY <1>1, EightBits
<1>3. b0 = c0 /\ b1 = c1 /\ b2 = c2 /\ b3 = c3 /\ b4 = c4 /\ b5 = c5 /\ b6 = c6 /\ b7 = c7
  BY <1>2
<1>. QED
  BY <1>1, <1>2, <1>3

\* Bytes with the same bits are the same.
LEMMA SameBits ==
  ASSUME NEW x \in Byte, NEW y \in Byte, Bits(x) = Bits(y)
  PROVE  x = y
<1>1. \A i \in 0..7 : Bit(x, i) <=> Bit(y, i)
  BY DEF Bits
<1>. QED
  BY <1>1, EightBits

\* A set of bits is that of its byte.
LEMMA BitsOfByteOf ==
  ASSUME NEW S \in SUBSET (0..7)
  PROVE  ByteOf(S) \in Byte /\ Bits(ByteOf(S)) = S
<1>. DEFINE b(i) == IF i \in S THEN 1 ELSE 0
            x == ByteOf(S)
<1>1. x = b(0) + 2 * b(1) + 4 * b(2) + 8 * b(3) + 16 * b(4) + 32 * b(5) + 64 * b(6) + 128 * b(7)
  <2>1. 2^0 = 1 /\ 2^1 = 2 /\ 2^2 = 4 /\ 2^3 = 8 /\ 2^4 = 16 /\ 2^5 = 32 /\ 2^6 = 64 /\ 2^7 = 128
    OBVIOUS
  <2>. QED
    BY <2>1 DEF ByteOf
<1>2. \A i : b(i) \in {0, 1} /\ (b(i) = 1 <=> i \in S)
  OBVIOUS
<1>. HIDE DEF b, x
<1>3. /\ x \in Byte
      /\ (Bit(x, 0) <=> b(0) = 1) /\ (Bit(x, 1) <=> b(1) = 1) /\ (Bit(x, 2) <=> b(2) = 1)
      /\ (Bit(x, 3) <=> b(3) = 1) /\ (Bit(x, 4) <=> b(4) = 1) /\ (Bit(x, 5) <=> b(5) = 1)
      /\ (Bit(x, 6) <=> b(6) = 1) /\ (Bit(x, 7) <=> b(7) = 1)
  BY <1>1, <1>2, Expansion
<1>4. \A i \in 0..7 : Bit(x, i) <=> i \in S
  <2>1. /\ Bit(x, 0) <=> 0 \in S
        /\ Bit(x, 1) <=> 1 \in S
        /\ Bit(x, 2) <=> 2 \in S
        /\ Bit(x, 3) <=> 3 \in S
        /\ Bit(x, 4) <=> 4 \in S
        /\ Bit(x, 5) <=> 5 \in S
        /\ Bit(x, 6) <=> 6 \in S
        /\ Bit(x, 7) <=> 7 \in S
    BY <1>2, <1>3
  <2>2. \A i \in 0..7 : i = 0 \/ i = 1 \/ i = 2 \/ i = 3 \/ i = 4 \/ i = 5 \/ i = 6 \/ i = 7
    OBVIOUS
  <2>. QED
    BY <2>1, <2>2
<1>. QED
  BY <1>3, <1>4 DEF Bits, x

\* The complement of a byte has the other bits.
LEMMA Complement ==
  ASSUME NEW x \in Byte
  PROVE  Bits(255 - x) = (0..7) \ Bits(x)
<1>. DEFINE S == (0..7) \ Bits(x)
<1>1. PICK b0, b1, b2, b3, b4, b5, b6, b7 \in {0, 1} :
           /\ x = b0 + 2 * b1 + 4 * b2 + 8 * b3 + 16 * b4 + 32 * b5 + 64 * b6 + 128 * b7
           /\ (Bit(x, 0) <=> b0 = 1) /\ (Bit(x, 1) <=> b1 = 1) /\ (Bit(x, 2) <=> b2 = 1)
           /\ (Bit(x, 3) <=> b3 = 1) /\ (Bit(x, 4) <=> b4 = 1) /\ (Bit(x, 5) <=> b5 = 1)
           /\ (Bit(x, 6) <=> b6 = 1) /\ (Bit(x, 7) <=> b7 = 1)
  BY EightBits
<1>2. \A i \in 0..7 : i \in S <=> ~Bit(x, i)
  BY DEF Bits
<1>3. ByteOf(S) = 255 - x
  <2>1. 2^0 = 1 /\ 2^1 = 2 /\ 2^2 = 4 /\ 2^3 = 8 /\ 2^4 = 16 /\ 2^5 = 32 /\ 2^6 = 64 /\ 2^7 = 128
    OBVIOUS
  <2>. DEFINE b(i) == IF i \in S THEN 1 ELSE 0
  <2>2. ByteOf(S) = b(0) + 2 * b(1) + 4 * b(2) + 8 * b(3) + 16 * b(4) + 32 * b(5) + 64 * b(6) + 128 * b(7)
    BY <2>1 DEF ByteOf
  <2>3. b(0) = 1 - b0 /\ b(1) = 1 - b1 /\ b(2) = 1 - b2 /\ b(3) = 1 - b3 /\ b(4) = 1 - b4
        /\ b(5) = 1 - b5 /\ b(6) = 1 - b6 /\ b(7) = 1 - b7
    BY <1>1, <1>2
  <2>. HIDE DEF b
  <2>. QED
    BY <1>1, <2>2, <2>3
<1>. QED
  BY <1>3, BitsOfByteOf

-----------------------------------------------------------------------------
(* What each instruction leaves to the next one of a routine. *)

\* NEG: zero minus the register.
LEMMA NegRuns ==
  ASSUME Running, Next, NEW d \in Reg, I = R("NEG", d)
  PROVE  /\ Goes({d}) /\ dm'[d] - 256 * Carry' = -dm[d]
         /\ ZERO \in sreg' <=> dm[d] = 0
<1>1. I.op = "NEG" /\ I.d = d
  BY DEF R, A
<1>2. ExecNeg
  BY <1>1, Dispatch
<1>. DEFINE x == dm[d]
            q == Low(-x)
            ha == Bit(q, 3) \/ Bit(x, 3)
            ne == Bit(q, 7)
            ca == q # 0
            ov == q = 128
            ze == q = 0
<1>3. Rd = x /\ x \in Byte
  BY <1>1 DEF Rd, Running, Regs
<1>4. q \in Byte /\ q = IF x = 0 THEN 0 ELSE 256 - x
  <2>1. PICK n \in (-256)..511 : n = -x /\ n <= 0
    BY <1>3 DEF Byte
  <2>2. n % 256 \in Byte /\ n % 256 = IF n = 0 THEN 0 ELSE n + 256
    BY <2>1, LowOfSum DEF Byte
  <2>. QED
    BY <1>3, <2>1, <2>2 DEF Low, Byte
<1>5. /\ dm' = [dm EXCEPT ![d] = q] /\ pc' = pc + 1 /\ UNCHANGED <<sp, pm, fn, arg>>
      /\ sreg' = (sreg \ (CHNVS \cup {ZERO}))
                 \cup (On(ca, CARRY) \cup On(ze, ZERO) \cup NegV(ne, ov) \cup On(ha, HCARRY))
  BY <1>1, <1>2, <1>3 DEF ExecNeg, Result, UpdSr, Advance, Keeps
<1>6. ca \in BOOLEAN /\ ha \in BOOLEAN /\ ne \in BOOLEAN /\ ov \in BOOLEAN /\ ze \in BOOLEAN
  BY DEF Bit
<1>7. /\ sreg' \subseteq 0..7
      /\ CARRY \in sreg' <=> ca
      /\ ZERO \in sreg'  <=> ze
  <2>. HIDE DEF ca, ha, ne, ov, ze
  <2>1. sreg' = SixFlags(sreg, ca, ha, ne, ov, ze)
    BY <1>5 DEF SixFlags
  <2>2. sreg \in SUBSET (0..7)
    BY DEF Running, Regs
  <2>. QED
    BY <1>6, <2>1, <2>2, FlagsOf
<1>8. Stores(d, q)
  BY <1>4, <1>5, <1>7 DEF Stores, GoesOn
<1>9. Goes({d}) /\ dm'[d] = q
  BY <1>8, StoreGoes
<1>10. Carry' = IF q = 0 THEN 0 ELSE 1
  BY <1>7 DEF Carry
<1>. HIDE DEF x, q
<1>11. dm'[d] - 256 * Carry' = -x /\ (q = 0 <=> x = 0)
  BY <1>3, <1>4, <1>9, <1>10 DEF Byte
<1>. QED
  BY <1>7, <1>9, <1>11 DEF x

\* Instructions that set ZERO and some of the others: what they say of ZERO.
LEMMA ZeroFlag ==
  ASSUME NEW S \in SUBSET (0..7), NEW z \in BOOLEAN, NEW n \in BOOLEAN, NEW o \in BOOLEAN
  PROVE  LET T == (S \ ({ZERO} \cup NVS)) \cup (On(z, ZERO) \cup NegV(n, o))
         IN  T \subseteq 0..7 /\ (ZERO \in T <=> z)
BY DEF On, NegV, NVS, ZERO, NEG, TCOF, SIGN

\* INC: the next byte; ZERO after 255.
LEMMA IncRuns ==
  ASSUME Running, Next, NEW d \in Reg, I = R("INC", d)
  PROVE  /\ Goes({d}) /\ dm'[d] = (IF dm[d] = 255 THEN 0 ELSE dm[d] + 1)
         /\ ZERO \in sreg' <=> dm'[d] = 0
<1>1. I.op = "INC" /\ I.d = d
  BY DEF R, A
<1>2. ExecIncDec
  BY <1>1, Dispatch
<1>. DEFINE x == dm[d]
            q == Low(x + 1)
            ne == Bit(q, 7)
            ov == x = 127
            ze == q = 0
<1>3. Rd = x /\ x \in Byte
  BY <1>1 DEF Rd, Running, Regs
<1>4. q \in Byte /\ q = IF x = 255 THEN 0 ELSE x + 1
  <2>1. PICK n \in (-256)..511 : n = x + 1 /\ n <= 256
    BY <1>3 DEF Byte
  <2>2. n % 256 \in Byte /\ n % 256 = IF n = 256 THEN 0 ELSE n
    BY <1>3, <2>1, LowOfSum DEF Byte
  <2>. QED
    BY <1>3, <2>1, <2>2 DEF Low, Byte
<1>5. /\ dm' = [dm EXCEPT ![d] = q] /\ pc' = pc + 1 /\ UNCHANGED <<sp, pm, fn, arg>>
      /\ sreg' = (sreg \ ({ZERO} \cup NVS)) \cup (On(ze, ZERO) \cup NegV(ne, ov))
  BY <1>1, <1>2, <1>3 DEF ExecIncDec, Result, UpdSr, Advance, Keeps, IncFlags
<1>6. ne \in BOOLEAN /\ ov \in BOOLEAN /\ ze \in BOOLEAN
  BY DEF Bit
<1>7. sreg' \subseteq 0..7 /\ (ZERO \in sreg' <=> ze)
  <2>. HIDE DEF ne, ov, ze
  <2>1. sreg \in SUBSET (0..7)
    BY DEF Running, Regs
  <2>. QED
    BY <1>5, <1>6, <2>1, ZeroFlag
<1>8. Stores(d, q)
  BY <1>4, <1>5, <1>7 DEF Stores, GoesOn
<1>9. Goes({d}) /\ dm'[d] = q
  BY <1>8, StoreGoes
<1>. QED
  BY <1>4, <1>7, <1>9

\* COM, shifts, SWAP and moves.
LEMMA ComRuns ==
  ASSUME Running, Next, NEW d \in Reg, I = R("COM", d)
  PROVE  Goes({d}) /\ dm'[d] = 255 - dm[d]
<1>1. I.op = "COM" /\ I.d = d
  BY DEF R, A
<1>2. ExecCom
  BY <1>1, Dispatch
<1>3. Rd = dm[d] /\ Rd \in Byte /\ 255 - Rd \in Byte
  BY <1>1 DEF Rd, Running, Regs, Byte
<1>4. /\ dm' = [dm EXCEPT ![d] = 255 - Rd] /\ pc' = pc + 1 /\ UNCHANGED <<sp, pm, fn, arg>>
      /\ sreg' = (sreg \ ({CARRY, ZERO} \cup NVS)) \cup ({CARRY} \cup LogicFlags(255 - Rd))
  BY <1>1, <1>2 DEF ExecCom, Result, UpdSr, Advance, Keeps
<1>5. sreg' \subseteq 0..7
  <2>1. sreg \subseteq 0..7 /\ CARRY \in 0..7 /\ ZERO \in 0..7
    BY DEF Running, Regs, CARRY, ZERO
  <2>. DEFINE Z == On(255 - Rd = 0, ZERO)
              M == NegV(Bit(255 - Rd, 7), FALSE)
              F == LogicFlags(255 - Rd)
  <2>2. Z \subseteq {ZERO} /\ M \subseteq NVS /\ F = Z \cup M
    BY FlagSets DEF LogicFlags
  <2>3. sreg' = (sreg \ ({CARRY, ZERO} \cup NVS)) \cup ({CARRY} \cup F)
    BY <1>4
  <2>4. NVS \subseteq 0..7
    BY FlagSets
  <2>. HIDE DEF Z, M, F
  <2>. QED
    BY <2>1, <2>2, <2>3, <2>4
<1>6. Stores(d, 255 - Rd)
  BY <1>3, <1>4, <1>5 DEF Stores, GoesOn
<1>. QED
  BY <1>3, <1>6, StoreGoes

\* A shift to the right takes the bit shifted out to CARRY and a bit in at the top.
LEMMA ShiftRuns ==
  ASSUME Running, Next, NEW d \in Reg, NEW t \in {0, 1},
         \/ I = R("LSR", d) /\ t = 0
         \/ I = R("ASR", d) /\ (t = 1 <=> dm[d] > 127)
         \/ I = R("ROR", d) /\ t = Carry
  PROVE  Goes({d}) /\ 2 * dm'[d] + Carry' = dm[d] + 256 * t
<1>1. I.op \in {"LSR", "ASR", "ROR"} /\ I.d = d
  BY DEF R, A
<1>2. I.op \in {"LSR", "ASR"} => ExecAsrLsr
  BY <1>1, Dispatch
<1>3. I.op = "ROR" => ExecRor
  BY <1>1, Dispatch
<1>4. Rd = dm[d] /\ Rd \in Byte
  BY <1>1 DEF Rd, Running, Regs
<1>. DEFINE q == (Rd \div 2) + (IF t = 1 THEN 128 ELSE 0)
            ca == Bit(Rd, 0)
<1>5. (Bit(Rd, 7) <=> Rd > 127) /\ (ca <=> Rd % 2 = 1)
  BY <1>4, Bit7, Bit0 DEF Byte
<1>6. /\ I.op \in {"LSR", "ASR"} => ShiftedFrom(I.op = "ASR" /\ Bit(Rd, 7)) = q
      /\ I.op = "ROR" => ShiftedFrom(CARRY \in sreg) = q
  <2>1. CASE I = R("LSR", d) /\ t = 0
    <3>1. I.op = "LSR"
      BY <2>1 DEF R, A
    <3>. QED
      BY <2>1, <3>1 DEF ShiftedFrom
  <2>2. CASE I = R("ASR", d) /\ (t = 1 <=> dm[d] > 127)
    <3>1. I.op = "ASR"
      BY <2>2 DEF R, A
    <3>2. Bit(Rd, 7) <=> t = 1
      BY <1>4, <1>5, <2>2
    <3>. QED
      BY <3>1, <3>2 DEF ShiftedFrom
  <2>3. CASE I = R("ROR", d) /\ t = Carry
    <3>1. I.op = "ROR"
      BY <2>3 DEF R, A
    <3>. QED
      BY <2>3, <3>1 DEF ShiftedFrom, Carry
  <2>. QED
    BY <2>1, <2>2, <2>3
<1>7. dm' = [dm EXCEPT ![d] = q] /\ pc' = pc + 1 /\ UNCHANGED <<sp, pm, fn, arg>>
  BY <1>1, <1>2, <1>3, <1>6 DEF ExecAsrLsr, ExecRor, Result, Advance, Keeps
<1>8. \/ UpdSr({CARRY, ZERO} \cup NVS, ShiftFlags(q))
      \/ UpdSr(CHNVS \cup {ZERO}, ShiftFlags(q) \cup On(Bit(Rd, 3), HCARRY))
  BY <1>1, <1>2, <1>3, <1>6 DEF ExecAsrLsr, ExecRor
<1>9. sreg' \subseteq 0..7 /\ (CARRY \in sreg' <=> ca)
  <2>. HIDE DEF ca, q
  <2>1. sreg \subseteq 0..7 /\ ShiftFlags(q) = On(ca, CARRY) \cup On(q = 0, ZERO)
                 \cup NegV(Bit(q, 7), Bit(q, 7) # ca)
    BY DEF Running, Regs, ShiftFlags, ca
  <2>. DEFINE Z == On(q = 0, ZERO)
              M == NegV(Bit(q, 7), Bit(q, 7) # ca)
              H == On(Bit(Rd, 3), HCARRY)
              F == ShiftFlags(q)
  <2>2. CARRY \in 0..7 /\ ZERO \in 0..7 /\ HCARRY \in 0..7 /\ CARRY # ZERO /\ CARRY # HCARRY
    BY DEF CARRY, ZERO, HCARRY
  <2>3. Z \subseteq {ZERO} /\ M \subseteq NVS /\ H \subseteq {HCARRY}
    BY FlagSets
  <2>4. On(ca, CARRY) \subseteq {CARRY} /\ (CARRY \in On(ca, CARRY) <=> ca)
    BY Zenon DEF On
  <2>5. F = On(ca, CARRY) \cup Z \cup M
    BY <2>1
  <2>. HIDE DEF Z, M, H, F
  <2>6. F \subseteq 0..7 /\ H \subseteq 0..7 /\ CARRY \notin H /\ (CARRY \in F <=> ca)
    BY <2>2, <2>3, <2>4, <2>5, FlagSets
  <2>7. sreg' = (sreg \ ({CARRY, ZERO} \cup NVS)) \cup F
        \/ sreg' = (sreg \ (CHNVS \cup {ZERO})) \cup (F \cup H)
    BY <1>8 DEF UpdSr, F, H
  <2>. QED
    BY <2>1, <2>6, <2>7 DEF CHNVS
<1>10. q \in Byte /\ Rd % 2 \in {0, 1} /\ Rd = 2 * (Rd \div 2) + (Rd % 2)
  BY <1>4 DEF Byte
<1>11. Goes({d}) /\ dm'[d] = q
  <2>1. Stores(d, q)
    BY <1>7, <1>9, <1>10 DEF Stores, GoesOn
  <2>. QED
    BY <2>1, StoreGoes
<1>12. Carry' = Rd % 2
  BY <1>5, <1>9, <1>10 DEF Carry
<1>. DEFINE h == Rd \div 2
            m == Rd % 2
<1>13. /\ Rd = 2 * h + m /\ q = h + (IF t = 1 THEN 128 ELSE 0) /\ Carry' = m
       /\ h \in Int /\ m \in Int
  <2>1. Rd = 2 * h + m /\ m \in Int
    BY <1>10
  <2>2. q = h + (IF t = 1 THEN 128 ELSE 0) /\ Carry' = m
    BY <1>12
  <2>3. h \in Int
    BY <1>4, SMT DEF Byte
  <2>. QED
    BY <2>1, <2>2, <2>3
<1>. HIDE DEF q, h, m
<1>14. 2 * q + m = Rd + 256 * t
  <2>1. CASE t = 0
    BY <1>13, <2>1
  <2>2. CASE t = 1
    BY <1>13, <2>2
  <2>. QED
    BY <2>1, <2>2
<1>. QED
  BY <1>4, <1>11, <1>13, <1>14

\* AND, OR, EOR, ANDI and ORI: the bits of the result are those of the operands together.
LEMMA LogicRuns ==
  ASSUME Running, Next, NEW d \in Reg, NEW y, NEW S,
         \/ \E r \in Reg : I = RR("AND", d, r) /\ y = dm[r] /\ S = Bits(dm[d]) \cap Bits(y)
         \/ \E r \in Reg : I = RR("OR", d, r) /\ y = dm[r] /\ S = Bits(dm[d]) \cup Bits(y)
         \/ \E r \in Reg : /\ I = RR("EOR", d, r) /\ y = dm[r]
                           /\ S = (Bits(dm[d]) \ Bits(y)) \cup (Bits(y) \ Bits(dm[d]))
         \/ I = RI("ANDI", d, y) /\ y \in Byte /\ S = Bits(dm[d]) \cap Bits(y)
         \/ I = RI("ORI", d, y) /\ y \in Byte /\ S = Bits(dm[d]) \cup Bits(y)
  PROVE  Goes({d}) /\ dm'[d] \in Byte /\ Bits(dm'[d]) = S
<1>1. I.op \in {"AND", "ANDI", "OR", "ORI", "EOR"} /\ I.d = d
  BY DEF RR, RI, A
<1>2. ExecLogic
  BY <1>1, Dispatch
<1>3. Operand = y /\ Rd = dm[d]
  BY <1>1 DEF Operand, Immediate, Rd, Rr, RR, RI, A
<1>4. S = (CASE I.op \in {"AND", "ANDI"} -> Bits(Rd) \cap Bits(Operand)
             [] I.op \in {"OR", "ORI"}   -> Bits(Rd) \cup Bits(Operand)
             [] I.op = "EOR"             -> (Bits(Rd) \ Bits(Operand)) \cup (Bits(Operand) \ Bits(Rd)))
  BY <1>3 DEF RR, RI, A
<1>. DEFINE q == ByteOf(S)
<1>5. S \in SUBSET (0..7)
  BY DEF Bits
<1>6. q \in Byte /\ Bits(q) = S
  BY <1>5, BitsOfByteOf
<1>7. /\ dm' = [dm EXCEPT ![d] = q] /\ pc' = pc + 1 /\ UNCHANGED <<sp, pm, fn, arg>>
      /\ sreg' = (sreg \ ({ZERO} \cup NVS)) \cup (On(q = 0, ZERO) \cup NegV(Bit(q, 7), FALSE))
  BY <1>1, <1>2, <1>4 DEF ExecLogic, Result, UpdSr, Advance, Keeps, LogicFlags
<1>8. sreg' \subseteq 0..7
  <2>1. sreg \in SUBSET (0..7) /\ (q = 0) \in BOOLEAN /\ Bit(q, 7) \in BOOLEAN /\ FALSE \in BOOLEAN
    BY DEF Running, Regs, Bit
  <2>. DEFINE z == q = 0
              n == Bit(q, 7)
  <2>2. sreg' = (sreg \ ({ZERO} \cup NVS)) \cup (On(z, ZERO) \cup NegV(n, FALSE))
    BY <1>7
  <2>. HIDE DEF z, n
  <2>. QED
    BY <2>1, <2>2, ZeroFlag DEF z, n
<1>9. Stores(d, q)
  BY <1>6, <1>7, <1>8 DEF Stores, GoesOn
<1>. QED
  BY <1>6, <1>9, StoreGoes

\* SWAP exchanges the nibbles.
LEMMA SwapRuns ==
  ASSUME Running, Next, NEW d \in Reg, I = R("SWAP", d)
  PROVE  Goes({d}) /\ dm'[d] = 16 * (dm[d] % 16) + (dm[d] \div 16)
<1>1. I.op = "SWAP" /\ I.d = d
  BY DEF R, A
<1>2. ExecSwap
  BY <1>1, Dispatch
<1>3. Rd = dm[d] /\ Rd \in Byte
  BY <1>1 DEF Rd, Running, Regs
<1>4. 16 * (Rd % 16) + (Rd \div 16) \in Byte
  <2>1. Rd % 16 \in 0..15 /\ Rd \div 16 \in 0..15
    BY <1>3 DEF Byte
  <2>2. \A a, b \in 0..15 : 16 * a + b \in Byte
    BY DEF Byte
  <2>. QED
    BY <2>1, <2>2
<1>5. Stores(d, 16 * (Rd % 16) + (Rd \div 16))
  BY <1>1, <1>2, <1>4 DEF ExecSwap, Result, Advance, Keeps, Stores, GoesOn, Running, Regs
<1>. QED
  BY <1>3, <1>5, StoreGoes

\* MOV, LDI and SER leave SREG alone.
LEMMA MoveRuns ==
  ASSUME Running, Next, NEW d \in Reg, NEW n,
         \/ \E r \in Reg : I = RR("MOV", d, r) /\ n = dm[r]
         \/ I = RI("LDI", d, n) /\ n \in Byte
         \/ I = R("SER", d) /\ n = 255
  PROVE  Goes({d}) /\ dm'[d] = n /\ UNCHANGED sreg
<1>1. I.op \in {"MOV", "LDI", "SER"} /\ I.d = d /\ n \in Byte
  BY DEF RR, RI, R, A, Running, Regs, Byte
<1>2. ExecMove
  BY <1>1, Dispatch
<1>3. dm' = [dm EXCEPT ![d] = n] /\ UNCHANGED sp
  BY <1>1, <1>2 DEF ExecMove, Result, Rr, RR, RI, R, A
<1>4. pc' = pc + 1 /\ UNCHANGED <<sreg, pm, fn, arg>>
  BY <1>2 DEF ExecMove, Advance, Keeps
<1>5. Stores(d, n)
  BY <1>1, <1>3, <1>4 DEF Stores, GoesOn, Running, Regs
<1>. QED
  BY <1>4, <1>5, StoreGoes

\* BST takes a bit of a register to TBIT, BLD takes TBIT to a bit of a register.
LEMMA BstRuns ==
  ASSUME Running, Next, NEW d \in Reg, NEW k \in 0..7, I = RI("BST", d, k)
  PROVE  Goes({}) /\ (TBIT \in sreg' <=> Bit(dm[d], k))
<1>1. I.op = "BST" /\ I.d = d /\ I.k = k
  BY DEF RI, A
<1>2. ExecBitFlag
  BY <1>1, Dispatch
<1>3. sreg' = (sreg \ {TBIT}) \cup On(Bit(dm[d], k), TBIT)
  BY <1>1, <1>2 DEF ExecBitFlag, UpdSr, Rd
<1>4. sreg' \subseteq 0..7 /\ (TBIT \in sreg' <=> Bit(dm[d], k))
  <2>1. TBIT \in 0..7 /\ sreg \subseteq 0..7
    BY DEF TBIT, Running, Regs
  <2>. QED
    BY <1>3, <2>1 DEF On
<1>5. dm' = dm /\ GoesOn
  BY <1>2, <1>4 DEF ExecBitFlag, NoResult, Advance, Keeps, GoesOn
<1>. QED
  BY <1>4, <1>5, TestGoes

\* BCLR leaves the registers alone.
LEMMA BclrRuns ==
  ASSUME Running, Next, NEW k \in 0..7, I = RI("BCLR", 0, k)
  PROVE  Goes({})
<1>1. I.op = "BCLR"
  BY DEF RI, A
<1>2. ExecBitFlag
  BY <1>1, Dispatch
<1>3. sreg' = (sreg \ {I.k}) \cup {}
  BY <1>1, <1>2 DEF ExecBitFlag, UpdSr
<1>4. dm' = dm /\ GoesOn
  BY <1>2, <1>3 DEF ExecBitFlag, NoResult, Advance, Keeps, GoesOn, Running, Regs
<1>. QED
  BY <1>4, TestGoes

\* BLD: the bit is that of TBIT, the others stay.
LEMMA BldRuns ==
  ASSUME Running, Next, NEW d \in Reg, NEW k \in 0..7, I = RI("BLD", d, k)
  PROVE  /\ Goes({d}) /\ dm'[d] \in Byte
         /\ Bits(dm'[d]) = (Bits(dm[d]) \ {k}) \cup (IF TBIT \in sreg THEN {k} ELSE {})
<1>1. I.op = "BLD" /\ I.d = d /\ I.k = k
  BY DEF RI, A
<1>2. ExecBld
  BY <1>1, Dispatch
<1>. DEFINE S == (Bits(dm[d]) \ {k}) \cup (IF TBIT \in sreg THEN {k} ELSE {})
            q == ByteOf(S)
<1>3. q \in Byte /\ Bits(q) = S
  <2>1. S \in SUBSET (0..7)
    BY DEF Bits
  <2>. HIDE DEF S
  <2>. QED
    BY <2>1, BitsOfByteOf
<1>4. dm' = [dm EXCEPT ![d] = q] /\ UNCHANGED sp
  BY <1>1, <1>2 DEF ExecBld, Result, On, Rd
<1>5. Stores(d, q)
  BY <1>2, <1>3, <1>4 DEF ExecBld, Advance, Keeps, Stores, GoesOn, Running, Regs
<1>. QED
  BY <1>3, <1>5, StoreGoes

\* Comparisons.
LEMMA CpRuns ==
  ASSUME Running, Next, NEW d \in Reg, NEW y,
         \/ \E r \in Reg : I = RR("CP", d, r) /\ y = dm[r]
         \/ I = RI("CPI", d, y) /\ y \in Byte
  PROVE  /\ Goes({}) /\ SubtractFlags(dm[d], y, 0)
         /\ ZERO \in sreg' <=> dm[d] = y
BY CpStep, TestGoes DEF Running

\* CPC: as SBC, without a result.
LEMMA CpcRuns ==
  ASSUME Running, Next, NEW d \in Reg, NEW r \in Reg, I = RR("CPC", d, r)
  PROVE  /\ Goes({}) /\ SubtractFlags(dm[d], dm[r], Carry)
         /\ ZERO \in sreg' <=> dm[d] - dm[r] - Carry = 0 /\ ZERO \in sreg
BY CpcStep, TestGoes DEF Running

\* Skips, branches and jumps leave registers and flags alone.
Jumps(n) == Running' /\ pc' = n /\ UNCHANGED <<dm, sreg, sp, fn, arg>>

\* A routine that jumps still runs.
LEMMA JumpKeeps ==
  ASSUME Running, UNCHANGED <<dm, sreg, sp, pm, fn, arg>>
  PROVE  Running'
BY DEF Running, Loaded, Regs, PcBytes, Floor

\* CPSE skips one word when the registers are equal.
LEMMA CpseRuns ==
  ASSUME Running, Next, NEW d \in Reg, NEW r \in Reg, I = RR("CPSE", d, r), dm[d] = dm[r],
         pm[pc + 1].op \notin TwoWords
  PROVE  Jumps(pc + 2)
<1>1. I.op = "CPSE" /\ I.d = d /\ I.r = r
  BY DEF RR, A
<1>2. ExecSkip
  BY <1>1, Dispatch
<1>3. pc' = pc + Skip
  BY <1>1, <1>2 DEF ExecSkip, Rd, Rr
<1>4. UNCHANGED <<dm, sreg, sp, pm, fn, arg>>
  BY <1>2 DEF ExecSkip, NoResult, Keeps
<1>. QED
  BY <1>3, <1>4, JumpKeeps DEF Jumps, Skip

\* BRBS and BRBC branch on a flag.
LEMMA BranchRuns ==
  ASSUME Running, Next, NEW b, NEW k,
         \/ I = Br("BRBS", b, k)
         \/ I = Br("BRBC", b, k)
  PROVE  /\ I = Br("BRBS", b, k) => Jumps(IF b \in sreg THEN pc + k + 1 ELSE pc + 1)
         /\ I = Br("BRBC", b, k) => Jumps(IF b \in sreg THEN pc + 1 ELSE pc + k + 1)
<1>1. I.op \in {"BRBS", "BRBC"} /\ I.r = b /\ I.k = k
  BY DEF Br, A
<1>2. ExecBranch
  BY <1>1, Dispatch
<1>3. UNCHANGED <<dm, sreg, sp, pm, fn, arg>>
  BY <1>2 DEF ExecBranch, NoResult, Keeps
<1>4. Running'
  BY <1>3, JumpKeeps
<1>5. ASSUME I = Br("BRBS", b, k)
      PROVE  pc' = IF b \in sreg THEN pc + k + 1 ELSE pc + 1
  <2>1. I.op = "BRBS"
    BY <1>5 DEF Br, A
  <2>. QED
    BY <1>1, <1>2, <2>1 DEF ExecBranch
<1>6. ASSUME I = Br("BRBC", b, k)
      PROVE  pc' = IF b \in sreg THEN pc + 1 ELSE pc + k + 1
  <2>1. I.op = "BRBC"
    BY <1>6 DEF Br, A
  <2>. QED
    BY <1>1, <1>2, <2>1 DEF ExecBranch
<1>. QED
  BY <1>3, <1>4, <1>5, <1>6 DEF Jumps

\* RJMP.
LEMMA RjmpRuns ==
  ASSUME Running, Next, NEW k, I = RI("RJMP", 0, k)
  PROVE  Jumps(pc + k + 1)
<1>1. I.op = "RJMP" /\ I.k = k
  BY DEF RI, A
<1>2. ExecJump
  BY <1>1, Dispatch
<1>3. UNCHANGED <<dm, sreg, sp, pm, fn, arg>> /\ pc' = pc + k + 1
  BY <1>1, <1>2 DEF ExecJump, NoResult, Keeps
<1>. QED
  BY <1>3, JumpKeeps DEF Jumps

\* RET finds the caller's address.
LEMMA RetRuns ==
  ASSUME Running, Level, Next, I = Ret
  PROVE  Returns /\ UNCHANGED <<dm, sreg, pm, fn, arg>>
<1>1. I.op = "RET"
  BY DEF Ret, N, A
<1>2. ExecRet
  BY <1>1, Dispatch
<1>3. PoppedPc = 0
  <2>1. PcBytes \in {2, 3} /\ \A i \in 1..PcBytes : dm[sp + i] = 0
    BY Places DEF Running, Level
  <2>. QED
    BY <2>1 DEF PoppedPc
<1>4. sp + PcBytes = StackTop
  BY Places DEF Level
<1>. QED
  BY <1>1, <1>2, <1>3, <1>4 DEF ExecRet, Keeps, Returns

\* The flags of a word: CARRY and SIGN.
LEMMA FiveFlags ==
  ASSUME NEW S \in SUBSET (0..7), NEW a \in BOOLEAN, NEW n \in BOOLEAN,
         NEW o \in BOOLEAN, NEW z \in BOOLEAN
  PROVE  LET T == (S \ ({CARRY, ZERO} \cup NVS)) \cup (On(a, CARRY) \cup On(z, ZERO) \cup NegV(n, o))
         IN  T \subseteq 0..7 /\ (CARRY \in T <=> a) /\ (SIGN \in T <=> n # o)
<1>. DEFINE T == (S \ ({CARRY, ZERO} \cup NVS)) \cup (On(a, CARRY) \cup On(z, ZERO) \cup NegV(n, o))
<1>1. T \subseteq 0..7
  <2>1. CARRY \in 0..7 /\ ZERO \in 0..7
    BY DEF CARRY, ZERO
  <2>2. /\ On(a, CARRY) \subseteq {CARRY} /\ On(z, ZERO) \subseteq {ZERO}
        /\ NegV(n, o) \subseteq NVS /\ NVS \subseteq 0..7
    BY FlagSets
  <2>. QED
    BY <2>1, <2>2
<1>2. CARRY \in T <=> a
  BY DEF On, NegV, CARRY, SIGN, ZERO, NEG, TCOF, NVS
<1>3. SIGN \in T <=> n # o
  BY DEF On, NegV, CARRY, SIGN, ZERO, NEG, TCOF, NVS
<1>. QED
  BY <1>1, <1>2, <1>3

\* A word one carry away from 16 bits.
LEMMA SeventeenBits ==
  ASSUME NEW n \in Int, 0 <= n, n < 131072
  PROVE  /\ Low(n) \in Byte /\ High(n) \in Byte
         /\ Low(n) + 256 * High(n) = IF n < 65536 THEN n ELSE n - 65536
         /\ Top15(n) <=> (32768 <= n /\ n < 65536) \/ 98304 <= n
<1>1. Low(n) \in Byte /\ n = Low(n) + 256 * (n \div 256) /\ n \div 256 \in Int
  BY SMT DEF Low, Byte
<1>2. 0 <= n \div 256 /\ n \div 256 < 512
  BY <1>1, SMT DEF Byte
<1>3. \A h \in Int : 0 <= h /\ h < 512 => h % 256 = (IF h < 256 THEN h ELSE h - 256)
  BY SMT
<1>4. High(n) \in Byte /\ High(n) = IF n \div 256 < 256 THEN n \div 256 ELSE n \div 256 - 256
  BY <1>1, <1>2, <1>3, SMT DEF High, Byte
<1>5. n \div 256 < 256 <=> n < 65536
  BY <1>1, SMT DEF Byte
<1>6. Low(n) + 256 * High(n) = IF n < 65536 THEN n ELSE n - 65536
  <2>. DEFINE l == Low(n)
              h == High(n)
              q == n \div 256
  <2>1. /\ l \in Int /\ q \in Int /\ n = l + 256 * q /\ (q < 256 <=> n < 65536)
        /\ h = IF q < 256 THEN q ELSE q - 256
    BY <1>1, <1>4, <1>5, SMT DEF Byte
  <2>. HIDE DEF l, h, q
  <2>2. l + 256 * h = IF n < 65536 THEN n ELSE n - 65536
    BY <2>1, SMT
  <2>. QED
    BY <2>2 DEF l, h
<1>7. Top15(n) <=> (32768 <= n /\ n < 65536) \/ 98304 <= n
  BY SMT DEF Top15
<1>. QED
  BY <1>1, <1>4, <1>6, <1>7

Pair(d) == d \in Reg /\ d + 1 \in Reg

\* A word stored in two registers.
LEMMA WordGoes ==
  ASSUME Running, NEW d, Pair(d), NEW l \in Byte, NEW h \in Byte,
         dm' = [dm EXCEPT ![d] = l, ![d + 1] = h], GoesOn
  PROVE  Goes({d, d + 1}) /\ dm'[d] = l /\ dm'[d + 1] = h
<1>1. Regs' /\ dm'[d] = l /\ dm'[d + 1] = h /\ \A i \in Locs \ {d, d + 1} : dm'[i] = dm[i]
  BY Places DEF Pair, Running, Regs, GoesOn, Reg
<1>2. UNCHANGED <<sp, pm, fn, arg>> /\ pc' = pc + 1
  BY DEF GoesOn
<1>3. \A i \in 1..PcBytes : dm'[Floor + i] = 0
  <2>. SUFFICES ASSUME NEW i \in 1..PcBytes
                PROVE  dm'[Floor + i] = 0
    OBVIOUS
  <2>1. Floor + i \in Locs \ Reg /\ dm[Floor + i] = 0
    BY Places DEF Running
  <2>2. Floor + i \in Locs \ {d, d + 1}
    BY <2>1 DEF Pair
  <2>. QED
    BY <1>1, <2>1, <2>2
<1>4. Running'
  BY <1>1, <1>2, <1>3 DEF Running, Loaded, PcBytes, Floor
<1>. QED
  BY <1>1, <1>2, <1>4 DEF Goes

\* Two registers hold a word.
LEMMA WordOf ==
  ASSUME Running, NEW d, Pair(d)
  PROVE  dm[d] \in Byte /\ dm[d + 1] \in Byte /\ Word(d) \in Int /\ 0 <= Word(d) /\ Word(d) <= 65535
<1>1. dm[d] \in Byte /\ dm[d + 1] \in Byte
  BY DEF Pair, Running, Regs
<1>2. \A l, h \in Byte : l + 256 * h \in Int /\ 0 <= l + 256 * h /\ l + 256 * h <= 65535
  BY SMT DEF Byte
<1>. QED
  BY <1>1, <1>2, SMT DEF Word

\* ADIW and SBIW: result and carry together are the sum or the difference.
LEMMA AdiwRuns ==
  ASSUME Running, Next, NEW d, Pair(d), NEW k \in 0..63, I = RI("ADIW", d, k)
  PROVE  /\ Goes({d, d + 1})
         /\ Word(d)' + 65536 * Carry' = Word(d) + k
         /\ SIGN \in sreg' <=> Signed16(Word(d)) + k < 0
<1>1. I.op = "ADIW" /\ I.d = d /\ I.k = k
  BY DEF RI, A
<1>2. ExecAdiw
  BY <1>1, Dispatch
<1>. DEFINE w == Word(d)
            q == w + k
            ca == Top15(w) /\ ~Top15(q)
            ze == q = 0
            ne == Top15(q)
            ov == Top15(q) /\ ~Top15(w)
<1>3. w \in Int /\ 0 <= w /\ w <= 65535 /\ q \in Int /\ 0 <= q /\ q <= 65598
  BY WordOf, SMT
<1>4. /\ Low(q) \in Byte /\ High(q) \in Byte
      /\ Low(q) + 256 * High(q) = IF q < 65536 THEN q ELSE q - 65536
      /\ Top15(q) <=> 32768 <= q /\ q < 65536
      /\ Top15(w) <=> 32768 <= w
  <2>. HIDE DEF w, q
  <2>. QED
    BY <1>3, SeventeenBits, SMT
<1>5. /\ dm' = [dm EXCEPT ![d] = Low(q), ![d + 1] = High(q)]
      /\ pc' = pc + 1 /\ UNCHANGED <<sp, pm, fn, arg>>
      /\ sreg' = (sreg \ ({CARRY, ZERO} \cup NVS)) \cup (On(ca, CARRY) \cup On(ze, ZERO) \cup NegV(ne, ov))
  BY <1>1, <1>2 DEF ExecAdiw, WordResult, UpdSr, Advance, Keeps
<1>6. ca \in BOOLEAN /\ ne \in BOOLEAN /\ ov \in BOOLEAN /\ ze \in BOOLEAN
  BY DEF Top15
<1>7. sreg' \subseteq 0..7 /\ (CARRY \in sreg' <=> ca) /\ (SIGN \in sreg' <=> ne # ov)
  <2>. HIDE DEF ca, ne, ov, ze
  <2>1. sreg \in SUBSET (0..7)
    BY DEF Running, Regs
  <2>. QED
    BY <1>5, <1>6, <2>1, FiveFlags
<1>. DEFINE over == q > 65535
            less == Signed16(w) + k < 0
<1>8. (ca <=> over) /\ (ne # ov <=> less)
  <2>1. k \in Int /\ 0 <= k /\ k <= 63
    OBVIOUS
  <2>2. ca <=> over
    BY <1>3, <1>4, <2>1, SMT
  <2>3. Signed16(w) = IF w > 32767 THEN w - 65536 ELSE w
    BY SMT DEF Signed16
  <2>4. Top15(q) /\ Top15(w) <=> less
    <3>. HIDE DEF w
    <3>. QED
      BY <1>3, <1>4, <2>1, <2>3, SMT
  <2>. DEFINE tq == Top15(q)
              tw == Top15(w)
  <2>5. tq \in BOOLEAN /\ tw \in BOOLEAN
    BY DEF Top15
  <2>. HIDE DEF tq, tw, over, less
  <2>6. ne # ov <=> tq /\ tw
    BY <2>5 DEF tq, tw
  <2>. QED
    BY <2>2, <2>4, <2>6 DEF tq, tw
<1>9. Goes({d, d + 1}) /\ dm'[d] = Low(q) /\ dm'[d + 1] = High(q)
  <2>1. GoesOn
    BY <1>5, <1>7 DEF GoesOn
  <2>2. Low(q) \in Byte /\ High(q) \in Byte /\ dm' = [dm EXCEPT ![d] = Low(q), ![d + 1] = High(q)]
    BY <1>4, <1>5
  <2>. HIDE DEF q
  <2>. QED
    BY <2>1, <2>2, WordGoes
<1>10. Word(d)' = IF q < 65536 THEN q ELSE q - 65536
  BY <1>4, <1>9, SMT DEF Word
<1>. HIDE DEF over, less, ca, ne, ov
<1>11. (Carry' = IF over THEN 1 ELSE 0) /\ (SIGN \in sreg' <=> less)
  BY <1>7, <1>8 DEF Carry
<1>. HIDE DEF w, q
<1>12. Word(d)' + 65536 * Carry' = q
  BY <1>3, <1>10, <1>11, SMT DEF over
<1>. QED
  BY <1>9, <1>11, <1>12 DEF less, q, w
\* SBIW subtracts a constant from a pair of registers.
LEMMA SbiwRuns ==
  ASSUME Running, Next, NEW d, Pair(d), NEW k \in 0..63, I = RI("SBIW", d, k)
  PROVE  /\ Goes({d, d + 1})
         /\ Word(d)' - 65536 * Carry' = Word(d) - k
         /\ SIGN \in sreg' <=> Signed16(Word(d)) < k
<1>1. I.op = "SBIW" /\ I.d = d /\ I.k = k
  BY DEF RI, A
<1>2. ExecSbiw
  BY <1>1, Dispatch
<1>. DEFINE w == Word(d)
            q == (w - k) % 65536
            ca == Top15(q) /\ ~Top15(w)
            ze == q = 0
            ne == Top15(q)
            ov == Top15(w) /\ ~Top15(q)
<1>3. w \in Int /\ 0 <= w /\ w <= 65535 /\ q \in Int /\ 0 <= q /\ q <= 65535
      /\ q = IF w < k THEN w - k + 65536 ELSE w - k
  <2>1. w \in Int /\ 0 <= w /\ w <= 65535
    BY WordOf
  <2>. HIDE DEF w
  <2>. QED
    BY <2>1, SMT
<1>4. /\ Low(q) \in Byte /\ High(q) \in Byte
      /\ Low(q) + 256 * High(q) = q
      /\ Top15(q) <=> 32768 <= q
      /\ Top15(w) <=> 32768 <= w
  <2>. HIDE DEF w, q
  <2>. QED
    BY <1>3, SeventeenBits, SMT
<1>5. /\ dm' = [dm EXCEPT ![d] = Low(q), ![d + 1] = High(q)]
      /\ pc' = pc + 1 /\ UNCHANGED <<sp, pm, fn, arg>>
      /\ sreg' = (sreg \ ({CARRY, ZERO} \cup NVS)) \cup (On(ca, CARRY) \cup On(ze, ZERO) \cup NegV(ne, ov))
  BY <1>1, <1>2 DEF ExecSbiw, WordResult, UpdSr, Advance, Keeps
<1>6. ca \in BOOLEAN /\ ne \in BOOLEAN /\ ov \in BOOLEAN /\ ze \in BOOLEAN
  BY DEF Top15
<1>7. sreg' \subseteq 0..7 /\ (CARRY \in sreg' <=> ca) /\ (SIGN \in sreg' <=> ne # ov)
  <2>. HIDE DEF ca, ne, ov, ze
  <2>1. sreg \in SUBSET (0..7)
    BY DEF Running, Regs
  <2>. QED
    BY <1>5, <1>6, <2>1, FiveFlags
<1>. DEFINE over == w < k
            less == Signed16(w) < k
<1>8. (ca <=> over) /\ (ne # ov <=> less)
  <2>1. k \in Int /\ 0 <= k /\ k <= 63
    OBVIOUS
  <2>2. ca <=> over
    BY <1>3, <1>4, <2>1, SMT
  <2>3. Signed16(w) = IF w > 32767 THEN w - 65536 ELSE w
    BY SMT DEF Signed16
  <2>4. Top15(q) \/ Top15(w) <=> less
    <3>. HIDE DEF w
    <3>. QED
      BY <1>3, <1>4, <2>1, <2>3, SMT
  <2>. DEFINE tq == Top15(q)
              tw == Top15(w)
  <2>5. tq \in BOOLEAN /\ tw \in BOOLEAN
    BY DEF Top15
  <2>. HIDE DEF tq, tw, over, less
  <2>6. ne # ov <=> tq \/ tw
    BY <2>5 DEF tq, tw
  <2>. QED
    BY <2>2, <2>4, <2>6 DEF tq, tw
<1>9. Goes({d, d + 1}) /\ dm'[d] = Low(q) /\ dm'[d + 1] = High(q)
  <2>1. GoesOn
    BY <1>5, <1>7 DEF GoesOn
  <2>2. Low(q) \in Byte /\ High(q) \in Byte /\ dm' = [dm EXCEPT ![d] = Low(q), ![d + 1] = High(q)]
    BY <1>4, <1>5
  <2>. HIDE DEF q
  <2>. QED
    BY <2>1, <2>2, WordGoes
<1>10. Word(d)' = q
  BY <1>4, <1>9, SMT DEF Word
<1>. HIDE DEF over, less, ca, ne, ov
<1>11. (Carry' = IF over THEN 1 ELSE 0) /\ (SIGN \in sreg' <=> less)
  BY <1>7, <1>8 DEF Carry
<1>. HIDE DEF w, q
<1>12. Word(d)' - 65536 * Carry' = w - k
  BY <1>3, <1>10, <1>11, SMT DEF over
<1>. QED
  BY <1>9, <1>11, <1>12 DEF less, q, w

-----------------------------------------------------------------------------
(* The routines in the program memory, and the assertions along them. *)

\* The program memory holds the caller and behind it the routine, word by word.
LEMMA Image ==
  ASSUME Loaded, NEW S, CodeOf(fn) \in Seq(S)
  PROVE  /\ pm[0] = RI("RJMP", 0, -1)
         /\ \A i \in 1..Len(CodeOf(fn)) : pm[i] = CodeOf(fn)[i]
<1>. DEFINE c == CodeOf(fn)
            j == RI("RJMP", 0, -1)
            image == <<j>> \o c
<1>1. Len(image) = Len(c) + 1 /\ image[1] = j
      /\ \A i \in 1..Len(c) : image[i + 1] = c[i]
  <2>. HIDE DEF j, c
  <2>1. <<j>> \in Seq(S \cup {j}) /\ c \in Seq(S \cup {j}) /\ Len(<<j>>) = 1 /\ <<j>>[1] = j
    BY DEF c
  <2>. QED
    BY <2>1
<1>2. pm = [a \in 0..(Len(image) - 1) |-> image[a + 1]] /\ c \in Seq(S)
  BY DEF FirmwarePrograms, Caller, Loaded
<1>. HIDE DEF image, c
<1>3. pm[0] = RI("RJMP", 0, -1) /\ \A i \in 1..Len(c) : pm[i] = c[i]
  BY <1>1, <1>2
<1>. QED
  BY <1>3 DEF c

\* The routines one by one.
LEMMA AddProgram ==
  ASSUME Loaded, fn = "add"
  PROVE  /\ pm[0] = RI("RJMP", 0, -1)
         /\ pm[1] = RR("ADD", 24, 22) /\ pm[2] = RR("ADC", 25, 23) /\ pm[3] = Ret
<1>1. AddCode \in Seq({AddCode[i] : i \in 1..3}) /\ Len(AddCode) = 3
  BY DEF AddCode
<1>2. CodeOf(fn) = AddCode
  BY DEF CodeOf
<1>3. pm[0] = RI("RJMP", 0, -1) /\ \A i \in 1..3 : pm[i] = AddCode[i]
  BY <1>1, <1>2, Image
<1>. QED
  BY <1>3 DEF AddCode

\* The words of sub.
LEMMA SubProgram ==
  ASSUME Loaded, fn = "sub"
  PROVE  /\ pm[0] = RI("RJMP", 0, -1)
         /\ pm[1] = RR("SUB", 24, 22) /\ pm[2] = RR("SBC", 25, 23) /\ pm[3] = Ret
<1>1. SubCode \in Seq({SubCode[i] : i \in 1..3}) /\ Len(SubCode) = 3
  BY DEF SubCode
<1>2. CodeOf(fn) = SubCode
  BY DEF CodeOf
<1>3. pm[0] = RI("RJMP", 0, -1) /\ \A i \in 1..3 : pm[i] = SubCode[i]
  BY <1>1, <1>2, Image
<1>. QED
  BY <1>3 DEF SubCode

\* The words of subi.
LEMMA SubiProgram ==
  ASSUME Loaded, fn = "subi"
  PROVE  /\ pm[0] = RI("RJMP", 0, -1)
         /\ pm[1] = RI("SUBI", 24, 127) /\ pm[2] = RI("SBCI", 25, 1) /\ pm[3] = Ret
<1>1. SubiCode \in Seq({SubiCode[i] : i \in 1..3}) /\ Len(SubiCode) = 3
  BY DEF SubiCode
<1>2. CodeOf(fn) = SubiCode
  BY DEF CodeOf
<1>3. pm[0] = RI("RJMP", 0, -1) /\ \A i \in 1..3 : pm[i] = SubiCode[i]
  BY <1>1, <1>2, Image
<1>. QED
  BY <1>3 DEF SubiCode

\* The words of neg.
LEMMA NegProgram ==
  ASSUME Loaded, fn = "neg"
  PROVE  /\ pm[0] = RI("RJMP", 0, -1)
         /\ pm[1] = R("COM", 25) /\ pm[2] = R("NEG", 24) /\ pm[3] = RI("SBCI", 25, 255)
         /\ pm[4] = Ret
<1>1. NegCode \in Seq({NegCode[i] : i \in 1..4}) /\ Len(NegCode) = 4
  BY DEF NegCode
<1>2. CodeOf(fn) = NegCode
  BY DEF CodeOf
<1>3. pm[0] = RI("RJMP", 0, -1) /\ \A i \in 1..4 : pm[i] = NegCode[i]
  BY <1>1, <1>2, Image
<1>. QED
  BY <1>3 DEF NegCode

\* The words of adiw.
LEMMA AdiwProgram ==
  ASSUME Loaded, fn = "adiw"
  PROVE  /\ pm[0] = RI("RJMP", 0, -1)
         /\ pm[1] = RI("ADIW", 24, 63) /\ pm[2] = Ret
<1>1. AdiwCode \in Seq({AdiwCode[i] : i \in 1..2}) /\ Len(AdiwCode) = 2
  BY DEF AdiwCode
<1>2. CodeOf(fn) = AdiwCode
  BY DEF CodeOf
<1>3. pm[0] = RI("RJMP", 0, -1) /\ \A i \in 1..2 : pm[i] = AdiwCode[i]
  BY <1>1, <1>2, Image
<1>. QED
  BY <1>3 DEF AdiwCode

\* The words of sbiw.
LEMMA SbiwProgram ==
  ASSUME Loaded, fn = "sbiw"
  PROVE  /\ pm[0] = RI("RJMP", 0, -1)
         /\ pm[1] = RI("SBIW", 24, 63) /\ pm[2] = Ret
<1>1. SbiwCode \in Seq({SbiwCode[i] : i \in 1..2}) /\ Len(SbiwCode) = 2
  BY DEF SbiwCode
<1>2. CodeOf(fn) = SbiwCode
  BY DEF CodeOf
<1>3. pm[0] = RI("RJMP", 0, -1) /\ \A i \in 1..2 : pm[i] = SbiwCode[i]
  BY <1>1, <1>2, Image
<1>. QED
  BY <1>3 DEF SbiwCode

\* The words of lsl.
LEMMA LslProgram ==
  ASSUME Loaded, fn = "lsl"
  PROVE  /\ pm[0] = RI("RJMP", 0, -1)
         /\ pm[1] = RR("ADD", 24, 24) /\ pm[2] = RR("ADC", 25, 25) /\ pm[3] = Ret
<1>1. LslCode \in Seq({LslCode[i] : i \in 1..3}) /\ Len(LslCode) = 3
  BY DEF LslCode
<1>2. CodeOf(fn) = LslCode
  BY DEF CodeOf
<1>3. pm[0] = RI("RJMP", 0, -1) /\ \A i \in 1..3 : pm[i] = LslCode[i]
  BY <1>1, <1>2, Image
<1>. QED
  BY <1>3 DEF LslCode

\* The words of lsr.
LEMMA LsrProgram ==
  ASSUME Loaded, fn = "lsr"
  PROVE  /\ pm[0] = RI("RJMP", 0, -1)
         /\ pm[1] = R("LSR", 25) /\ pm[2] = R("ROR", 24) /\ pm[3] = Ret
<1>1. LsrCode \in Seq({LsrCode[i] : i \in 1..3}) /\ Len(LsrCode) = 3
  BY DEF LsrCode
<1>2. CodeOf(fn) = LsrCode
  BY DEF CodeOf
<1>3. pm[0] = RI("RJMP", 0, -1) /\ \A i \in 1..3 : pm[i] = LsrCode[i]
  BY <1>1, <1>2, Image
<1>. QED
  BY <1>3 DEF LsrCode

\* The words of asr.
LEMMA AsrProgram ==
  ASSUME Loaded, fn = "asr"
  PROVE  /\ pm[0] = RI("RJMP", 0, -1)
         /\ pm[1] = R("ASR", 25) /\ pm[2] = R("ROR", 24) /\ pm[3] = Ret
<1>1. AsrCode \in Seq({AsrCode[i] : i \in 1..3}) /\ Len(AsrCode) = 3
  BY DEF AsrCode
<1>2. CodeOf(fn) = AsrCode
  BY DEF CodeOf
<1>3. pm[0] = RI("RJMP", 0, -1) /\ \A i \in 1..3 : pm[i] = AsrCode[i]
  BY <1>1, <1>2, Image
<1>. QED
  BY <1>3 DEF AsrCode

\* The words of rotate.
LEMMA RotateProgram ==
  ASSUME Loaded, fn = "rotate"
  PROVE  /\ pm[0] = RI("RJMP", 0, -1)
         /\ pm[1] = RI("LDI", 18, 253) /\ pm[2] = RR("ADD", 24, 24) /\ pm[3] = RR("ADC", 25, 25)
         /\ pm[4] = RR("ADC", 24, 1) /\ pm[5] = R("INC", 18) /\ pm[6] = Br("BRBC", ZERO, -5)
         /\ pm[7] = Ret
<1>1. RotateCode \in Seq({RotateCode[i] : i \in 1..7}) /\ Len(RotateCode) = 7
  BY DEF RotateCode
<1>2. CodeOf(fn) = RotateCode
  BY DEF CodeOf
<1>3. pm[0] = RI("RJMP", 0, -1) /\ \A i \in 1..7 : pm[i] = RotateCode[i]
  BY <1>1, <1>2, Image
<1>. QED
  BY <1>3 DEF RotateCode

\* The words of cmp.
LEMMA CmpProgram ==
  ASSUME Loaded, fn = "cmp"
  PROVE  /\ pm[0] = RI("RJMP", 0, -1)
         /\ pm[1] = RR("CP", 24, 22) /\ pm[2] = RR("CPC", 25, 23) /\ pm[3] = RI("LDI", 18, 0)
         /\ pm[4] = Br("BRBC", CARRY, 1) /\ pm[5] = RI("LDI", 18, 1) /\ pm[6] = RI("LDI", 19, 0)
         /\ pm[7] = Br("BRBC", SIGN, 1) /\ pm[8] = RI("LDI", 19, 1) /\ pm[9] = RI("LDI", 20, 0)
         /\ pm[10] = Br("BRBS", ZERO, 1) /\ pm[11] = RI("RJMP", 0, 1) /\ pm[12] = R("SER", 20)
         /\ pm[13] = Ret
<1>1. CmpCode \in Seq({CmpCode[i] : i \in 1..13}) /\ Len(CmpCode) = 13
  BY DEF CmpCode
<1>2. CodeOf(fn) = CmpCode
  BY DEF CodeOf
<1>3. pm[0] = RI("RJMP", 0, -1) /\ \A i \in 1..13 : pm[i] = CmpCode[i]
  BY <1>1, <1>2, Image
<1>. QED
  BY <1>3 DEF CmpCode

\* The words of cpi.
LEMMA CpiProgram ==
  ASSUME Loaded, fn = "cpi"
  PROVE  /\ pm[0] = RI("RJMP", 0, -1)
         /\ pm[1] = RI("LDI", 18, 1) /\ pm[2] = RI("CPI", 24, 127) /\ pm[3] = RR("CPC", 25, 18)
         /\ pm[4] = RI("LDI", 18, 0) /\ pm[5] = Br("BRBC", CARRY, 1) /\ pm[6] = RI("LDI", 18, 1)
         /\ pm[7] = Ret
<1>1. CpiCode \in Seq({CpiCode[i] : i \in 1..7}) /\ Len(CpiCode) = 7
  BY DEF CpiCode
<1>2. CodeOf(fn) = CpiCode
  BY DEF CodeOf
<1>3. pm[0] = RI("RJMP", 0, -1) /\ \A i \in 1..7 : pm[i] = CpiCode[i]
  BY <1>1, <1>2, Image
<1>. QED
  BY <1>3 DEF CpiCode

\* The words of logic.
LEMMA LogicProgram ==
  ASSUME Loaded, fn = "logic"
  PROVE  /\ pm[0] = RI("RJMP", 0, -1)
         /\ pm[1] = RR("MOV", 18, 24) /\ pm[2] = RR("AND", 18, 22) /\ pm[3] = R("COM", 18)
         /\ pm[4] = R("COM", 24) /\ pm[5] = R("COM", 22) /\ pm[6] = RR("OR", 24, 22)
         /\ pm[7] = RI("LDI", 19, 1) /\ pm[8] = RR("CPSE", 18, 24) /\ pm[9] = RR("EOR", 19, 19)
         /\ pm[10] = Ret
<1>1. LogicCode \in Seq({LogicCode[i] : i \in 1..10}) /\ Len(LogicCode) = 10
  BY DEF LogicCode
<1>2. CodeOf(fn) = LogicCode
  BY DEF CodeOf
<1>3. pm[0] = RI("RJMP", 0, -1) /\ \A i \in 1..10 : pm[i] = LogicCode[i]
  BY <1>1, <1>2, Image
<1>. QED
  BY <1>3 DEF LogicCode

\* The words of bits.
LEMMA BitsProgram ==
  ASSUME Loaded, fn = "bits"
  PROVE  /\ pm[0] = RI("RJMP", 0, -1)
         /\ pm[1] = RR("EOR", 24, 22) /\ pm[2] = RR("EOR", 22, 24) /\ pm[3] = RR("EOR", 24, 22)
         /\ pm[4] = RR("MOV", 18, 25) /\ pm[5] = R("SWAP", 18) /\ pm[6] = RI("ANDI", 18, 15)
         /\ pm[7] = RI("ORI", 18, 64) /\ pm[8] = RI("BST", 25, 0) /\ pm[9] = RI("BLD", 18, 7)
         /\ pm[10] = RI("BCLR", 0, TBIT) /\ pm[11] = Ret
<1>1. BitsCode \in Seq({BitsCode[i] : i \in 1..11}) /\ Len(BitsCode) = 11
  BY DEF BitsCode
<1>2. CodeOf(fn) = BitsCode
  BY DEF CodeOf
<1>3. pm[0] = RI("RJMP", 0, -1) /\ \A i \in 1..11 : pm[i] = BitsCode[i]
  BY <1>1, <1>2, Image
<1>. QED
  BY <1>3 DEF BitsCode

\* What a routine knows before each of its instructions.  c is the carry between the bytes.
Given == dm[24] = ul /\ dm[25] = uh /\ dm[22] = vl /\ dm[23] = vh

AddAt ==
  \/ pc = 1 /\ Given
  \/ pc = 2 /\ dm[24] + 256 * Carry = ul + vl /\ dm[25] = uh /\ dm[23] = vh
  \/ pc = 3 /\ AddExact

SubAt ==
  \/ pc = 1 /\ Given
  \/ /\ pc = 2 /\ dm[24] - 256 * Carry = ul - vl /\ dm[25] = uh /\ dm[23] = vh
     /\ ZERO \in sreg <=> ul = vl
  \/ pc = 3 /\ SubExact

SubiAt ==
  \/ pc = 1 /\ Given
  \/ /\ pc = 2 /\ dm[24] - 256 * Carry = ul - 127 /\ dm[25] = uh
     /\ ZERO \in sreg <=> ul = 127
  \/ pc = 3 /\ SubiExact

NegAt ==
  \/ pc = 1 /\ Given
  \/ pc = 2 /\ dm[24] = ul /\ dm[25] = 255 - uh
  \/ /\ pc = 3 /\ dm[24] - 256 * Carry = -ul /\ dm[25] = 255 - uh
     /\ ZERO \in sreg <=> ul = 0
  \/ pc = 4 /\ NegExact

AdiwAt == (pc = 1 /\ Given) \/ (pc = 2 /\ AdiwExact)
SbiwAt == (pc = 1 /\ Given) \/ (pc = 2 /\ SbiwExact)

LslAt ==
  \/ pc = 1 /\ Given
  \/ pc = 2 /\ dm[24] + 256 * Carry = 2 * ul /\ dm[25] = uh
  \/ pc = 3 /\ LslExact

LsrAt ==
  \/ pc = 1 /\ Given
  \/ pc = 2 /\ dm[24] = ul /\ 2 * dm[25] + Carry = uh
  \/ pc = 3 /\ LsrExact

AsrAt ==
  \/ pc = 1 /\ Given
  \/ pc = 2 /\ dm[24] = ul /\ 2 * dm[25] + Carry = uh + (IF uh > 127 THEN 256 ELSE 0)
  \/ pc = 3 /\ AsrExact

\* A word turned left by one bit, and the argument after r18 - 253 turns.
Rol(w)  == 2 * w - (IF w > 32767 THEN 65535 ELSE 0)
Turned  == CASE dm[18] = 253 -> u [] dm[18] = 254 -> Rol(u) [] dm[18] = 255 -> Rol(Rol(u))
Turning == dm[1] = 0 /\ dm[18] \in 253..255

RotateAt ==
  \/ pc = 1 /\ Given /\ dm[1] = 0
  \/ pc = 2 /\ Turning /\ res = Turned
  \/ pc = 3 /\ Turning /\ dm[24] + 256 * Carry + 512 * dm[25] = 2 * Turned /\ dm[24] % 2 = 0
  \/ pc = 4 /\ Turning /\ res + 65536 * Carry = 2 * Turned /\ dm[24] % 2 = 0
  \/ pc = 5 /\ Turning /\ res = Rol(Turned)
  \/ pc = 6 /\ Turning /\ ZERO \notin sreg /\ res = Turned
  \/ pc = 6 /\ ZERO \in sreg /\ RotateExact
  \/ pc = 7 /\ RotateExact

\* The flags tell the order of the arguments.
Ordered == /\ Sets(CARRY, u < v) /\ Sets(SIGN, Signed16(u) < Signed16(v)) /\ Sets(ZERO, u = v)
Below   == (dm[18] = 1) <=> (u < v)
Less    == (dm[19] = 1) <=> (Signed16(u) < Signed16(v))

CmpAt ==
  \/ pc = 1 /\ Given
  \/ pc = 2 /\ Given /\ Sets(CARRY, ul < vl) /\ Sets(ZERO, ul = vl)
  \/ pc = 3 /\ Ordered
  \/ pc = 4 /\ Ordered /\ dm[18] = 0
  \/ pc = 5 /\ Ordered /\ u < v
  \/ pc = 6 /\ Ordered /\ Below
  \/ pc = 7 /\ Ordered /\ Below /\ dm[19] = 0
  \/ pc = 8 /\ Ordered /\ Below /\ Signed16(u) < Signed16(v)
  \/ pc = 9 /\ Ordered /\ Below /\ Less
  \/ pc = 10 /\ Ordered /\ Below /\ Less /\ dm[20] = 0
  \/ pc = 11 /\ Below /\ Less /\ dm[20] = 0 /\ u # v
  \/ pc = 12 /\ Below /\ Less /\ u = v
  \/ pc = 13 /\ CmpExact

CpiExact == (dm[18] = 1) <=> (u < Limit)
CpiAt ==
  \/ pc = 1 /\ Given
  \/ pc = 2 /\ Given /\ dm[18] = 1
  \/ pc = 3 /\ Sets(CARRY, ul < 127) /\ dm[25] = uh /\ dm[18] = 1
  \/ pc = 4 /\ Sets(CARRY, u < Limit)
  \/ pc = 5 /\ Sets(CARRY, u < Limit) /\ dm[18] = 0
  \/ pc = 6 /\ u < Limit
  \/ pc = 7 /\ CpiExact

LogicAt ==
  \/ pc = 1 /\ Given
  \/ pc = 2 /\ Given /\ dm[18] = ul
  \/ pc = 3 /\ Given /\ Bits(dm[18]) = Bits(ul) \cap Bits(vl)
  \/ pc = 4 /\ Given /\ Bits(dm[18]) = (0..7) \ (Bits(ul) \cap Bits(vl))
  \/ /\ pc = 5 /\ dm[24] = 255 - ul /\ dm[22] = vl
     /\ Bits(dm[18]) = (0..7) \ (Bits(ul) \cap Bits(vl))
  \/ /\ pc = 6 /\ dm[24] = 255 - ul /\ dm[22] = 255 - vl
     /\ Bits(dm[18]) = (0..7) \ (Bits(ul) \cap Bits(vl))
  \/ pc = 7 /\ dm[18] = dm[24]
  \/ pc = 8 /\ dm[18] = dm[24] /\ dm[19] = 1
  \/ pc = 10 /\ dm[19] = 1

Xor(x, y) == (x \ y) \cup (y \ x)
Exchanged == dm[24] = vl /\ dm[22] = ul
BitsAt ==
  \/ pc = 1 /\ Given
  \/ pc = 2 /\ Bits(dm[24]) = Xor(Bits(ul), Bits(vl)) /\ dm[22] = vl /\ dm[25] = uh
  \/ pc = 3 /\ Bits(dm[24]) = Xor(Bits(ul), Bits(vl)) /\ dm[22] = ul /\ dm[25] = uh
  \/ pc = 4 /\ Exchanged /\ dm[25] = uh
  \/ pc = 5 /\ Exchanged /\ dm[25] = uh /\ dm[18] = uh
  \/ pc = 6 /\ Exchanged /\ dm[25] = uh /\ dm[18] = 16 * (uh % 16) + (uh \div 16)
  \/ pc = 7 /\ Exchanged /\ dm[25] = uh /\ dm[18] = uh \div 16
  \/ pc = 8 /\ Exchanged /\ dm[25] = uh /\ dm[18] = (uh \div 16) + 64
  \/ pc = 9 /\ Exchanged /\ dm[18] = (uh \div 16) + 64 /\ Sets(TBIT, uh % 2 = 1)
  \/ pc = 10 /\ BitsExact
  \/ pc = 11 /\ BitsExact

\* The arguments stay.
LEMMA SameArguments ==
  ASSUME UNCHANGED arg
  PROVE  UNCHANGED <<u, v, ul, uh, vl, vh>>
BY DEF u, v, ul, uh, vl, vh

\* Words and their bytes: as unsigned and signed numbers, and without the upper nibble.
LEMMA WordParts ==
  ASSUME NEW a \in Byte, NEW b \in Byte, NEW w, w = a + 256 * b
  PROVE  /\ Signed16(w) = a + 256 * Signed(b) /\ Signed(b) \in Int /\ -128 <= Signed(b) /\ Signed(b) <= 127
         /\ w % 4096 = a + 256 * (b % 16)
<1>1. Signed16(w) = a + 256 * Signed(b) /\ Signed(b) \in Int /\ -128 <= Signed(b)
        /\ Signed(b) <= 127
  BY SMT DEF Signed16, Signed, Byte
<1>2. w % 4096 = a + 256 * (b % 16)
  BY SMT DEF Byte
<1>. QED
  BY <1>1, <1>2

\* The arguments as bytes, words and signed words.
LEMMA Arguments ==
  ASSUME Running
  PROVE  /\ ul \in Byte /\ uh \in Byte /\ vl \in Byte /\ vh \in Byte
         /\ ul \in Int /\ uh \in Int /\ vl \in Int /\ vh \in Int
         /\ 0 <= ul /\ ul < 256 /\ 0 <= uh /\ uh < 256 /\ 0 <= vl /\ vl < 256 /\ 0 <= vh /\ vh < 256
         /\ u = ul + 256 * uh /\ v = vl + 256 * vh
<1>1. ul \in Byte /\ uh \in Byte /\ vl \in Byte /\ vh \in Byte /\ u = ul + 256 * uh
        /\ v = vl + 256 * vh
  <2>1. Loaded
    BY DEF Running
  <2>. QED
    BY <2>1, Words16
<1>2. /\ ul \in Int /\ uh \in Int /\ vl \in Int /\ vh \in Int
      /\ 0 <= ul /\ ul < 256 /\ 0 <= uh /\ uh < 256 /\ 0 <= vl /\ vl < 256 /\ 0 <= vh /\ vh < 256
  BY <1>1 DEF Byte
<1>. QED
  BY <1>1, <1>2

\* The arguments as signed words.
LEMMA SignedArguments ==
  ASSUME Running
  PROVE  /\ Signed16(u) = ul + 256 * Signed(uh) /\ Signed(uh) \in Int
         /\ Signed16(v) = vl + 256 * Signed(vh) /\ Signed(vh) \in Int
BY Arguments, WordParts

\* The arguments without their upper nibble.
LEMMA Nibbles ==
  ASSUME Running
  PROVE  u % 4096 = ul + 256 * (uh % 16) /\ v % 4096 = vl + 256 * (vh % 16)
BY Arguments, WordParts

\* A word one carry or one borrow away.
LEMMA Modulo16 ==
  ASSUME NEW n \in Int, NEW r \in Int, 0 <= r, r < 65536, n = r \/ n = r + 65536 \/ n = r - 65536
  PROVE  r = n % 65536
BY SMT

\* A word whose bytes were added or subtracted.
Bytes(l, h) == l \in Byte /\ h \in Byte /\ l + 256 * h \in Int /\ 0 <= l + 256 * h /\ l + 256 * h < 65536
\* Two bytes make a word.
LEMMA ByteWords == \A l, h \in Byte : Bytes(l, h)
BY SMT DEF Bytes, Byte

-----------------------------------------------------------------------------
(* Each routine goes from assertion to assertion, and home with its promise. *)

\* The registers that the routines use.
LEMMA Registers == Pair(24) /\ Pair(22) /\ 18 \in Reg /\ 19 \in Reg /\ 20 \in Reg /\ 1 \in Reg
                   /\ 22 \in Reg /\ 23 \in Reg /\ 24 \in Reg /\ 25 \in Reg
                   /\ 18 \in Locs /\ 19 \in Locs /\ 20 \in Locs /\ 1 \in Locs
                   /\ 22 \in Locs /\ 23 \in Locs /\ 24 \in Locs /\ 25 \in Locs
BY Places DEF Pair, Reg

\* add: the carry between the bytes is dm[24] + 256 * Carry = ul + vl.
LEMMA AddHolds ==
  ASSUME Running, Level, fn = "add", AddAt, Next
  PROVE  \/ Running' /\ AddAt' /\ UNCHANGED <<sp, fn, arg>>
         \/ Returns /\ AddExact' /\ UNCHANGED <<pm, fn, arg>>
<1>. USE Registers
<1>1. CASE pc = 1
  <2>1. I = RR("ADD", 24, 22)
    BY <1>1, AddProgram DEF I, Running
  <2>2. Goes({24}) /\ dm'[24] + 256 * Carry' = dm[24] + dm[22]
    BY <2>1, AddRuns
  <2>3. pc' = 2 /\ dm'[25] = dm[25] /\ dm'[23] = dm[23] /\ Running' /\ UNCHANGED <<sp, fn, arg>>
    BY <1>1, <2>2 DEF Goes
  <2>4. dm[24] = ul /\ dm[25] = uh /\ dm[22] = vl /\ dm[23] = vh
    BY <1>1 DEF AddAt, Given
  <2>5. dm'[24] + 256 * Carry' = ul + vl
    BY <2>2, <2>4, Arguments
  <2>. QED
    BY <2>3, <2>4, <2>5, SameArguments DEF AddAt
<1>2. CASE pc = 2
  <2>1. I = RR("ADC", 25, 23)
    BY <1>2, AddProgram DEF I, Running
  <2>2. Goes({25}) /\ dm'[25] + 256 * Carry' = dm[25] + dm[23] + Carry
          /\ AddFlags(dm[25], dm[23], Carry)
    BY <2>1, AdcRuns
  <2>3. pc' = 3 /\ dm'[24] = dm[24] /\ Running' /\ UNCHANGED <<sp, fn, arg>>
    BY <1>2, <2>2 DEF Goes
  <2>4. dm[24] + 256 * Carry = ul + vl /\ dm[25] = uh /\ dm[23] = vh
    BY <1>2 DEF AddAt
  <2>. DEFINE l == dm[24]
              h == dm'[25]
              c == Carry
              k == Carry'
  <2>5. l \in Byte /\ h \in Byte /\ c \in {0, 1} /\ k \in {0, 1} /\ Bytes(l, h)
    BY <2>2, RegisterTypes, GoesTypes, ByteWords
  <2>7. /\ l + 256 * c = ul + vl /\ h + 256 * k = uh + vh + c
        /\ AddFlags(uh, vh, c) /\ res' = l + 256 * h
    BY <2>2, <2>3, <2>4 DEF res, Word
  <2>8. u' = u /\ v' = v
    BY <2>3, SameArguments
  <2>. HIDE DEF l, h, c, k
  <2>6. l \in Int /\ h \in Int /\ 0 <= l /\ l < 256 /\ 0 <= h /\ h < 256
    BY <2>5 DEF Byte
  <2>9. /\ l + 256 * c = ul + vl /\ h + 256 * k = uh + vh + c
        /\ l \in Int /\ h \in Int /\ c \in {0, 1} /\ k \in {0, 1}
        /\ 0 <= l /\ l < 256 /\ 0 <= h /\ h < 256
        /\ ul \in Int /\ uh \in Int /\ vl \in Int /\ vh \in Int
        /\ u = ul + 256 * uh /\ v = vl + 256 * vh
    BY <2>5, <2>6, <2>7, Arguments
  <2>10. res' = (u + v) % 65536
    BY <2>5, <2>7, <2>9, Modulo16, SMT DEF Bytes
  <2>11. uh + vh + c > 255 <=> u + v > 65535
    BY <2>9, SMT
  <2>12. Signed(uh) + Signed(vh) + c < 0 <=> Signed16(u) + Signed16(v) < 0
    BY <2>9, SignedArguments, SMT
  <2>. DEFINE p == uh % 16
              q == vh % 16
  <2>13. (uh % 16) + (vh % 16) + c > 15 <=> (u % 4096) + (v % 4096) > 4095
    <3>1. u % 4096 = ul + 256 * p /\ v % 4096 = vl + 256 * q /\ p \in Int /\ q \in Int
      BY <2>9, Nibbles
    <3>. HIDE DEF p, q
    <3>2. p + q + c > 15 <=> (ul + 256 * p) + (vl + 256 * q) > 4095
      BY <2>9, <3>1, SMT
    <3>. QED
      BY <3>1, <3>2 DEF p, q
  <2>14. AddExact'
    BY <2>7, <2>8, <2>10, <2>11, <2>12, <2>13, SMT DEF AddExact, AddFlags, Sets
  <2>. QED
    BY <2>3, <2>14 DEF AddAt
<1>3. CASE pc = 3
  <2>1. I = Ret
    BY <1>3, AddProgram DEF I, Running
  <2>2. Returns /\ UNCHANGED <<dm, sreg, pm, fn, arg>>
    BY <2>1, RetRuns
  <2>3. AddExact
    BY <1>3 DEF AddAt
  <2>4. AddExact'
    BY <2>2, <2>3 DEF AddExact, res, Word, Sets, u, v
  <2>. QED
    BY <2>2, <2>4
<1>. QED
  BY <1>1, <1>2, <1>3 DEF AddAt

\* sub: as add, with the borrow; ZERO says after the first byte whether the low bytes are equal.
LEMMA SubHolds ==
  ASSUME Running, Level, fn = "sub", SubAt, Next
  PROVE  \/ Running' /\ SubAt' /\ UNCHANGED <<sp, fn, arg>>
         \/ Returns /\ SubExact' /\ UNCHANGED <<pm, fn, arg>>
<1>. USE Registers
<1>1. CASE pc = 1
  <2>1. I = RR("SUB", 24, 22)
    BY <1>1, SubProgram DEF I, Running
  <2>2. Goes({24}) /\ dm'[24] - 256 * Carry' = dm[24] - dm[22]
          /\ (ZERO \in sreg' <=> dm[24] = dm[22])
    <3>1. 24 \in Reg /\ 22 \in Reg
      OBVIOUS
    <3>. HIDE Registers
    <3>. QED
      BY <2>1, <3>1, SubRuns, SMTT(60)
  <2>3. pc' = 2 /\ dm'[25] = dm[25] /\ dm'[23] = dm[23] /\ Running' /\ UNCHANGED <<sp, fn, arg>>
    BY <1>1, <2>2 DEF Goes
  <2>4. dm[24] = ul /\ dm[25] = uh /\ dm[22] = vl /\ dm[23] = vh
    BY <1>1 DEF SubAt, Given
  <2>. QED
    BY <2>2, <2>3, <2>4, SameArguments DEF SubAt
<1>2. CASE pc = 2
  <2>1. I = RR("SBC", 25, 23)
    BY <1>2, SubProgram DEF I, Running
  <2>2. /\ Goes({25}) /\ dm'[25] - 256 * Carry' = dm[25] - dm[23] - Carry
        /\ SubtractFlags(dm[25], dm[23], Carry) /\ (ZERO \in sreg' <=> dm'[25] = 0 /\ ZERO \in sreg)
    BY <2>1, SbcRuns
  <2>3. pc' = 3 /\ dm'[24] = dm[24] /\ Running' /\ UNCHANGED <<sp, fn, arg>>
    BY <1>2, <2>2 DEF Goes
  <2>4. /\ dm[24] - 256 * Carry = ul - vl /\ dm[25] = uh /\ dm[23] = vh
        /\ ZERO \in sreg <=> ul = vl
    BY <1>2 DEF SubAt
  <2>. DEFINE l == dm[24]
              h == dm'[25]
              c == Carry
              k == Carry'
  <2>5. l \in Byte /\ h \in Byte /\ c \in {0, 1} /\ k \in {0, 1} /\ Bytes(l, h)
    BY <2>2, RegisterTypes, GoesTypes, ByteWords
  <2>6. /\ l - 256 * c = ul - vl /\ h - 256 * k = uh - vh - c /\ res' = l + 256 * h
        /\ SubtractFlags(uh, vh, c) /\ (ZERO \in sreg' <=> h = 0 /\ ul = vl)
    BY <2>2, <2>3, <2>4 DEF res, Word
  <2>7. u' = u /\ v' = v
    BY <2>3, SameArguments
  <2>. HIDE DEF l, h, c, k
  <2>8. l \in Int /\ h \in Int /\ 0 <= l /\ l < 256 /\ 0 <= h /\ h < 256
    BY <2>5 DEF Byte
  <2>9. /\ l - 256 * c = ul - vl /\ h - 256 * k = uh - vh - c
        /\ l \in Int /\ h \in Int /\ c \in {0, 1} /\ k \in {0, 1}
        /\ 0 <= l /\ l < 256 /\ 0 <= h /\ h < 256
        /\ ul \in Int /\ uh \in Int /\ vl \in Int /\ vh \in Int
        /\ 0 <= ul /\ ul < 256 /\ 0 <= vl /\ vl < 256 /\ 0 <= uh /\ uh < 256 /\ 0 <= vh /\ vh < 256
        /\ u = ul + 256 * uh /\ v = vl + 256 * vh
    BY <2>5, <2>6, <2>8, Arguments
  <2>10. res' = (u - v) % 65536
    BY <2>5, <2>6, <2>9, Modulo16, SMT DEF Bytes
  <2>11. uh < vh + c <=> u < v
    BY <2>9, SMT
  <2>12. Signed(uh) - Signed(vh) - c < 0 <=> Signed16(u) < Signed16(v)
    BY <2>9, SignedArguments, SMT
  <2>13. h = 0 /\ ul = vl <=> u = v
    BY <2>9, SMT
  <2>. DEFINE p == uh % 16
              q == vh % 16
  <2>14. uh % 16 < (vh % 16) + c <=> u % 4096 < v % 4096
    <3>1. u % 4096 = ul + 256 * p /\ v % 4096 = vl + 256 * q /\ p \in Int /\ q \in Int
      BY <2>9, Nibbles
    <3>. HIDE DEF p, q
    <3>2. p < q + c <=> ul + 256 * p < vl + 256 * q
      BY <2>9, <3>1, SMT
    <3>. QED
      BY <3>1, <3>2 DEF p, q
  <2>15. SubExact'
    BY <2>6, <2>7, <2>10, <2>11, <2>12, <2>13, <2>14, SMT DEF SubExact, SubtractFlags, Sets
  <2>. QED
    BY <2>3, <2>15 DEF SubAt
<1>3. CASE pc = 3
  <2>1. I = Ret
    BY <1>3, SubProgram DEF I, Running
  <2>2. Returns /\ UNCHANGED <<dm, sreg, pm, fn, arg>>
    BY <2>1, RetRuns
  <2>3. SubExact
    BY <1>3 DEF SubAt
  <2>4. SubExact'
    BY <2>2, <2>3 DEF SubExact, res, Word, Sets, u, v
  <2>. QED
    BY <2>2, <2>4
<1>. QED
  BY <1>1, <1>2, <1>3 DEF SubAt

\* subi: as sub, with the bytes of Limit.
LEMMA SubiHolds ==
  ASSUME Running, Level, fn = "subi", SubiAt, Next
  PROVE  \/ Running' /\ SubiAt' /\ UNCHANGED <<sp, fn, arg>>
         \/ Returns /\ SubiExact' /\ UNCHANGED <<pm, fn, arg>>
<1>. USE Registers
<1>0. 127 \in Byte /\ 1 \in Byte
  BY DEF Byte
<1>1. CASE pc = 1
  <2>1. I = RI("SUBI", 24, 127)
    BY <1>1, SubiProgram DEF I, Running
  <2>2. Goes({24}) /\ dm'[24] - 256 * Carry' = dm[24] - 127 /\ (ZERO \in sreg' <=> dm[24] = 127)
    BY <1>0, <2>1, SubRuns
  <2>3. pc' = 2 /\ dm'[25] = dm[25] /\ Running' /\ UNCHANGED <<sp, fn, arg>>
    BY <1>1, <2>2 DEF Goes
  <2>4. dm[24] = ul /\ dm[25] = uh
    BY <1>1 DEF SubiAt, Given
  <2>. QED
    BY <2>2, <2>3, <2>4, SameArguments DEF SubiAt
<1>2. CASE pc = 2
  <2>1. I = RI("SBCI", 25, 1)
    BY <1>2, SubiProgram DEF I, Running
  <2>2. /\ Goes({25}) /\ dm'[25] - 256 * Carry' = dm[25] - 1 - Carry
        /\ SubtractFlags(dm[25], 1, Carry) /\ (ZERO \in sreg' <=> dm'[25] = 0 /\ ZERO \in sreg)
    BY <1>0, <2>1, SbcRuns
  <2>3. pc' = 3 /\ dm'[24] = dm[24] /\ Running' /\ UNCHANGED <<sp, fn, arg>>
    BY <1>2, <2>2 DEF Goes
  <2>4. dm[24] - 256 * Carry = ul - 127 /\ dm[25] = uh /\ (ZERO \in sreg <=> ul = 127)
    BY <1>2 DEF SubiAt
  <2>. DEFINE l == dm[24]
              h == dm'[25]
              c == Carry
              k == Carry'
  <2>5. l \in Byte /\ h \in Byte /\ c \in {0, 1} /\ k \in {0, 1} /\ Bytes(l, h)
    BY <2>2, RegisterTypes, GoesTypes, ByteWords
  <2>6. /\ l - 256 * c = ul - 127 /\ h - 256 * k = uh - 1 - c /\ res' = l + 256 * h
        /\ SubtractFlags(uh, 1, c) /\ (ZERO \in sreg' <=> h = 0 /\ ul = 127)
    BY <2>2, <2>3, <2>4 DEF res, Word
  <2>7. u' = u
    BY <2>3, SameArguments
  <2>. HIDE DEF l, h, c, k
  <2>8. l \in Int /\ h \in Int /\ 0 <= l /\ l < 256 /\ 0 <= h /\ h < 256
    BY <2>5 DEF Byte
  <2>9. /\ l - 256 * c = ul - 127 /\ h - 256 * k = uh - 1 - c
        /\ l \in Int /\ h \in Int /\ c \in {0, 1} /\ k \in {0, 1}
        /\ 0 <= l /\ l < 256 /\ 0 <= h /\ h < 256
        /\ ul \in Int /\ uh \in Int /\ 0 <= ul /\ ul < 256 /\ 0 <= uh /\ uh < 256 /\ u = ul + 256 * uh
    BY <2>5, <2>6, <2>8, Arguments
  <2>10. res' = (u - Limit) % 65536
    <3>. DEFINE n == u - Limit
                r == l + 256 * h
    <3>1. n \in Int /\ r \in Int /\ 0 <= r /\ r < 65536 /\ (n = r \/ n = r - 65536)
      BY <2>9, SMT DEF Limit
    <3>. HIDE DEF n, r
    <3>2. r = n % 65536
      BY <3>1, Modulo16
    <3>. QED
      BY <2>6, <3>2 DEF n, r
  <2>11. (uh < 1 + c <=> u < Limit) /\ (h = 0 /\ ul = 127 <=> u = Limit)
    BY <2>9, SMT DEF Limit
  <2>12. SubiExact'
    BY <2>6, <2>7, <2>10, <2>11, SMT DEF SubiExact, SubtractFlags, Sets
  <2>. QED
    BY <2>3, <2>12 DEF SubiAt
<1>3. CASE pc = 3
  <2>1. I = Ret
    BY <1>3, SubiProgram DEF I, Running
  <2>2. Returns /\ UNCHANGED <<dm, sreg, pm, fn, arg>>
    BY <2>1, RetRuns
  <2>3. SubiExact
    BY <1>3 DEF SubiAt
  <2>4. SubiExact'
    BY <2>2, <2>3 DEF SubiExact, res, Word, Sets, u
  <2>. QED
    BY <2>2, <2>4
<1>. QED
  BY <1>1, <1>2, <1>3 DEF SubiAt

\* neg: the complement of the high byte, then zero minus the low byte, and 255 plus the
\* borrow from the high byte.
LEMMA NegHolds ==
  ASSUME Running, Level, fn = "neg", NegAt, Next
  PROVE  \/ Running' /\ NegAt' /\ UNCHANGED <<sp, fn, arg>>
         \/ Returns /\ NegExact' /\ UNCHANGED <<pm, fn, arg>>
<1>. USE Registers
<1>0. 255 \in Byte
  BY DEF Byte
<1>1. CASE pc = 1
  <2>1. I = R("COM", 25)
    BY <1>1, NegProgram DEF I, Running
  <2>2. Goes({25}) /\ dm'[25] = 255 - dm[25]
    BY <2>1, ComRuns
  <2>3. pc' = 2 /\ dm'[24] = dm[24] /\ Running' /\ UNCHANGED <<sp, fn, arg>>
    BY <1>1, <2>2 DEF Goes
  <2>4. dm[24] = ul /\ dm[25] = uh
    BY <1>1 DEF NegAt, Given
  <2>. QED
    BY <2>2, <2>3, <2>4, SameArguments DEF NegAt
<1>2. CASE pc = 2
  <2>1. I = R("NEG", 24)
    BY <1>2, NegProgram DEF I, Running
  <2>2. Goes({24}) /\ dm'[24] - 256 * Carry' = -dm[24] /\ (ZERO \in sreg' <=> dm[24] = 0)
    BY <2>1, NegRuns
  <2>3. pc' = 3 /\ dm'[25] = dm[25] /\ Running' /\ UNCHANGED <<sp, fn, arg>>
    BY <1>2, <2>2 DEF Goes
  <2>4. dm[24] = ul /\ dm[25] = 255 - uh
    BY <1>2 DEF NegAt
  <2>. QED
    BY <2>2, <2>3, <2>4, SameArguments DEF NegAt
<1>3. CASE pc = 3
  <2>1. I = RI("SBCI", 25, 255)
    BY <1>3, NegProgram DEF I, Running
  <2>2. /\ Goes({25}) /\ dm'[25] - 256 * Carry' = dm[25] - 255 - Carry
        /\ ZERO \in sreg' <=> dm'[25] = 0 /\ ZERO \in sreg
    BY <1>0, <2>1, SbcRuns
  <2>3. pc' = 4 /\ dm'[24] = dm[24] /\ Running' /\ UNCHANGED <<sp, fn, arg>>
    BY <1>3, <2>2 DEF Goes
  <2>4. dm[24] - 256 * Carry = -ul /\ dm[25] = 255 - uh /\ (ZERO \in sreg <=> ul = 0)
    BY <1>3 DEF NegAt
  <2>. DEFINE l == dm[24]
              h == dm'[25]
              c == Carry
              k == Carry'
  <2>5. l \in Byte /\ h \in Byte /\ c \in {0, 1} /\ k \in {0, 1} /\ Bytes(l, h)
    BY <2>2, RegisterTypes, GoesTypes, ByteWords
  <2>6. /\ l - 256 * c = -ul /\ h - 256 * k = 255 - uh - 255 - c /\ res' = l + 256 * h
        /\ ZERO \in sreg' <=> h = 0 /\ ul = 0
    BY <2>2, <2>3, <2>4 DEF res, Word
  <2>7. u' = u
    BY <2>3, SameArguments
  <2>. HIDE DEF l, h, c, k
  <2>8. l \in Int /\ h \in Int /\ 0 <= l /\ l < 256 /\ 0 <= h /\ h < 256
    BY <2>5 DEF Byte
  <2>9. /\ l - 256 * c = -ul /\ h - 256 * k = 255 - uh - 255 - c
        /\ l \in Int /\ h \in Int /\ c \in {0, 1} /\ k \in {0, 1}
        /\ 0 <= l /\ l < 256 /\ 0 <= h /\ h < 256
        /\ ul \in Int /\ uh \in Int /\ 0 <= ul /\ ul < 256 /\ 0 <= uh /\ uh < 256 /\ u = ul + 256 * uh
    BY <2>5, <2>6, <2>8, Arguments
  <2>10. res' = (-u) % 65536
    <3>. DEFINE n == -u
                r == l + 256 * h
    <3>1. n \in Int /\ r \in Int /\ 0 <= r /\ r < 65536 /\ (n = r \/ n = r - 65536)
      BY <2>9, SMT
    <3>. HIDE DEF n, r
    <3>2. r = n % 65536
      BY <3>1, Modulo16
    <3>. QED
      BY <2>6, <3>2 DEF n, r
  <2>11. h = 0 /\ ul = 0 <=> u = 0
    BY <2>9, SMT
  <2>12. NegExact'
    BY <2>6, <2>7, <2>10, <2>11, SMT DEF NegExact, Sets
  <2>. QED
    BY <2>3, <2>12 DEF NegAt
<1>4. CASE pc = 4
  <2>1. I = Ret
    BY <1>4, NegProgram DEF I, Running
  <2>2. Returns /\ UNCHANGED <<dm, sreg, pm, fn, arg>>
    BY <2>1, RetRuns
  <2>3. NegExact
    BY <1>4 DEF NegAt
  <2>4. NegExact'
    BY <2>2, <2>3 DEF NegExact, res, Word, Sets, u
  <2>. QED
    BY <2>2, <2>4
<1>. QED
  BY <1>1, <1>2, <1>3, <1>4 DEF NegAt

\* adiw and sbiw: a single instruction.
LEMMA AdiwHolds ==
  ASSUME Running, Level, fn = "adiw", AdiwAt, Next
  PROVE  \/ Running' /\ AdiwAt' /\ UNCHANGED <<sp, fn, arg>>
         \/ Returns /\ AdiwExact' /\ UNCHANGED <<pm, fn, arg>>
<1>. USE Registers
<1>0. 63 \in 0..63
  OBVIOUS
<1>1. CASE pc = 1
  <2>1. I = RI("ADIW", 24, 63)
    BY <1>1, AdiwProgram DEF I, Running
  <2>2. /\ Goes({24, 24 + 1}) /\ Word(24)' + 65536 * Carry' = Word(24) + 63
        /\ SIGN \in sreg' <=> Signed16(Word(24)) + 63 < 0
    BY <1>0, <2>1, AdiwRuns
  <2>3. pc' = 2 /\ Running' /\ UNCHANGED <<sp, fn, arg>>
    BY <1>1, <2>2 DEF Goes
  <2>4. Word(24) = u
    BY <1>1, Arguments DEF AdiwAt, Given, Word
  <2>5. Word(24)' \in Int /\ 0 <= Word(24)' /\ Word(24)' < 65536 /\ Carry' \in {0, 1}
    <3>1. dm'[24] \in Byte /\ dm'[25] \in Byte /\ Carry' \in {0, 1}
      BY <2>2, GoesTypes
    <3>. QED
      BY <3>1, ByteWords DEF Bytes, Word
  <2>6. u \in Int /\ 0 <= u /\ u < 65536
    BY Arguments, ByteWords DEF Bytes
  <2>7. u' = u
    BY <2>3, SameArguments
  <2>. DEFINE r == Word(24)'
              k == Carry'
              n == u + 63
  <2>8. n = u + 63 /\ n \in Int /\ r + 65536 * k = n /\ r \in Int /\ 0 <= r /\ r < 65536
          /\ k \in {0, 1}
    BY <2>2, <2>4, <2>5, <2>6
  <2>9. res' = r /\ (SIGN \in sreg' <=> Signed16(u) + 63 < 0) /\ (CARRY \in sreg' <=> k = 1)
    BY <2>2, <2>4 DEF res, Carry
  <2>. HIDE DEF r, k, n
  <2>10. r = n % 65536
    BY <2>8, Modulo16
  <2>11. k = 1 <=> u + 63 > 65535
    BY <2>6, <2>8, SMT
  <2>12. AdiwExact'
    BY <2>7, <2>8, <2>9, <2>10, <2>11, SMT DEF AdiwExact, Sets
  <2>. QED
    BY <2>3, <2>12 DEF AdiwAt
<1>2. CASE pc = 2
  <2>1. I = Ret
    BY <1>2, AdiwProgram DEF I, Running
  <2>2. Returns /\ UNCHANGED <<dm, sreg, pm, fn, arg>>
    BY <2>1, RetRuns
  <2>3. AdiwExact
    BY <1>2 DEF AdiwAt
  <2>4. AdiwExact'
    BY <2>2, <2>3 DEF AdiwExact, res, Word, Sets, u
  <2>. QED
    BY <2>2, <2>4
<1>. QED
  BY <1>1, <1>2 DEF AdiwAt

\* sbiw: the difference of a word and a constant.
LEMMA SbiwHolds ==
  ASSUME Running, Level, fn = "sbiw", SbiwAt, Next
  PROVE  \/ Running' /\ SbiwAt' /\ UNCHANGED <<sp, fn, arg>>
         \/ Returns /\ SbiwExact' /\ UNCHANGED <<pm, fn, arg>>
<1>. USE Registers
<1>0. 63 \in 0..63
  OBVIOUS
<1>1. CASE pc = 1
  <2>1. I = RI("SBIW", 24, 63)
    BY <1>1, SbiwProgram DEF I, Running
  <2>2. /\ Goes({24, 24 + 1}) /\ Word(24)' - 65536 * Carry' = Word(24) - 63
        /\ SIGN \in sreg' <=> Signed16(Word(24)) < 63
    BY <1>0, <2>1, SbiwRuns
  <2>3. pc' = 2 /\ Running' /\ UNCHANGED <<sp, fn, arg>>
    BY <1>1, <2>2 DEF Goes
  <2>4. Word(24) = u
    BY <1>1, Arguments DEF SbiwAt, Given, Word
  <2>5. Word(24)' \in Int /\ 0 <= Word(24)' /\ Word(24)' < 65536 /\ Carry' \in {0, 1}
    <3>1. dm'[24] \in Byte /\ dm'[25] \in Byte /\ Carry' \in {0, 1}
      BY <2>2, GoesTypes
    <3>. QED
      BY <3>1, ByteWords DEF Bytes, Word
  <2>6. u \in Int /\ 0 <= u /\ u < 65536
    BY Arguments, ByteWords DEF Bytes
  <2>7. u' = u
    BY <2>3, SameArguments
  <2>. DEFINE r == Word(24)'
              k == Carry'
              n == u - 63
  <2>8. n = u - 63 /\ n \in Int /\ r - 65536 * k = n /\ r \in Int /\ 0 <= r /\ r < 65536
          /\ k \in {0, 1}
    BY <2>2, <2>4, <2>5, <2>6
  <2>9. res' = r /\ (SIGN \in sreg' <=> Signed16(u) < 63) /\ (CARRY \in sreg' <=> k = 1)
    BY <2>2, <2>4 DEF res, Carry
  <2>. HIDE DEF r, k, n
  <2>10. r = n % 65536
    BY <2>8, Modulo16
  <2>11. k = 1 <=> u < 63
    BY <2>6, <2>8, SMT
  <2>12. SbiwExact'
    BY <2>7, <2>8, <2>9, <2>10, <2>11, SMT DEF SbiwExact, Sets
  <2>. QED
    BY <2>3, <2>12 DEF SbiwAt
<1>2. CASE pc = 2
  <2>1. I = Ret
    BY <1>2, SbiwProgram DEF I, Running
  <2>2. Returns /\ UNCHANGED <<dm, sreg, pm, fn, arg>>
    BY <2>1, RetRuns
  <2>3. SbiwExact
    BY <1>2 DEF SbiwAt
  <2>4. SbiwExact'
    BY <2>2, <2>3 DEF SbiwExact, res, Word, Sets, u
  <2>. QED
    BY <2>2, <2>4
<1>. QED
  BY <1>1, <1>2 DEF SbiwAt

\* lsl: as add, with the word itself.
LEMMA LslHolds ==
  ASSUME Running, Level, fn = "lsl", LslAt, Next
  PROVE  \/ Running' /\ LslAt' /\ UNCHANGED <<sp, fn, arg>>
         \/ Returns /\ LslExact' /\ UNCHANGED <<pm, fn, arg>>
<1>. USE Registers
<1>1. CASE pc = 1
  <2>1. I = RR("ADD", 24, 24)
    BY <1>1, LslProgram DEF I, Running
  <2>2. Goes({24}) /\ dm'[24] + 256 * Carry' = dm[24] + dm[24]
    BY <2>1, AddRuns
  <2>3. pc' = 2 /\ dm'[25] = dm[25] /\ Running' /\ UNCHANGED <<sp, fn, arg>>
    BY <1>1, <2>2 DEF Goes
  <2>4. dm[24] = ul /\ dm[25] = uh
    BY <1>1 DEF LslAt, Given
  <2>5. dm'[24] + 256 * Carry' = 2 * ul
    BY <2>2, <2>4, Arguments
  <2>. QED
    BY <2>3, <2>4, <2>5, SameArguments DEF LslAt
<1>2. CASE pc = 2
  <2>1. I = RR("ADC", 25, 25)
    BY <1>2, LslProgram DEF I, Running
  <2>2. Goes({25}) /\ dm'[25] + 256 * Carry' = dm[25] + dm[25] + Carry
    BY <2>1, AdcRuns
  <2>3. pc' = 3 /\ dm'[24] = dm[24] /\ Running' /\ UNCHANGED <<sp, fn, arg>>
    BY <1>2, <2>2 DEF Goes
  <2>4. dm[24] + 256 * Carry = 2 * ul /\ dm[25] = uh
    BY <1>2 DEF LslAt
  <2>. DEFINE l == dm[24]
              h == dm'[25]
              c == Carry
              k == Carry'
              n == 2 * u
              r == l + 256 * h
  <2>5. /\ l \in Byte /\ h \in Byte /\ c \in {0, 1} /\ k \in {0, 1} /\ Bytes(l, h)
        /\ l + 256 * c = 2 * ul /\ h + 256 * k = uh + uh + c
    BY <2>2, <2>4, RegisterTypes, GoesTypes, ByteWords
  <2>6. /\ res' = r /\ (CARRY \in sreg' <=> k = 1) /\ u' = u
    BY <2>3, SameArguments DEF res, Word, Carry
  <2>7. n = 2 * u /\ r = l + 256 * h
    OBVIOUS
  <2>. HIDE DEF l, h, c, k, n, r
  <2>8. r \in Int /\ 0 <= r /\ r < 65536
    BY <2>5, <2>7 DEF Bytes
  <2>9. /\ l \in Int /\ h \in Int /\ ul \in Int /\ uh \in Int /\ u = ul + 256 * uh
    BY <2>5, Arguments DEF Byte
  <2>10. n \in Int /\ r + 65536 * k = n
    BY <2>5, <2>7, <2>9, SMT
  <2>11. r = n % 65536
    BY <2>5, <2>8, <2>10, Modulo16
  <2>12. k = 1 <=> u > 32767
    BY <2>5, <2>7, <2>8, <2>9, <2>10, SMT
  <2>13. LslExact'
    BY <2>6, <2>7, <2>11, <2>12, SMT DEF LslExact, Sets
  <2>. QED
    BY <2>3, <2>13 DEF LslAt
<1>3. CASE pc = 3
  <2>1. I = Ret
    BY <1>3, LslProgram DEF I, Running
  <2>2. Returns /\ UNCHANGED <<dm, sreg, pm, fn, arg>>
    BY <2>1, RetRuns
  <2>3. LslExact
    BY <1>3 DEF LslAt
  <2>4. LslExact'
    BY <2>2, <2>3 DEF LslExact, res, Word, Sets, u
  <2>. QED
    BY <2>2, <2>4
<1>. QED
  BY <1>1, <1>2, <1>3 DEF LslAt

\* A number and the bit that is shifted out of it.
LEMMA Halves ==
  ASSUME NEW n \in Int, NEW r \in Int, NEW k \in {0, 1}, 2 * r + k = n
  PROVE  r = n \div 2 /\ (n % 2 = 1 <=> k = 1)
BY SMT

\* lsr and asr: CARRY takes the bit between the bytes.
LEMMA LsrHolds ==
  ASSUME Running, Level, fn = "lsr", LsrAt, Next
  PROVE  \/ Running' /\ LsrAt' /\ UNCHANGED <<sp, fn, arg>>
         \/ Returns /\ LsrExact' /\ UNCHANGED <<pm, fn, arg>>
<1>. USE Registers
<1>1. CASE pc = 1
  <2>1. I = R("LSR", 25)
    BY <1>1, LsrProgram DEF I, Running
  <2>2. Goes({25}) /\ 2 * dm'[25] + Carry' = dm[25]
    <3>1. 0 \in {0, 1} /\ dm[25] + 256 * 0 = dm[25]
      BY RegisterTypes
    <3>. QED
      BY <2>1, <3>1, ShiftRuns
  <2>3. pc' = 2 /\ dm'[24] = dm[24] /\ Running' /\ UNCHANGED <<sp, fn, arg>>
    BY <1>1, <2>2 DEF Goes
  <2>4. dm[24] = ul /\ dm[25] = uh
    BY <1>1 DEF LsrAt, Given
  <2>. QED
    BY <2>2, <2>3, <2>4, SameArguments DEF LsrAt
<1>2. CASE pc = 2
  <2>1. I = R("ROR", 24)
    BY <1>2, LsrProgram DEF I, Running
  <2>2. Goes({24}) /\ 2 * dm'[24] + Carry' = dm[24] + 256 * Carry
    BY <2>1, RegisterTypes, ShiftRuns
  <2>3. pc' = 3 /\ dm'[25] = dm[25] /\ Running' /\ UNCHANGED <<sp, fn, arg>>
    BY <1>2, <2>2 DEF Goes
  <2>4. dm[24] = ul /\ 2 * dm[25] + Carry = uh
    BY <1>2 DEF LsrAt
  <2>. DEFINE l == dm'[24]
              h == dm[25]
              c == Carry
              k == Carry'
              r == l + 256 * h
  <2>5. /\ l \in Int /\ 0 <= l /\ l < 256 /\ h \in Int /\ 0 <= h /\ h < 256
        /\ c \in {0, 1} /\ k \in {0, 1}
        /\ 2 * l + k = ul + 256 * c /\ 2 * h + c = uh
    BY <2>2, <2>4, RegisterTypes, GoesTypes
  <2>6. /\ res' = r /\ (CARRY \in sreg' <=> k = 1) /\ u' = u
    BY <2>3, SameArguments DEF res, Word, Carry
  <2>7. r = l + 256 * h
    OBVIOUS
  <2>. HIDE DEF l, h, c, k, r
  <2>8. r \in Int /\ u \in Int /\ 2 * r + k = u
    BY <2>5, <2>7, Arguments, SMT
  <2>9. r = u \div 2 /\ (u % 2 = 1 <=> k = 1)
    BY <2>5, <2>8, Halves
  <2>10. LsrExact'
    BY <2>6, <2>9, SMT DEF LsrExact, Sets
  <2>. QED
    BY <2>3, <2>10 DEF LsrAt
<1>3. CASE pc = 3
  <2>1. I = Ret
    BY <1>3, LsrProgram DEF I, Running
  <2>2. Returns /\ UNCHANGED <<dm, sreg, pm, fn, arg>>
    BY <2>1, RetRuns
  <2>3. LsrExact
    BY <1>3 DEF LsrAt
  <2>4. LsrExact'
    BY <2>2, <2>3 DEF LsrExact, res, Word, Sets, u
  <2>. QED
    BY <2>2, <2>4
<1>. QED
  BY <1>1, <1>2, <1>3 DEF LsrAt

\* asr: the sign stays, and the lowest bit goes to the carry.
LEMMA AsrHolds ==
  ASSUME Running, Level, fn = "asr", AsrAt, Next
  PROVE  \/ Running' /\ AsrAt' /\ UNCHANGED <<sp, fn, arg>>
         \/ Returns /\ AsrExact' /\ UNCHANGED <<pm, fn, arg>>
<1>. USE Registers
<1>1. CASE pc = 1
  <2>1. I = R("ASR", 25)
    BY <1>1, AsrProgram DEF I, Running
  <2>2. Goes({25}) /\ 2 * dm'[25] + Carry' = dm[25] + (IF dm[25] > 127 THEN 256 ELSE 0)
    <3>. DEFINE t == IF dm[25] > 127 THEN 1 ELSE 0
    <3>1. t \in {0, 1} /\ (t = 1 <=> dm[25] > 127)
          /\ 256 * t = IF dm[25] > 127 THEN 256 ELSE 0
      OBVIOUS
    <3>. HIDE DEF t
    <3>2. Goes({25}) /\ 2 * dm'[25] + Carry' = dm[25] + 256 * t
      BY <2>1, <3>1, ShiftRuns
    <3>. QED
      BY <3>1, <3>2
  <2>3. pc' = 2 /\ dm'[24] = dm[24] /\ Running' /\ UNCHANGED <<sp, fn, arg>>
    BY <1>1, <2>2 DEF Goes
  <2>4. dm[24] = ul /\ dm[25] = uh
    BY <1>1 DEF AsrAt, Given
  <2>. QED
    BY <2>2, <2>3, <2>4, SameArguments DEF AsrAt
<1>2. CASE pc = 2
  <2>1. I = R("ROR", 24)
    BY <1>2, AsrProgram DEF I, Running
  <2>2. Goes({24}) /\ 2 * dm'[24] + Carry' = dm[24] + 256 * Carry
    BY <2>1, RegisterTypes, ShiftRuns
  <2>3. pc' = 3 /\ dm'[25] = dm[25] /\ Running' /\ UNCHANGED <<sp, fn, arg>>
    BY <1>2, <2>2 DEF Goes
  <2>4. dm[24] = ul /\ 2 * dm[25] + Carry = uh + (IF uh > 127 THEN 256 ELSE 0)
    BY <1>2 DEF AsrAt
  <2>. DEFINE l == dm'[24]
              h == dm[25]
              c == Carry
              k == Carry'
              r == l + 256 * h
  <2>5. /\ l \in Int /\ 0 <= l /\ l < 256 /\ h \in Int /\ 0 <= h /\ h < 256
        /\ c \in {0, 1} /\ k \in {0, 1}
        /\ 2 * l + k = ul + 256 * c /\ 2 * h + c = uh + (IF uh > 127 THEN 256 ELSE 0)
    BY <2>2, <2>4, RegisterTypes, GoesTypes
  <2>6. /\ res' = r /\ (CARRY \in sreg' <=> k = 1) /\ u' = u
    BY <2>3, SameArguments DEF res, Word, Carry
  <2>7. r = l + 256 * h
    OBVIOUS
  <2>. HIDE DEF l, h, c, k, r
  <2>. DEFINE s == Signed16(u)
              q == Signed16(r)
  <2>8. r \in Int /\ u \in Int /\ s \in Int /\ q \in Int /\ 2 * q + k = s
    BY <2>5, <2>7, Arguments, SMT DEF Signed16
  <2>9. u % 2 = 1 <=> s % 2 = 1
    BY <2>5, <2>8, SMT DEF Signed16
  <2>. HIDE DEF s, q
  <2>10. q = s \div 2 /\ (u % 2 = 1 <=> k = 1)
    <3>1. q = s \div 2 /\ (s % 2 = 1 <=> k = 1)
      BY <2>5, <2>8, Halves
    <3>. QED
      BY <2>9, <3>1
  <2>11. Signed16(r) = Signed16(u) \div 2
    BY <2>10 DEF s, q
  <2>12. AsrExact'
    BY <2>6, <2>10, <2>11, SMT DEF AsrExact, Sets
  <2>. QED
    BY <2>3, <2>12 DEF AsrAt
<1>3. CASE pc = 3
  <2>1. I = Ret
    BY <1>3, AsrProgram DEF I, Running
  <2>2. Returns /\ UNCHANGED <<dm, sreg, pm, fn, arg>>
    BY <2>1, RetRuns
  <2>3. AsrExact
    BY <1>3 DEF AsrAt
  <2>4. AsrExact'
    BY <2>2, <2>3 DEF AsrExact, res, Word, Sets, u, Signed16
  <2>. QED
    BY <2>2, <2>4
<1>. QED
  BY <1>1, <1>2, <1>3 DEF AsrAt

\* A word turned by one bit is a word.
LEMMA RolType ==
  ASSUME NEW w \in Int, 0 <= w, w <= 65535
  PROVE  Rol(w) \in Int /\ 0 <= Rol(w) /\ Rol(w) <= 65535
BY SMT DEF Rol

\* Sixteen bits, and what the rotation by three is.
IsWord(w)  == w \in Int /\ 0 <= w /\ w <= 65535
Rotated(w) == (8 * w + (w \div 8192)) % 65536
\* Three turns are the rotation by three.
LEMMA ThreeTurns ==
  ASSUME NEW w, IsWord(w)
  PROVE  Rol(Rol(Rol(w))) = Rotated(w)
<1>. DEFINE x == Rol(w)
            y == Rol(x)
            z == Rol(y)
            a == IF w > 32767 THEN 1 ELSE 0
            b == IF x > 32767 THEN 1 ELSE 0
            c == IF y > 32767 THEN 1 ELSE 0
            q == 4 * a + 2 * b + c
<1>0. w \in Int /\ 0 <= w /\ w <= 65535
  BY DEF IsWord
<1>1. x \in Int /\ 0 <= x /\ x <= 65535
  BY <1>0, RolType
<1>2. y \in Int /\ 0 <= y /\ y <= 65535
  <2>. HIDE DEF x
  <2>. QED
    BY <1>1, RolType
<1>3. z \in Int /\ 0 <= z /\ z <= 65535
  <2>. HIDE DEF y
  <2>. QED
    BY <1>2, RolType
<1>4. x = 2 * w - 65535 * a
  BY <1>0, SMT DEF Rol
<1>5. y = 2 * x - 65535 * b
  <2>. HIDE DEF x
  <2>. QED
    BY <1>1, SMT DEF Rol
<1>6. z = 2 * y - 65535 * c
  <2>. HIDE DEF y
  <2>. QED
    BY <1>2, SMT DEF Rol
<1>7. a \in {0, 1} /\ b \in {0, 1} /\ c \in {0, 1} /\ q = 4 * a + 2 * b + c
  OBVIOUS
<1>. HIDE DEF a, b, c, x, y, z, q
<1>8. z = 8 * w - 65535 * q /\ q \in Int /\ 0 <= q /\ q <= 7
  BY <1>0, <1>1, <1>2, <1>3, <1>4, <1>5, <1>6, <1>7, SMT
<1>9. 0 <= w - 8192 * q /\ w - 8192 * q < 8192
  BY <1>0, <1>3, <1>8, SMT
<1>10. w \div 8192 = q
  BY <1>0, <1>8, <1>9, SMT
<1>11. (8 * w + q) % 65536 = z
  <2>1. 8 * w + q = z + 65536 * q /\ 0 <= z /\ z < 65536
    BY <1>0, <1>3, <1>8, SMT
  <2>2. \A n \in Int : (z + 65536 * n) % 65536 = z
    BY <1>3, SMT
  <2>. QED
    BY <1>8, <2>1, <2>2
<1>. QED
  BY <1>10, <1>11 DEF x, y, z, Rotated

\* What was turned so far, from one instruction to the next.
LEMMA SameTurned ==
  ASSUME UNCHANGED arg, dm'[18] = dm[18]
  PROVE  Turned' = Turned
BY DEF Turned, Rol, u

\* What is turned is a word.
LEMMA TurnedType ==
  ASSUME Running, dm[18] \in 253..255
  PROVE  Turned \in Int /\ 0 <= Turned /\ Turned <= 65535
<1>1. u \in Int /\ 0 <= u /\ u <= 65535
  BY Arguments, SMT
<1>. DEFINE x == Rol(u)
<1>2. x \in Int /\ 0 <= x /\ x <= 65535
  BY <1>1, RolType
<1>3. Rol(x) \in Int /\ 0 <= Rol(x) /\ Rol(x) <= 65535
  <2>. HIDE DEF x
  <2>. QED
    BY <1>2, RolType
<1>4. dm[18] = 253 \/ dm[18] = 254 \/ dm[18] = 255
  OBVIOUS
<1>5. Turned = u \/ Turned = x \/ Turned = Rol(x)
  <2>1. CASE dm[18] = 253
    BY <2>1 DEF Turned
  <2>2. CASE dm[18] = 254
    BY <2>2 DEF Turned
  <2>3. CASE dm[18] = 255
    BY <2>3 DEF Turned
  <2>. QED
    BY <1>4, <2>1, <2>2, <2>3
<1>. HIDE DEF x
<1>. QED
  BY <1>1, <1>2, <1>3, <1>5

\* rotate: dm[18] counts the turns.
LEMMA RotateHolds ==
  ASSUME Running, Level, fn = "rotate", RotateAt, Next
  PROVE  \/ Running' /\ RotateAt' /\ UNCHANGED <<sp, fn, arg>>
         \/ Returns /\ RotateExact' /\ UNCHANGED <<pm, fn, arg>>
<1>. USE Registers
<1>1. CASE pc = 1
  <2>1. I = RI("LDI", 18, 253) /\ 253 \in Byte
    BY <1>1, RotateProgram DEF I, Running, Byte
  <2>2. Goes({18}) /\ dm'[18] = 253
    BY <2>1, MoveRuns
  <2>3. /\ pc' = 2 /\ Running' /\ UNCHANGED <<sp, fn, arg>>
        /\ dm'[24] = dm[24] /\ dm'[25] = dm[25] /\ dm'[1] = dm[1]
    BY <1>1, <2>2 DEF Goes
  <2>4. dm[24] = ul /\ dm[25] = uh /\ dm[1] = 0
    BY <1>1 DEF RotateAt, Given
  <2>5. Turned' = u'
    BY <2>2 DEF Turned
  <2>6. res' = Turned'
    BY <2>3, <2>4, <2>5, Arguments, SameArguments DEF res, Word
  <2>. QED
    BY <2>2, <2>3, <2>4, <2>6 DEF RotateAt, Turning
<1>2. CASE pc = 2
  <2>1. I = RR("ADD", 24, 24)
    BY <1>2, RotateProgram DEF I, Running
  <2>2. Goes({24}) /\ dm'[24] + 256 * Carry' = dm[24] + dm[24]
    BY <2>1, AddRuns
  <2>3. /\ pc' = 3 /\ Running' /\ UNCHANGED <<sp, fn, arg>>
        /\ dm'[25] = dm[25] /\ dm'[18] = dm[18] /\ dm'[1] = dm[1]
    BY <1>2, <2>2 DEF Goes
  <2>4. Turning /\ dm[24] + 256 * dm[25] = Turned
    BY <1>2 DEF RotateAt, res, Word
  <2>5. Turned' = Turned
    BY <2>3, SameTurned
  <2>6. dm'[24] + 256 * Carry' + 512 * dm[25] = 2 * Turned /\ dm'[24] % 2 = 0
    <3>. DEFINE l == dm[24]
                h == dm[25]
                m == dm'[24]
                k == Carry'
                t == Turned
    <3>1. l \in Int /\ h \in Int /\ m \in Int /\ k \in {0, 1} /\ m + 256 * k = l + l
            /\ l + 256 * h = t
      BY <2>2, <2>4, RegisterTypes, GoesTypes
    <3>. HIDE DEF l, h, m, k, t
    <3>2. m = 2 * (l - 128 * k) /\ l - 128 * k \in Int
      BY <3>1, SMT
    <3>3. m + 256 * k + 512 * h = 2 * t /\ m % 2 = 0
      BY <3>1, <3>2, SMT
    <3>. QED
      BY <3>3 DEF l, h, m, k, t
  <2>. QED
    BY <2>3, <2>4, <2>5, <2>6 DEF RotateAt, Turning
<1>3. CASE pc = 3
  <2>1. I = RR("ADC", 25, 25)
    BY <1>3, RotateProgram DEF I, Running
  <2>2. Goes({25}) /\ dm'[25] + 256 * Carry' = dm[25] + dm[25] + Carry
    BY <2>1, AdcRuns
  <2>3. /\ pc' = 4 /\ Running' /\ UNCHANGED <<sp, fn, arg>>
        /\ dm'[24] = dm[24] /\ dm'[18] = dm[18] /\ dm'[1] = dm[1]
    BY <1>3, <2>2 DEF Goes
  <2>4. Turning /\ dm[24] + 256 * Carry + 512 * dm[25] = 2 * Turned /\ dm[24] % 2 = 0
    BY <1>3 DEF RotateAt
  <2>5. Turned' = Turned
    BY <2>3, SameTurned
  <2>6. (dm[24] + 256 * dm'[25]) + 65536 * Carry' = 2 * Turned
    <3>. DEFINE l == dm[24]
                h == dm[25]
                m == dm'[25]
                c == Carry
                k == Carry'
                t == Turned
    <3>1. /\ l \in Int /\ h \in Int /\ m \in Int /\ k \in {0, 1} /\ c \in {0, 1}
          /\ m + 256 * k = h + h + c /\ l + 256 * c + 512 * h = 2 * t
      BY <2>2, <2>4, RegisterTypes, GoesTypes
    <3>. HIDE DEF l, h, m, c, k, t
    <3>3. (l + 256 * m) + 65536 * k = 2 * t
      BY <3>1, SMT
    <3>. QED
      BY <3>3 DEF l, h, m, c, k, t
  <2>. QED
    BY <2>3, <2>4, <2>5, <2>6 DEF RotateAt, Turning, res, Word
<1>4. CASE pc = 4
  <2>1. I = RR("ADC", 24, 1)
    BY <1>4, RotateProgram DEF I, Running
  <2>2. Goes({24}) /\ dm'[24] + 256 * Carry' = dm[24] + dm[1] + Carry
    BY <2>1, AdcRuns
  <2>3. /\ pc' = 5 /\ Running' /\ UNCHANGED <<sp, fn, arg>>
        /\ dm'[25] = dm[25] /\ dm'[18] = dm[18] /\ dm'[1] = dm[1]
    BY <1>4, <2>2 DEF Goes
  <2>4. /\ dm[1] = 0 /\ dm[18] \in 253..255
        /\ (dm[24] + 256 * dm[25]) + 65536 * Carry = 2 * Turned
    BY <1>4 DEF RotateAt, Turning, res, Word
  <2>5. Turned' = Turned
    BY <2>3, SameTurned
  <2>6. dm'[24] + 256 * dm[25] = Rol(Turned)
    <3>. DEFINE l == dm[24]
                h == dm[25]
                m == dm'[24]
                c == Carry
                k == Carry'
                t == Turned
    <3>1. /\ l \in Int /\ 0 <= l /\ l < 256 /\ h \in Int /\ 0 <= h /\ h < 256
          /\ m \in Int /\ 0 <= m /\ m < 256 /\ k \in {0, 1} /\ c \in {0, 1}
          /\ m + 256 * k = l + 0 + c /\ (l + 256 * h) + 65536 * c = 2 * t
      BY <2>2, <2>4, RegisterTypes, GoesTypes
    <3>2. t \in Int /\ l % 2 = 0
      BY <1>4, <2>4, TurnedType DEF RotateAt
    <3>. HIDE DEF l, h, m, c, k, t
    <3>3. l # 255
      BY <3>2
    <3>4. m = l + c
      BY <3>1, <3>3, SMT
    <3>5. c = 1 <=> t > 32767
      BY <3>1, <3>2, SMT
    <3>6. m + 256 * h = Rol(t)
      BY <3>1, <3>2, <3>4, <3>5, SMT DEF Rol
    <3>. QED
      BY <3>6 DEF h, m, t
  <2>. QED
    BY <2>3, <2>4, <2>5, <2>6 DEF RotateAt, Turning, res, Word
<1>5. CASE pc = 5
  <2>1. I = R("INC", 18)
    BY <1>5, RotateProgram DEF I, Running
  <2>2. /\ Goes({18}) /\ dm'[18] = (IF dm[18] = 255 THEN 0 ELSE dm[18] + 1)
        /\ ZERO \in sreg' <=> dm'[18] = 0
    BY <2>1, IncRuns
  <2>3. /\ pc' = 6 /\ Running' /\ UNCHANGED <<sp, fn, arg>>
        /\ dm'[24] = dm[24] /\ dm'[25] = dm[25] /\ dm'[1] = dm[1]
    BY <1>5, <2>2 DEF Goes
  <2>4. Turning /\ res = Rol(Turned)
    BY <1>5 DEF RotateAt
  <2>5. res' = res /\ u' = u
    BY <2>3, SameArguments DEF res, Word
  <2>6. CASE dm[18] = 255
    <3>1. Turned = Rol(Rol(u))
      BY <2>6 DEF Turned
    <3>2. IsWord(u)
      BY Arguments, SMT DEF IsWord
    <3>3. Rol(Rol(Rol(u))) = Rotated(u)
      BY <3>2, ThreeTurns
    <3>4. RotateExact'
      BY <2>4, <2>5, <3>1, <3>3, SMT DEF RotateExact, Rotated
    <3>. QED
      BY <2>2, <2>3, <2>6, <3>4 DEF RotateAt
  <2>7. CASE dm[18] = 254
    <3>1. dm'[18] = 255
      BY <2>2, <2>7
    <3>2. Turned = Rol(u) /\ Turned' = Rol(Rol(u'))
      BY <2>7, <3>1 DEF Turned, Rol
    <3>. QED
      BY <2>2, <2>3, <2>4, <2>5, <3>1, <3>2 DEF RotateAt, Turning
  <2>8. CASE dm[18] = 253
    <3>1. dm'[18] = 254
      BY <2>2, <2>8
    <3>2. Turned = u /\ Turned' = Rol(u')
      BY <2>8, <3>1 DEF Turned, Rol
    <3>. QED
      BY <2>2, <2>3, <2>4, <2>5, <3>1, <3>2 DEF RotateAt, Turning
  <2>. QED
    BY <2>4, <2>6, <2>7, <2>8 DEF Turning
<1>6. CASE pc = 6
  <2>1. I = Br("BRBC", ZERO, -5)
    BY <1>6, RotateProgram DEF I, Running
  <2>2. Jumps(IF ZERO \in sreg THEN pc + 1 ELSE pc + (-5) + 1)
    BY <2>1, BranchRuns
  <2>3. CASE ZERO \in sreg
    <3>1. pc' = 7 /\ Running' /\ UNCHANGED <<dm, sp, fn, arg>>
      BY <1>6, <2>2, <2>3 DEF Jumps
    <3>2. RotateExact
      BY <1>6, <2>3 DEF RotateAt
    <3>3. RotateExact'
      BY <3>1, <3>2 DEF RotateExact, res, Word, u
    <3>. QED
      BY <3>1, <3>3 DEF RotateAt
  <2>4. CASE ZERO \notin sreg
    <3>1. pc' = 2 /\ Running' /\ UNCHANGED <<dm, sp, fn, arg>>
      BY <1>6, <2>2, <2>4 DEF Jumps
    <3>2. Turning /\ res = Turned
      BY <1>6, <2>4 DEF RotateAt
    <3>3. Turning' /\ res' = Turned'
      BY <3>1, <3>2, SameTurned DEF Turning, res, Word
    <3>. QED
      BY <3>1, <3>3 DEF RotateAt
  <2>. QED
    BY <2>3, <2>4
<1>7. CASE pc = 7
  <2>1. I = Ret
    BY <1>7, RotateProgram DEF I, Running
  <2>2. Returns /\ UNCHANGED <<dm, sreg, pm, fn, arg>>
    BY <2>1, RetRuns
  <2>3. RotateExact
    BY <1>7 DEF RotateAt
  <2>4. RotateExact'
    BY <2>2, <2>3 DEF RotateExact, res, Word, u
  <2>. QED
    BY <2>2, <2>4
<1>. QED
  BY <1>1, <1>2, <1>3, <1>4, <1>5, <1>6, <1>7 DEF RotateAt

\* Comparisons made so far, from one instruction to the next.
LEMMA SameOrder ==
  ASSUME UNCHANGED arg
  PROVE  /\ UNCHANGED <<u, v, ul, uh>> /\ (UNCHANGED sreg /\ Ordered => Ordered')
         /\ (dm'[18] = dm[18] /\ Below => Below') /\ (dm'[19] = dm[19] /\ Less => Less')
<1>1. UNCHANGED <<u, v, ul, uh>>
  BY SameArguments
<1>. QED
  BY <1>1 DEF Ordered, Sets, Signed16, Below, Less

\* cmp: after CP and CPC the flags tell the order of the words, and the branches that follow
\* leave the flags alone.
LEMMA CmpHolds ==
  ASSUME Running, Level, fn = "cmp", CmpAt, Next
  PROVE  \/ Running' /\ CmpAt' /\ UNCHANGED <<sp, fn, arg>>
         \/ Returns /\ CmpExact' /\ UNCHANGED <<pm, fn, arg>>
<1>. USE Registers
<1>0. 0 \in Byte /\ 1 \in Byte
  BY DEF Byte
<1>1. CASE pc = 1
  <2>1. I = RR("CP", 24, 22)
    BY <1>1, CmpProgram DEF I, Running
  <2>2. Goes({}) /\ SubtractFlags(dm[24], dm[22], 0) /\ (ZERO \in sreg' <=> dm[24] = dm[22])
    BY <2>1, CpRuns
  <2>3. /\ pc' = 2 /\ Running' /\ UNCHANGED <<sp, fn, arg>>
        /\ dm'[24] = dm[24] /\ dm'[25] = dm[25] /\ dm'[22] = dm[22] /\ dm'[23] = dm[23]
    BY <1>1, <2>2 DEF Goes
  <2>4. Given
    BY <1>1 DEF CmpAt
  <2>5. Given' /\ ul' = ul /\ vl' = vl
    BY <2>3, <2>4, SameArguments DEF Given
  <2>6. CARRY \in sreg' <=> ul < vl
    <3>1. CARRY \in sreg' <=> ul < vl + 0
      BY <2>2, <2>4 DEF SubtractFlags, Given
    <3>2. vl + 0 = vl
      BY Arguments
    <3>. QED
      BY <3>1, <3>2
  <2>7. ZERO \in sreg' <=> ul = vl
    BY <2>2, <2>4 DEF Given
  <2>. QED
    BY <2>3, <2>5, <2>6, <2>7 DEF CmpAt, Sets
<1>2. CASE pc = 2
  <2>1. I = RR("CPC", 25, 23)
    BY <1>2, CmpProgram DEF I, Running
  <2>2. /\ Goes({}) /\ SubtractFlags(dm[25], dm[23], Carry)
        /\ ZERO \in sreg' <=> dm[25] - dm[23] - Carry = 0 /\ ZERO \in sreg
    BY <2>1, CpcRuns
  <2>3. pc' = 3 /\ Running' /\ UNCHANGED <<sp, fn, arg>>
    BY <1>2, <2>2 DEF Goes
  <2>4. dm[25] = uh /\ dm[23] = vh /\ (CARRY \in sreg <=> ul < vl) /\ (ZERO \in sreg <=> ul = vl)
    BY <1>2 DEF CmpAt, Given, Sets
  <2>. DEFINE c == Carry
  <2>5. c \in {0, 1} /\ (c = 1 <=> ul < vl)
    BY <2>4 DEF Carry
  <2>6. /\ CARRY \in sreg' <=> uh < vh + c
        /\ SIGN \in sreg' <=> Signed(uh) - Signed(vh) - c < 0
        /\ ZERO \in sreg' <=> uh - vh - c = 0 /\ ul = vl
    BY <2>2, <2>4 DEF SubtractFlags
  <2>. HIDE DEF c
  <2>7. uh < vh + c <=> u < v
    BY <2>5, Arguments, SMT
  <2>8. Signed(uh) - Signed(vh) - c < 0 <=> Signed16(u) < Signed16(v)
    BY <2>5, Arguments, SignedArguments, SMT
  <2>9. uh - vh - c = 0 /\ ul = vl <=> u = v
    BY <2>5, Arguments, SMT
  <2>10. /\ CARRY \in sreg' <=> u' < v'
         /\ SIGN \in sreg' <=> Signed16(u') < Signed16(v')
         /\ ZERO \in sreg' <=> u' = v'
    BY <2>3, <2>6, <2>7, <2>8, <2>9, SameArguments
  <2>. QED
    BY <2>3, <2>10 DEF CmpAt, Ordered, Sets
<1>3. CASE pc = 3
  <2>1. I = RI("LDI", 18, 0)
    BY <1>3, CmpProgram DEF I, Running
  <2>2. Goes({18}) /\ dm'[18] = 0 /\ UNCHANGED sreg
    BY <1>0, <2>1, MoveRuns
  <2>3. pc' = 4 /\ Running' /\ UNCHANGED <<sp, fn, arg, sreg>>
    BY <1>3, <2>2 DEF Goes
  <2>4. Ordered
    BY <1>3 DEF CmpAt
  <2>5. Ordered'
    BY <2>2, <2>3, <2>4, SameOrder
  <2>. QED
    BY <2>2, <2>3, <2>5 DEF CmpAt
<1>4. CASE pc = 4
  <2>1. I = Br("BRBC", CARRY, 1)
    BY <1>4, CmpProgram DEF I, Running
  <2>2. Jumps(IF CARRY \in sreg THEN pc + 1 ELSE pc + 1 + 1)
    BY <2>1, BranchRuns
  <2>3. Running' /\ UNCHANGED <<dm, sreg, sp, fn, arg>>
    BY <2>2 DEF Jumps
  <2>4. Ordered /\ dm[18] = 0
    BY <1>4 DEF CmpAt
  <2>5. CASE CARRY \in sreg
    <3>1. pc' = 5
      BY <1>4, <2>2, <2>5 DEF Jumps
    <3>2. Ordered' /\ (u < v)'
      BY <2>3, <2>4, <2>5, SameOrder DEF Ordered, Sets
    <3>. QED
      BY <2>3, <3>1, <3>2 DEF CmpAt
  <2>6. CASE CARRY \notin sreg
    <3>1. pc' = 6
      BY <1>4, <2>2, <2>6 DEF Jumps
    <3>2. Ordered' /\ Below'
      BY <2>3, <2>4, <2>6, SameOrder DEF Ordered, Sets, Below
    <3>. QED
      BY <2>3, <3>1, <3>2 DEF CmpAt
  <2>. QED
    BY <2>5, <2>6
<1>5. CASE pc = 5
  <2>1. I = RI("LDI", 18, 1)
    BY <1>5, CmpProgram DEF I, Running
  <2>2. Goes({18}) /\ dm'[18] = 1 /\ UNCHANGED sreg
    BY <1>0, <2>1, MoveRuns
  <2>3. pc' = 6 /\ Running' /\ UNCHANGED <<sp, fn, arg, sreg>>
    BY <1>5, <2>2 DEF Goes
  <2>4. Ordered /\ u < v
    BY <1>5 DEF CmpAt
  <2>5. Ordered' /\ Below'
    BY <2>2, <2>3, <2>4, SameOrder DEF Below
  <2>. QED
    BY <2>2, <2>3, <2>5 DEF CmpAt
<1>6. CASE pc = 6
  <2>1. I = RI("LDI", 19, 0)
    BY <1>6, CmpProgram DEF I, Running
  <2>2. Goes({19}) /\ dm'[19] = 0 /\ UNCHANGED sreg
    BY <1>0, <2>1, MoveRuns
  <2>3. pc' = 7 /\ Running' /\ UNCHANGED <<sp, fn, arg, sreg>> /\ dm'[18] = dm[18]
    BY <1>6, <2>2 DEF Goes
  <2>4. Ordered /\ Below
    BY <1>6 DEF CmpAt
  <2>5. Ordered' /\ Below'
    BY <2>2, <2>3, <2>4, SameOrder
  <2>. QED
    BY <2>2, <2>3, <2>5 DEF CmpAt
<1>7. CASE pc = 7
  <2>1. I = Br("BRBC", SIGN, 1)
    BY <1>7, CmpProgram DEF I, Running
  <2>2. Jumps(IF SIGN \in sreg THEN pc + 1 ELSE pc + 1 + 1)
    BY <2>1, BranchRuns
  <2>3. Running' /\ UNCHANGED <<dm, sreg, sp, fn, arg>>
    BY <2>2 DEF Jumps
  <2>4. Ordered /\ Below /\ dm[19] = 0
    BY <1>7 DEF CmpAt
  <2>5. CASE SIGN \in sreg
    <3>1. pc' = 8
      BY <1>7, <2>2, <2>5 DEF Jumps
    <3>2. Ordered' /\ Below' /\ (Signed16(u) < Signed16(v))'
      BY <2>3, <2>4, <2>5, SameOrder DEF Ordered, Sets, Signed16
    <3>. QED
      BY <2>3, <3>1, <3>2 DEF CmpAt
  <2>6. CASE SIGN \notin sreg
    <3>1. pc' = 9
      BY <1>7, <2>2, <2>6 DEF Jumps
    <3>2. Ordered' /\ Below' /\ Less'
      BY <2>3, <2>4, <2>6, SameOrder DEF Ordered, Sets, Less, Signed16
    <3>. QED
      BY <2>3, <3>1, <3>2 DEF CmpAt
  <2>. QED
    BY <2>5, <2>6
<1>8. CASE pc = 8
  <2>1. I = RI("LDI", 19, 1)
    BY <1>8, CmpProgram DEF I, Running
  <2>2. Goes({19}) /\ dm'[19] = 1 /\ UNCHANGED sreg
    BY <1>0, <2>1, MoveRuns
  <2>3. pc' = 9 /\ Running' /\ UNCHANGED <<sp, fn, arg, sreg>> /\ dm'[18] = dm[18]
    BY <1>8, <2>2 DEF Goes
  <2>4. Ordered /\ Below /\ Signed16(u) < Signed16(v)
    BY <1>8 DEF CmpAt
  <2>5. Ordered' /\ Below' /\ Less'
    BY <2>2, <2>3, <2>4, SameOrder DEF Less, Signed16
  <2>. QED
    BY <2>2, <2>3, <2>5 DEF CmpAt
<1>9. CASE pc = 9
  <2>1. I = RI("LDI", 20, 0)
    BY <1>9, CmpProgram DEF I, Running
  <2>2. Goes({20}) /\ dm'[20] = 0 /\ UNCHANGED sreg
    BY <1>0, <2>1, MoveRuns
  <2>3. pc' = 10 /\ Running' /\ UNCHANGED <<sp, fn, arg, sreg>> /\ dm'[18] = dm[18]
          /\ dm'[19] = dm[19]
    BY <1>9, <2>2 DEF Goes
  <2>4. Ordered /\ Below /\ Less
    BY <1>9 DEF CmpAt
  <2>5. Ordered' /\ Below' /\ Less'
    BY <2>2, <2>3, <2>4, SameOrder
  <2>. QED
    BY <2>2, <2>3, <2>5 DEF CmpAt
<1>10. CASE pc = 10
  <2>1. I = Br("BRBS", ZERO, 1)
    BY <1>10, CmpProgram DEF I, Running
  <2>2. Jumps(IF ZERO \in sreg THEN pc + 1 + 1 ELSE pc + 1)
    BY <2>1, BranchRuns
  <2>3. Running' /\ UNCHANGED <<dm, sreg, sp, fn, arg>>
    BY <2>2 DEF Jumps
  <2>4. Ordered /\ Below /\ Less /\ dm[20] = 0
    BY <1>10 DEF CmpAt
  <2>5. CASE ZERO \in sreg
    <3>1. pc' = 12
      BY <1>10, <2>2, <2>5 DEF Jumps
    <3>2. Below' /\ Less' /\ (u = v)'
      BY <2>3, <2>4, <2>5, SameOrder DEF Ordered, Sets
    <3>. QED
      BY <2>3, <3>1, <3>2 DEF CmpAt
  <2>6. CASE ZERO \notin sreg
    <3>1. pc' = 11
      BY <1>10, <2>2, <2>6 DEF Jumps
    <3>2. Below' /\ Less' /\ dm'[20] = 0 /\ (u # v)'
      BY <2>3, <2>4, <2>6, SameOrder DEF Ordered, Sets
    <3>. QED
      BY <2>3, <3>1, <3>2 DEF CmpAt
  <2>. QED
    BY <2>5, <2>6
<1>11. CASE pc = 11
  <2>1. I = RI("RJMP", 0, 1)
    BY <1>11, CmpProgram DEF I, Running
  <2>2. Jumps(pc + 1 + 1)
    BY <2>1, RjmpRuns
  <2>3. pc' = 13 /\ Running' /\ UNCHANGED <<dm, sp, fn, arg>>
    BY <1>11, <2>2 DEF Jumps
  <2>4. Below /\ Less /\ dm[20] = 0 /\ u # v
    BY <1>11 DEF CmpAt
  <2>5. Below' /\ Less' /\ dm'[20] = 0 /\ u' # v'
    BY <2>3, <2>4, SameOrder
  <2>. QED
    BY <2>3, <2>5 DEF CmpAt, CmpExact, Below, Less
<1>12. CASE pc = 12
  <2>1. I = R("SER", 20)
    BY <1>12, CmpProgram DEF I, Running
  <2>2. Goes({20}) /\ dm'[20] = 255
    BY <2>1, MoveRuns
  <2>3. pc' = 13 /\ Running' /\ UNCHANGED <<sp, fn, arg>> /\ dm'[18] = dm[18] /\ dm'[19] = dm[19]
    BY <1>12, <2>2 DEF Goes
  <2>4. Below /\ Less /\ u = v
    BY <1>12 DEF CmpAt
  <2>5. Below' /\ Less' /\ u' = v'
    BY <2>3, <2>4, SameOrder
  <2>. QED
    BY <2>2, <2>3, <2>5 DEF CmpAt, CmpExact, Below, Less
<1>13. CASE pc = 13
  <2>1. I = Ret
    BY <1>13, CmpProgram DEF I, Running
  <2>2. Returns /\ UNCHANGED <<dm, sreg, pm, fn, arg>>
    BY <2>1, RetRuns
  <2>3. CmpExact
    BY <1>13 DEF CmpAt
  <2>4. (CmpExact)'
    BY <2>2, <2>3 DEF CmpExact, Signed16, u, v
  <2>. QED
    BY <2>2, <2>4
<1>. QED
  BY <1>1, <1>2, <1>3, <1>4, <1>5, <1>6, <1>7, <1>8, <1>9, <1>10, <1>11, <1>12, <1>13 DEF CmpAt

\* cpi: as cmp, with the bytes of Limit.
LEMMA CpiHolds ==
  ASSUME Running, Level, fn = "cpi", CpiAt, Next
  PROVE  \/ Running' /\ CpiAt' /\ UNCHANGED <<sp, fn, arg>>
         \/ Returns /\ CpiExact' /\ UNCHANGED <<pm, fn, arg>>
<1>. USE Registers
<1>0. 0 \in Byte /\ 1 \in Byte /\ 127 \in Byte
  BY DEF Byte
<1>1. CASE pc = 1
  <2>1. I = RI("LDI", 18, 1)
    BY <1>1, CpiProgram DEF I, Running
  <2>2. Goes({18}) /\ dm'[18] = 1 /\ UNCHANGED sreg
    BY <1>0, <2>1, MoveRuns
  <2>3. pc' = 2 /\ Running' /\ UNCHANGED <<sp, fn, arg, sreg>> /\ dm'[24] = dm[24]
          /\ dm'[25] = dm[25] /\ dm'[22] = dm[22] /\ dm'[23] = dm[23]
    BY <1>1, <2>2 DEF Goes
  <2>4. Given
    BY <1>1 DEF CpiAt
  <2>5. Given'
    BY <2>2, <2>3, <2>4, SameOrder, SameArguments DEF Given
  <2>. QED
    BY <2>2, <2>3, <2>5 DEF CpiAt
<1>2. CASE pc = 2
  <2>1. I = RI("CPI", 24, 127)
    BY <1>2, CpiProgram DEF I, Running
  <2>2. Goes({}) /\ SubtractFlags(dm[24], 127, 0)
    BY <1>0, <2>1, CpRuns
  <2>3. pc' = 3 /\ Running' /\ UNCHANGED <<sp, fn, arg>> /\ dm'[25] = dm[25] /\ dm'[18] = dm[18]
    BY <1>2, <2>2 DEF Goes
  <2>4. dm[24] = ul /\ dm[25] = uh /\ dm[18] = 1
    BY <1>2 DEF CpiAt, Given
  <2>5. CARRY \in sreg' <=> ul < 127 + 0
    BY <2>2, <2>4 DEF SubtractFlags
  <2>6. CARRY \in sreg' <=> ul' < 127
    BY <2>3, <2>5, SameOrder
  <2>. QED
    BY <2>3, <2>4, <2>6, SameOrder DEF CpiAt, Sets
<1>3. CASE pc = 3
  <2>1. I = RR("CPC", 25, 18)
    BY <1>3, CpiProgram DEF I, Running
  <2>2. Goes({}) /\ SubtractFlags(dm[25], dm[18], Carry)
    BY <2>1, CpcRuns
  <2>3. pc' = 4 /\ Running' /\ UNCHANGED <<sp, fn, arg>>
    BY <1>3, <2>2 DEF Goes
  <2>4. dm[25] = uh /\ dm[18] = 1 /\ (CARRY \in sreg <=> ul < 127)
    BY <1>3 DEF CpiAt, Sets
  <2>. DEFINE c == Carry
  <2>5. c \in {0, 1} /\ (c = 1 <=> ul < 127) /\ (CARRY \in sreg' <=> uh < 1 + c)
    BY <2>2, <2>4 DEF SubtractFlags, Carry
  <2>. HIDE DEF c
  <2>6. uh < 1 + c <=> u < Limit
    BY <2>5, Arguments, SMT DEF Limit
  <2>7. CARRY \in sreg' <=> u' < Limit
    BY <2>3, <2>5, <2>6, SameOrder
  <2>. QED
    BY <2>3, <2>7 DEF CpiAt, Sets
<1>4. CASE pc = 4
  <2>1. I = RI("LDI", 18, 0)
    BY <1>4, CpiProgram DEF I, Running
  <2>2. Goes({18}) /\ dm'[18] = 0 /\ UNCHANGED sreg
    BY <1>0, <2>1, MoveRuns
  <2>3. pc' = 5 /\ Running' /\ UNCHANGED <<sp, fn, arg, sreg>>
    BY <1>4, <2>2 DEF Goes
  <2>4. Sets(CARRY, u < Limit)
    BY <1>4 DEF CpiAt
  <2>5. Sets(CARRY, u < Limit)'
    BY <2>2, <2>3, <2>4, SameOrder DEF Sets
  <2>. QED
    BY <2>2, <2>3, <2>5 DEF CpiAt
<1>5. CASE pc = 5
  <2>1. I = Br("BRBC", CARRY, 1)
    BY <1>5, CpiProgram DEF I, Running
  <2>2. Jumps(IF CARRY \in sreg THEN pc + 1 ELSE pc + 1 + 1)
    BY <2>1, BranchRuns
  <2>3. Running' /\ UNCHANGED <<dm, sreg, sp, fn, arg>>
    BY <2>2 DEF Jumps
  <2>4. Sets(CARRY, u < Limit) /\ dm[18] = 0
    BY <1>5 DEF CpiAt
  <2>5. CASE CARRY \in sreg
    <3>1. pc' = 6
      BY <1>5, <2>2, <2>5 DEF Jumps
    <3>2. (u < Limit)'
      BY <2>3, <2>4, <2>5, SameOrder DEF Sets, Limit
    <3>. QED
      BY <2>3, <3>1, <3>2 DEF CpiAt
  <2>6. CASE CARRY \notin sreg
    <3>1. pc' = 7
      BY <1>5, <2>2, <2>6 DEF Jumps
    <3>2. CpiExact'
      BY <2>3, <2>4, <2>6, SameOrder DEF Sets, CpiExact, Limit
    <3>. QED
      BY <2>3, <3>1, <3>2 DEF CpiAt
  <2>. QED
    BY <2>5, <2>6
<1>6. CASE pc = 6
  <2>1. I = RI("LDI", 18, 1)
    BY <1>6, CpiProgram DEF I, Running
  <2>2. Goes({18}) /\ dm'[18] = 1 /\ UNCHANGED sreg
    BY <1>0, <2>1, MoveRuns
  <2>3. pc' = 7 /\ Running' /\ UNCHANGED <<sp, fn, arg, sreg>>
    BY <1>6, <2>2 DEF Goes
  <2>4. u < Limit
    BY <1>6 DEF CpiAt
  <2>5. CpiExact'
    BY <2>2, <2>3, <2>4, SameOrder DEF CpiExact, Limit
  <2>. QED
    BY <2>2, <2>3, <2>5 DEF CpiAt
<1>7. CASE pc = 7
  <2>1. I = Ret
    BY <1>7, CpiProgram DEF I, Running
  <2>2. Returns /\ UNCHANGED <<dm, sreg, pm, fn, arg>>
    BY <2>1, RetRuns
  <2>3. CpiExact
    BY <1>7 DEF CpiAt
  <2>4. (CpiExact)'
    BY <2>2, <2>3 DEF CpiExact, u
  <2>. QED
    BY <2>2, <2>4
<1>. QED
  BY <1>1, <1>2, <1>3, <1>4, <1>5, <1>6, <1>7 DEF CpiAt

\* The lower nibble.
LEMMA LowNibble ==
  ASSUME NEW a \in 0..15, NEW b \in 0..15
  PROVE  Bits(16 * a + b) \cap Bits(15) = Bits(b)
<1>. DEFINE y == 16 * a + b
<1>1. PICK b0, b1, b2, b3, b4, b5, b6, b7 \in {0, 1} :
           /\ y = b0 + 2 * b1 + 4 * b2 + 8 * b3 + 16 * b4 + 32 * b5 + 64 * b6 + 128 * b7
           /\ (Bit(y, 0) <=> b0 = 1) /\ (Bit(y, 1) <=> b1 = 1) /\ (Bit(y, 2) <=> b2 = 1)
           /\ (Bit(y, 3) <=> b3 = 1) /\ (Bit(y, 4) <=> b4 = 1) /\ (Bit(y, 5) <=> b5 = 1)
           /\ (Bit(y, 6) <=> b6 = 1) /\ (Bit(y, 7) <=> b7 = 1)
  <2>1. y \in Byte
    BY DEF Byte
  <2>. HIDE DEF y
  <2>. QED
    BY <2>1, EightBits
<1>2. b = b0 + 2 * b1 + 4 * b2 + 8 * b3 + 16 * 0 + 32 * 0 + 64 * 0 + 128 * 0
  BY <1>1
<1>. HIDE DEF y
<1>3. 0 \in {0, 1} /\ 1 \in {0, 1}
        /\ 15 = 1 + 2 * 1 + 4 * 1 + 8 * 1 + 16 * 0 + 32 * 0 + 64 * 0 + 128 * 0
  OBVIOUS
<1>4. /\ (Bit(b, 0) <=> b0 = 1) /\ (Bit(b, 1) <=> b1 = 1) /\ (Bit(b, 2) <=> b2 = 1)
        /\ (Bit(b, 3) <=> b3 = 1) /\ (Bit(b, 4) <=> 0 = 1) /\ (Bit(b, 5) <=> 0 = 1)
        /\ (Bit(b, 6) <=> 0 = 1) /\ (Bit(b, 7) <=> 0 = 1)
  BY <1>2, <1>3, Expansion
<1>5. /\ (Bit(15, 0) <=> 1 = 1) /\ (Bit(15, 1) <=> 1 = 1) /\ (Bit(15, 2) <=> 1 = 1)
        /\ (Bit(15, 3) <=> 1 = 1) /\ (Bit(15, 4) <=> 0 = 1) /\ (Bit(15, 5) <=> 0 = 1)
        /\ (Bit(15, 6) <=> 0 = 1) /\ (Bit(15, 7) <=> 0 = 1)
  BY <1>3, Expansion
<1>6. \A i \in 0..7 : Bit(y, i) /\ Bit(15, i) <=> Bit(b, i)
  BY <1>1, <1>4, <1>5
<1>. QED
  BY <1>6 DEF Bits, y

\* A bit that is set or loaded in a byte that does not have it.
LEMMA UpperBits ==
  ASSUME NEW n \in 0..15, NEW t \in {0, 1}
  PROVE  /\ Bits(n) \cup Bits(64) = Bits(n + 64)
         /\ (Bits(n + 64) \ {7}) \cup (IF t = 1 THEN {7} ELSE {}) = Bits(n + 64 + 128 * t)
<1>. DEFINE y == n + 64
            z == n + 64 + 128 * t
<1>1. PICK b0, b1, b2, b3, b4, b5, b6, b7 \in {0, 1} :
           /\ n = b0 + 2 * b1 + 4 * b2 + 8 * b3 + 16 * b4 + 32 * b5 + 64 * b6 + 128 * b7
           /\ (Bit(n, 0) <=> b0 = 1) /\ (Bit(n, 1) <=> b1 = 1) /\ (Bit(n, 2) <=> b2 = 1)
           /\ (Bit(n, 3) <=> b3 = 1) /\ (Bit(n, 4) <=> b4 = 1) /\ (Bit(n, 5) <=> b5 = 1)
           /\ (Bit(n, 6) <=> b6 = 1) /\ (Bit(n, 7) <=> b7 = 1)
  <2>1. n \in Byte
    BY DEF Byte
  <2>. QED
    BY <2>1, EightBits
<1>2. /\ b4 = 0 /\ b5 = 0 /\ b6 = 0 /\ b7 = 0 /\ 0 \in {0, 1} /\ 1 \in {0, 1}
      /\ 64 = 0 + 2 * 0 + 4 * 0 + 8 * 0 + 16 * 0 + 32 * 0 + 64 * 1 + 128 * 0
      /\ y = b0 + 2 * b1 + 4 * b2 + 8 * b3 + 16 * b4 + 32 * b5 + 64 * 1 + 128 * b7
      /\ z = b0 + 2 * b1 + 4 * b2 + 8 * b3 + 16 * b4 + 32 * b5 + 64 * 1 + 128 * t
  BY <1>1
<1>. HIDE DEF y, z
<1>3. /\ (Bit(64, 0) <=> 0 = 1) /\ (Bit(64, 1) <=> 0 = 1) /\ (Bit(64, 2) <=> 0 = 1)
        /\ (Bit(64, 3) <=> 0 = 1) /\ (Bit(64, 4) <=> 0 = 1) /\ (Bit(64, 5) <=> 0 = 1)
        /\ (Bit(64, 6) <=> 1 = 1) /\ (Bit(64, 7) <=> 0 = 1)
  BY <1>2, Expansion
<1>4. /\ (Bit(y, 0) <=> b0 = 1) /\ (Bit(y, 1) <=> b1 = 1) /\ (Bit(y, 2) <=> b2 = 1)
        /\ (Bit(y, 3) <=> b3 = 1) /\ (Bit(y, 4) <=> b4 = 1) /\ (Bit(y, 5) <=> b5 = 1)
        /\ (Bit(y, 6) <=> 1 = 1) /\ (Bit(y, 7) <=> b7 = 1)
  BY <1>2, Expansion
<1>5. /\ (Bit(z, 0) <=> b0 = 1) /\ (Bit(z, 1) <=> b1 = 1) /\ (Bit(z, 2) <=> b2 = 1)
        /\ (Bit(z, 3) <=> b3 = 1) /\ (Bit(z, 4) <=> b4 = 1) /\ (Bit(z, 5) <=> b5 = 1)
        /\ (Bit(z, 6) <=> 1 = 1) /\ (Bit(z, 7) <=> t = 1)
  BY <1>2, Expansion
<1>6. \A i \in 0..7 : Bit(n, i) \/ Bit(64, i) <=> Bit(y, i)
  BY <1>1, <1>2, <1>3, <1>4
<1>7. \A i \in 0..7 : (Bit(y, i) /\ i # 7) \/ (t = 1 /\ i = 7) <=> Bit(z, i)
  BY <1>1, <1>2, <1>4, <1>5
<1>8. Bits(n) \cup Bits(64) = Bits(y)
  BY <1>6 DEF Bits
<1>9. (Bits(y) \ {7}) \cup (IF t = 1 THEN {7} ELSE {}) = Bits(z)
  BY <1>7 DEF Bits
<1>. QED
  BY <1>8, <1>9 DEF y, z

\* The logic operations that follow, one by one.
LEMMA AndOrRuns ==
  ASSUME Running, Next, NEW d \in Reg, NEW r \in Reg, NEW k \in Byte,
         I \in {RR("AND", d, r), RR("OR", d, r), RI("ANDI", d, k), RI("ORI", d, k)}
  PROVE  /\ Goes({d}) /\ dm'[d] \in Byte
         /\ I = RR("AND", d, r) => Bits(dm'[d]) = Bits(dm[d]) \cap Bits(dm[r])
         /\ I = RR("OR", d, r) => Bits(dm'[d]) = Bits(dm[d]) \cup Bits(dm[r])
         /\ I = RI("ANDI", d, k) => Bits(dm'[d]) = Bits(dm[d]) \cap Bits(k)
         /\ I = RI("ORI", d, k) => Bits(dm'[d]) = Bits(dm[d]) \cup Bits(k)
<1>1. CASE I = RR("AND", d, r)
  <2>. DEFINE S == Bits(dm[d]) \cap Bits(dm[r])
  <2>1. S = Bits(dm[d]) \cap Bits(dm[r])
    OBVIOUS
  <2>. HIDE DEF S
  <2>2. Goes({d}) /\ dm'[d] \in Byte /\ Bits(dm'[d]) = S
    BY <1>1, <2>1, LogicRuns
  <2>. QED
    BY <1>1, <2>1, <2>2 DEF RR, RI, A
<1>2. CASE I = RR("OR", d, r)
  <2>. DEFINE S == Bits(dm[d]) \cup Bits(dm[r])
  <2>1. S = Bits(dm[d]) \cup Bits(dm[r])
    OBVIOUS
  <2>. HIDE DEF S
  <2>2. Goes({d}) /\ dm'[d] \in Byte /\ Bits(dm'[d]) = S
    BY <1>2, <2>1, LogicRuns
  <2>. QED
    BY <1>2, <2>1, <2>2 DEF RR, RI, A
<1>3. CASE I = RI("ANDI", d, k)
  <2>. DEFINE S == Bits(dm[d]) \cap Bits(k)
  <2>1. S = Bits(dm[d]) \cap Bits(k)
    OBVIOUS
  <2>. HIDE DEF S
  <2>2. Goes({d}) /\ dm'[d] \in Byte /\ Bits(dm'[d]) = S
    BY <1>3, <2>1, LogicRuns
  <2>. QED
    BY <1>3, <2>1, <2>2 DEF RR, RI, A
<1>4. CASE I = RI("ORI", d, k)
  <2>. DEFINE S == Bits(dm[d]) \cup Bits(k)
  <2>1. S = Bits(dm[d]) \cup Bits(k)
    OBVIOUS
  <2>. HIDE DEF S
  <2>2. Goes({d}) /\ dm'[d] \in Byte /\ Bits(dm'[d]) = S
    BY <1>4, <2>1, LogicRuns
  <2>. QED
    BY <1>4, <2>1, <2>2 DEF RR, RI, A
<1>. QED
  BY <1>1, <1>2, <1>3, <1>4

\* logic: De Morgan's law on the bits of the registers.
LEMMA LogicHolds ==
  ASSUME Running, Level, fn = "logic", LogicAt, Next
  PROVE  \/ Running' /\ LogicAt' /\ UNCHANGED <<sp, fn, arg>>
         \/ Returns /\ (dm[19] = 1)' /\ UNCHANGED <<pm, fn, arg>>
<1>. USE Registers
<1>0. 1 \in Byte
  BY DEF Byte
<1>1. CASE pc = 1
  <2>1. I = RR("MOV", 18, 24)
    BY <1>1, LogicProgram DEF I, Running
  <2>2. Goes({18}) /\ dm'[18] = dm[24]
    BY <2>1, MoveRuns
  <2>3. /\ pc' = 2 /\ Running' /\ UNCHANGED <<sp, fn, arg, ul, uh, vl, vh>>
        /\ dm'[24] = dm[24] /\ dm'[25] = dm[25] /\ dm'[22] = dm[22] /\ dm'[23] = dm[23]
    BY <1>1, <2>2, SameArguments DEF Goes
  <2>4. dm[24] = ul /\ dm[25] = uh /\ dm[22] = vl /\ dm[23] = vh
    BY <1>1 DEF LogicAt, Given, Exchanged
  <2>. QED
    BY <2>2, <2>3, <2>4 DEF LogicAt, Given, Exchanged
<1>2. CASE pc = 2
  <2>1. I = RR("AND", 18, 22)
    BY <1>2, LogicProgram DEF I, Running
  <2>2. Goes({18}) /\ Bits(dm'[18]) = Bits(dm[18]) \cap Bits(dm[22])
    BY <1>0, <2>1, AndOrRuns
  <2>3. /\ pc' = 3 /\ Running' /\ UNCHANGED <<sp, fn, arg, ul, uh, vl, vh>>
        /\ dm'[24] = dm[24] /\ dm'[25] = dm[25] /\ dm'[22] = dm[22] /\ dm'[23] = dm[23]
    BY <1>2, <2>2, SameArguments DEF Goes
  <2>4. dm[24] = ul /\ dm[25] = uh /\ dm[22] = vl /\ dm[23] = vh /\ dm[18] = ul
    BY <1>2 DEF LogicAt, Given, Exchanged
  <2>. QED
    BY <2>2, <2>3, <2>4 DEF LogicAt, Given, Exchanged
<1>3. CASE pc = 3
  <2>1. I = R("COM", 18)
    BY <1>3, LogicProgram DEF I, Running
  <2>2. Goes({18}) /\ dm'[18] = 255 - dm[18]
    BY <2>1, ComRuns
  <2>3. /\ pc' = 4 /\ Running' /\ UNCHANGED <<sp, fn, arg, ul, uh, vl, vh>>
        /\ dm'[24] = dm[24] /\ dm'[25] = dm[25] /\ dm'[22] = dm[22] /\ dm'[23] = dm[23]
    BY <1>3, <2>2, SameArguments DEF Goes
  <2>4. dm[24] = ul /\ dm[25] = uh /\ dm[22] = vl /\ dm[23] = vh
          /\ Bits(dm[18]) = Bits(ul) \cap Bits(vl)
    BY <1>3 DEF LogicAt, Given, Exchanged
  <2>5. Bits(dm'[18]) = (0..7) \ Bits(dm[18])
    BY <2>2, RegisterTypes, Complement
  <2>. QED
    BY <2>2, <2>3, <2>4, <2>5 DEF LogicAt, Given, Exchanged
<1>4. CASE pc = 4
  <2>1. I = R("COM", 24)
    BY <1>4, LogicProgram DEF I, Running
  <2>2. Goes({24}) /\ dm'[24] = 255 - dm[24]
    BY <2>1, ComRuns
  <2>3. /\ pc' = 5 /\ Running' /\ UNCHANGED <<sp, fn, arg, ul, uh, vl, vh>>
        /\ dm'[18] = dm[18] /\ dm'[22] = dm[22]
    BY <1>4, <2>2, SameArguments DEF Goes
  <2>4. dm[24] = ul /\ dm[22] = vl /\ Bits(dm[18]) = (0..7) \ (Bits(ul) \cap Bits(vl))
    BY <1>4 DEF LogicAt, Given, Exchanged
  <2>. QED
    BY <2>2, <2>3, <2>4 DEF LogicAt, Given, Exchanged
<1>5. CASE pc = 5
  <2>1. I = R("COM", 22)
    BY <1>5, LogicProgram DEF I, Running
  <2>2. Goes({22}) /\ dm'[22] = 255 - dm[22]
    BY <2>1, ComRuns
  <2>3. /\ pc' = 6 /\ Running' /\ UNCHANGED <<sp, fn, arg, ul, uh, vl, vh>>
        /\ dm'[18] = dm[18] /\ dm'[24] = dm[24]
    BY <1>5, <2>2, SameArguments DEF Goes
  <2>4. dm[24] = 255 - ul /\ dm[22] = vl /\ Bits(dm[18]) = (0..7) \ (Bits(ul) \cap Bits(vl))
    BY <1>5 DEF LogicAt, Given, Exchanged
  <2>. QED
    BY <2>2, <2>3, <2>4 DEF LogicAt, Given, Exchanged
<1>6. CASE pc = 6
  <2>1. I = RR("OR", 24, 22)
    BY <1>6, LogicProgram DEF I, Running
  <2>2. Goes({24}) /\ dm'[24] \in Byte /\ Bits(dm'[24]) = Bits(dm[24]) \cup Bits(dm[22])
    BY <1>0, <2>1, AndOrRuns
  <2>3. /\ pc' = 7 /\ Running' /\ UNCHANGED <<sp, fn, arg, ul, uh, vl, vh>>
        /\ dm'[18] = dm[18]
    BY <1>6, <2>2, SameArguments DEF Goes
  <2>4. dm[24] = 255 - ul /\ dm[22] = 255 - vl /\ Bits(dm[18]) = (0..7) \ (Bits(ul) \cap Bits(vl))
    BY <1>6 DEF LogicAt, Given, Exchanged
  <2>5. Bits(dm[24]) = (0..7) \ Bits(ul) /\ Bits(dm[22]) = (0..7) \ Bits(vl)
    BY <2>4, Arguments, Complement
  <2>6. Bits(dm'[24]) = Bits(dm[18]) /\ dm[18] \in Byte
    BY <2>2, <2>4, <2>5, RegisterTypes
  <2>7. dm'[24] = dm'[18]
    BY <2>2, <2>3, <2>6, SameBits
  <2>. QED
    BY <2>2, <2>3, <2>4, <2>7 DEF LogicAt, Given, Exchanged
<1>7. CASE pc = 7
  <2>1. I = RI("LDI", 19, 1)
    BY <1>7, LogicProgram DEF I, Running
  <2>2. Goes({19}) /\ dm'[19] = 1
    BY <1>0, <2>1, MoveRuns
  <2>3. /\ pc' = 8 /\ Running' /\ UNCHANGED <<sp, fn, arg, ul, uh, vl, vh>>
        /\ dm'[18] = dm[18] /\ dm'[24] = dm[24]
    BY <1>7, <2>2, SameArguments DEF Goes
  <2>4. dm[18] = dm[24]
    BY <1>7 DEF LogicAt, Given, Exchanged
  <2>. QED
    BY <2>2, <2>3, <2>4 DEF LogicAt, Given, Exchanged
<1>8. CASE pc = 8
  <2>1. I = RR("CPSE", 18, 24) /\ pm[pc + 1] = RR("EOR", 19, 19)
    BY <1>8, LogicProgram DEF I, Running
  <2>2. pm[pc + 1].op \notin TwoWords
    BY <2>1 DEF RR, A, TwoWords
  <2>3. dm[18] = dm[24] /\ dm[19] = 1
    BY <1>8 DEF LogicAt
  <2>4. Jumps(pc + 2)
    BY <2>1, <2>2, <2>3, CpseRuns
  <2>5. pc' = 10 /\ Running' /\ UNCHANGED <<dm, sp, fn, arg>>
    BY <1>8, <2>4 DEF Jumps
  <2>. QED
    BY <2>3, <2>5 DEF LogicAt
<1>10. CASE pc = 10
  <2>1. I = Ret
    BY <1>10, LogicProgram DEF I, Running
  <2>2. Returns /\ UNCHANGED <<dm, sreg, pm, fn, arg>>
    BY <2>1, RetRuns
  <2>3. dm[19] = 1
    BY <1>10 DEF LogicAt
  <2>4. (dm[19] = 1)'
    BY <2>2, <2>3 DEF LogicAt
  <2>. QED
    BY <2>2, <2>4
<1>. QED
  BY <1>1, <1>2, <1>3, <1>4, <1>5, <1>6, <1>7, <1>8, <1>10 DEF LogicAt

\* bits: three exclusive ors exchange, and the bits and nibbles of r25 arrive in r18.
LEMMA BitsHolds ==
  ASSUME Running, Level, fn = "bits", BitsAt, Next
  PROVE  \/ Running' /\ BitsAt' /\ UNCHANGED <<sp, fn, arg>>
         \/ Returns /\ BitsExact' /\ UNCHANGED <<pm, fn, arg>>
<1>. USE Registers
<1>0. 15 \in Byte /\ 64 \in Byte /\ 7 \in 0..7 /\ 0 \in 0..7 /\ TBIT \in 0..7
  BY DEF Byte, TBIT
<1>. DEFINE n == uh \div 16
            t == uh % 2
<1>n. n \in 0..15 /\ t \in {0, 1} /\ uh % 16 \in 0..15 /\ n + 64 \in Byte
        /\ n + 64 + 128 * t \in Byte
      /\ n \in Byte /\ n \in Int /\ t \in Int
  <2>1. n \in 0..15 /\ t \in {0, 1} /\ uh % 16 \in 0..15
    BY Arguments, SMT
  <2>. HIDE DEF n, t
  <2>. QED
    BY <2>1 DEF Byte
<1>. HIDE DEF n, t
<1>1. CASE pc = 1
  <2>1. I = RR("EOR", 24, 22)
    BY <1>1, BitsProgram DEF I, Running
  <2>2. Goes({24}) /\ dm'[24] \in Byte
          /\ Bits(dm'[24]) = (Bits(dm[24]) \ Bits(dm[22])) \cup (Bits(dm[22]) \ Bits(dm[24]))
    BY <2>1, LogicRuns
  <2>3. /\ pc' = 2 /\ Running' /\ UNCHANGED <<sp, fn, arg, ul, uh, vl, vh>>
        /\ dm'[25] = dm[25] /\ dm'[22] = dm[22]
    BY <1>1, <2>2, SameArguments DEF Goes
  <2>4. dm[24] = ul /\ dm[25] = uh /\ dm[22] = vl
    BY <1>1 DEF BitsAt, Given, Exchanged
  <2>. QED
    BY <2>2, <2>3, <2>4 DEF BitsAt, Xor, Given, Exchanged
<1>2. CASE pc = 2
  <2>1. I = RR("EOR", 22, 24)
    BY <1>2, BitsProgram DEF I, Running
  <2>2. Goes({22}) /\ dm'[22] \in Byte
          /\ Bits(dm'[22]) = (Bits(dm[22]) \ Bits(dm[24])) \cup (Bits(dm[24]) \ Bits(dm[22]))
    BY <2>1, LogicRuns
  <2>3. /\ pc' = 3 /\ Running' /\ UNCHANGED <<sp, fn, arg, ul, uh, vl, vh>>
        /\ dm'[24] = dm[24] /\ dm'[25] = dm[25]
    BY <1>2, <2>2, SameArguments DEF Goes
  <2>4. Bits(dm[24]) = Xor(Bits(ul), Bits(vl)) /\ dm[22] = vl /\ dm[25] = uh
    BY <1>2 DEF BitsAt, Given, Exchanged
  <2>5. Bits(dm'[22]) = Bits(ul)
    BY <2>2, <2>4 DEF Xor
  <2>6. dm'[22] = ul
    BY <2>2, <2>5, Arguments, SameBits
  <2>. QED
    BY <2>2, <2>3, <2>4, <2>6 DEF BitsAt, Given, Exchanged
<1>3. CASE pc = 3
  <2>1. I = RR("EOR", 24, 22)
    BY <1>3, BitsProgram DEF I, Running
  <2>2. Goes({24}) /\ dm'[24] \in Byte
          /\ Bits(dm'[24]) = (Bits(dm[24]) \ Bits(dm[22])) \cup (Bits(dm[22]) \ Bits(dm[24]))
    BY <2>1, LogicRuns
  <2>3. /\ pc' = 4 /\ Running' /\ UNCHANGED <<sp, fn, arg, ul, uh, vl, vh>>
        /\ dm'[22] = dm[22] /\ dm'[25] = dm[25]
    BY <1>3, <2>2, SameArguments DEF Goes
  <2>4. Bits(dm[24]) = Xor(Bits(ul), Bits(vl)) /\ dm[22] = ul /\ dm[25] = uh
    BY <1>3 DEF BitsAt, Given, Exchanged
  <2>5. Bits(dm'[24]) = Bits(vl)
    BY <2>2, <2>4 DEF Xor
  <2>6. dm'[24] = vl
    BY <2>2, <2>5, Arguments, SameBits
  <2>. QED
    BY <2>2, <2>3, <2>4, <2>6 DEF BitsAt, Given, Exchanged
<1>4. CASE pc = 4
  <2>1. I = RR("MOV", 18, 25)
    BY <1>4, BitsProgram DEF I, Running
  <2>2. Goes({18}) /\ dm'[18] = dm[25]
    BY <2>1, MoveRuns
  <2>3. /\ pc' = 5 /\ Running' /\ UNCHANGED <<sp, fn, arg, ul, uh, vl, vh>>
        /\ dm'[24] = dm[24] /\ dm'[22] = dm[22] /\ dm'[25] = dm[25]
    BY <1>4, <2>2, SameArguments DEF Goes
  <2>4. dm[24] = vl /\ dm[22] = ul /\ dm[25] = uh
    BY <1>4 DEF BitsAt, Given, Exchanged
  <2>. QED
    BY <2>2, <2>3, <2>4 DEF BitsAt, Given, Exchanged
<1>5. CASE pc = 5
  <2>1. I = R("SWAP", 18)
    BY <1>5, BitsProgram DEF I, Running
  <2>2. Goes({18}) /\ dm'[18] = 16 * (dm[18] % 16) + (dm[18] \div 16)
    BY <2>1, SwapRuns
  <2>3. /\ pc' = 6 /\ Running' /\ UNCHANGED <<sp, fn, arg, ul, uh, vl, vh>>
        /\ dm'[24] = dm[24] /\ dm'[22] = dm[22] /\ dm'[25] = dm[25]
    BY <1>5, <2>2, SameArguments DEF Goes
  <2>4. dm[24] = vl /\ dm[22] = ul /\ dm[25] = uh /\ dm[18] = uh
    BY <1>5 DEF BitsAt, Given, Exchanged
  <2>. QED
    BY <2>2, <2>3, <2>4 DEF BitsAt, Given, Exchanged
<1>6. CASE pc = 6
  <2>1. I = RI("ANDI", 18, 15)
    BY <1>6, BitsProgram DEF I, Running
  <2>2. Goes({18}) /\ dm'[18] \in Byte /\ Bits(dm'[18]) = Bits(dm[18]) \cap Bits(15)
    BY <1>0, <2>1, AndOrRuns
  <2>3. /\ pc' = 7 /\ Running' /\ UNCHANGED <<sp, fn, arg, ul, uh, vl, vh>>
        /\ dm'[24] = dm[24] /\ dm'[22] = dm[22] /\ dm'[25] = dm[25]
    BY <1>6, <2>2, SameArguments DEF Goes
  <2>4. dm[24] = vl /\ dm[22] = ul /\ dm[25] = uh /\ dm[18] = 16 * (uh % 16) + n
    BY <1>6 DEF BitsAt, Given, Exchanged, Sets, n, t
  <2>5. Bits(dm'[18]) = Bits(n)
    BY <1>n, <2>2, <2>4, LowNibble
  <2>6. dm'[18] = n
    BY <1>n, <2>2, <2>5, SameBits
  <2>. QED
    BY <2>2, <2>3, <2>4, <2>6 DEF BitsAt, Given, Exchanged, Sets, n, t
<1>7. CASE pc = 7
  <2>1. I = RI("ORI", 18, 64)
    BY <1>7, BitsProgram DEF I, Running
  <2>2. Goes({18}) /\ dm'[18] \in Byte /\ Bits(dm'[18]) = Bits(dm[18]) \cup Bits(64)
    BY <1>0, <2>1, AndOrRuns
  <2>3. /\ pc' = 8 /\ Running' /\ UNCHANGED <<sp, fn, arg, ul, uh, vl, vh>>
        /\ dm'[24] = dm[24] /\ dm'[22] = dm[22] /\ dm'[25] = dm[25]
    BY <1>7, <2>2, SameArguments DEF Goes
  <2>4. dm[24] = vl /\ dm[22] = ul /\ dm[25] = uh /\ dm[18] = n
    BY <1>7 DEF BitsAt, Given, Exchanged, Sets, n, t
  <2>5. Bits(dm'[18]) = Bits(n + 64)
    BY <1>n, <2>2, <2>4, UpperBits
  <2>6. dm'[18] = n + 64
    BY <1>n, <2>2, <2>5, SameBits
  <2>. QED
    BY <2>2, <2>3, <2>4, <2>6 DEF BitsAt, Given, Exchanged, Sets, n, t
<1>8. CASE pc = 8
  <2>1. I = RI("BST", 25, 0)
    BY <1>8, BitsProgram DEF I, Running
  <2>2. Goes({}) /\ (TBIT \in sreg' <=> Bit(dm[25], 0))
    BY <1>0, <2>1, BstRuns
  <2>3. /\ pc' = 9 /\ Running' /\ UNCHANGED <<sp, fn, arg, ul, uh, vl, vh>>
        /\ dm'[24] = dm[24] /\ dm'[22] = dm[22] /\ dm'[18] = dm[18]
    BY <1>8, <2>2, SameArguments DEF Goes
  <2>4. dm[24] = vl /\ dm[22] = ul /\ dm[25] = uh /\ dm[18] = n + 64
    BY <1>8 DEF BitsAt, Given, Exchanged, Sets, n, t
  <2>5. TBIT \in sreg' <=> uh % 2 = 1
    <3>1. 2^0 = 1 /\ uh \div 1 = uh
      BY Arguments
    <3>. QED
      BY <2>2, <2>4, <3>1 DEF Bit
  <2>. QED
    BY <2>2, <2>3, <2>4, <2>5 DEF BitsAt, Given, Exchanged, Sets, n, t
<1>9. CASE pc = 9
  <2>1. I = RI("BLD", 18, 7)
    BY <1>9, BitsProgram DEF I, Running
  <2>2. Goes({18}) /\ dm'[18] \in Byte
          /\ Bits(dm'[18]) = (Bits(dm[18]) \ {7}) \cup (IF TBIT \in sreg THEN {7} ELSE {})
    BY <1>0, <2>1, BldRuns
  <2>3. /\ pc' = 10 /\ Running' /\ UNCHANGED <<sp, fn, arg, ul, uh, vl, vh>>
        /\ dm'[24] = dm[24] /\ dm'[22] = dm[22]
    BY <1>9, <2>2, SameArguments DEF Goes
  <2>4. dm[24] = vl /\ dm[22] = ul /\ dm[18] = n + 64 /\ (TBIT \in sreg <=> t = 1)
    BY <1>9 DEF BitsAt, Given, Exchanged, Sets, n, t
  <2>5. Bits(dm'[18]) = Bits(n + 64 + 128 * t)
    <3>1. (IF TBIT \in sreg THEN {7} ELSE {}) = (IF t = 1 THEN {7} ELSE {})
      BY <2>4
    <3>. QED
      BY <1>n, <2>2, <2>4, <3>1, UpperBits
  <2>6. dm'[18] = n + 64 + 128 * t
    BY <1>n, <2>2, <2>5, SameBits
  <2>7. BitsExact'
    BY <2>3, <2>4, <2>6 DEF BitsExact, ul, uh, vl, n, t
  <2>. QED
    BY <2>3, <2>7 DEF BitsAt
<1>10. CASE pc = 10
  <2>1. I = RI("BCLR", 0, TBIT)
    BY <1>10, BitsProgram DEF I, Running
  <2>2. Goes({})
    BY <1>0, <2>1, BclrRuns
  <2>3. /\ pc' = 11 /\ Running' /\ UNCHANGED <<sp, fn, arg, ul, uh, vl, vh>>
        /\ dm'[24] = dm[24] /\ dm'[22] = dm[22] /\ dm'[18] = dm[18]
    BY <1>10, <2>2, SameArguments DEF Goes
  <2>4. BitsExact
    BY <1>10 DEF BitsAt, Given, Exchanged
  <2>5. BitsExact'
    BY <2>3, <2>4 DEF BitsExact, ul, uh, vl
  <2>. QED
    BY <2>3, <2>5 DEF BitsAt
<1>11. CASE pc = 11
  <2>1. I = Ret
    BY <1>11, BitsProgram DEF I, Running
  <2>2. Returns /\ UNCHANGED <<dm, sreg, pm, fn, arg>>
    BY <2>1, RetRuns
  <2>3. BitsExact
    BY <1>11 DEF BitsAt
  <2>4. (BitsExact)'
    BY <2>2, <2>3 DEF BitsExact, u, v
  <2>. QED
    BY <2>2, <2>4
<1>. QED
  BY <1>1, <1>2, <1>3, <1>4, <1>5, <1>6, <1>7, <1>8, <1>9, <1>10, <1>11 DEF BitsAt

-----------------------------------------------------------------------------
(* Memory, stack and control. *)

\* The data memory in use, SREG, which is outside of it, and the two I/O registers in it.
LEMMA Located ==
  /\ \A l \in Int : l \in Locs <=> (0 <= l /\ l <= 31) \/ l = 56 \/ l = 84 \/ (248 <= l /\ l <= 271)
  /\ \A l \in Locs : l \in Int /\ l # SREG
  /\ SREG = 95 /\ DOMAIN IoMask = {56, 84} /\ IoMask[56] = 0..7 /\ IoMask[84] = 0..3
<1>1. Locs = (0..31) \cup {56, 84} \cup (248..271)
  BY FirmwareSetup DEF FirmwareSetup, FirmwareLocs, Ram, Port, Ctrl
<1>2. SREG = 95 /\ DOMAIN IoMask = {56, 84} /\ IoMask[56] = 0..7 /\ IoMask[84] = 0..3
  BY FirmwareSetup DEF FirmwareSetup, Port, Ctrl
<1>3. \A l \in Int : l \in Locs <=> (0 <= l /\ l <= 31) \/ l = 56 \/ l = 84 \/ (248 <= l /\ l <= 271)
  BY <1>1
<1>4. \A l \in Locs : l \in Int /\ l # SREG
  BY <1>1, <1>2
<1>. QED
  BY <1>2, <1>3, <1>4

\* What an instruction leaves, wherever it goes: memory outside of D.
Leaves(D) == Running' /\ UNCHANGED <<fn, arg>> /\ \A l \in Locs \ D : dm'[l] = dm[l]
Moves(D, n)  == Leaves(D) /\ pc' = pc + 1 /\ sp' = n
GoesTo(n, D) == Leaves(D) /\ pc' = n /\ UNCHANGED sp

\* What is written below the caller's address leaves it there.
LEMMA FrameKept ==
  ASSUME Running, NEW D, \A l \in Locs \cap D : l <= Floor,
         dm' \in [Locs -> Byte], \A l \in Locs \ D : dm'[l] = dm[l],
         sreg' \subseteq 0..7, UNCHANGED <<pm, fn, arg>>
  PROVE  Leaves(D)
<1>1. Regs' /\ Loaded'
  BY DEF Running, Regs, Loaded
<1>2. ASSUME NEW i \in 1..PcBytes
      PROVE  dm'[Floor + i] = 0
  <2>1. Floor + i \in Locs /\ Floor + i > Floor
    BY Places
  <2>2. Floor + i \notin D
    BY <2>1, Places
  <2>. QED
    BY <2>1, <2>2 DEF Running
<1>. QED
  BY <1>1, <1>2 DEF Running, PcBytes, Floor, Leaves

\* One byte written.
LEMMA OneWritten ==
  ASSUME Running, NEW d \in Locs, d <= Floor, NEW n \in Byte, dm' = [dm EXCEPT ![d] = n],
         sreg' \subseteq 0..7, UNCHANGED <<pm, fn, arg>>
  PROVE  Leaves({d}) /\ dm'[d] = n
<1>1. dm' \in [Locs -> Byte] /\ dm'[d] = n /\ \A l \in Locs \ {d} : dm'[l] = dm[l]
  BY DEF Running, Regs
<1>. QED
  BY <1>1, FrameKept

\* Registers are below the stack.
LEMMA LowRegisters == \A d \in Reg : d \in Locs /\ d <= Floor /\ d \in Int
<1>1. Floor \in {268, 269} /\ Reg \subseteq Locs
  BY Places
<1>. QED
  BY <1>1 DEF Reg

\* PUSH and POP.
LEMMA PushRuns ==
  ASSUME Running, Next, NEW d \in Reg, I = R("PUSH", d), sp \in Locs, sp <= Floor
  PROVE  Moves({sp}, sp - 1) /\ dm'[sp] = dm[d] /\ UNCHANGED sreg
<1>1. I.op = "PUSH" /\ I.d = d
  BY DEF R, A
<1>2. ExecPushPop
  BY <1>1, Dispatch
<1>3. /\ dm' = [dm EXCEPT ![sp] = dm[d]] /\ sp' = sp - 1 /\ pc' = pc + 1
      /\ UNCHANGED <<sreg, pm, fn, arg>>
  BY <1>1, <1>2 DEF ExecPushPop, Advance, Keeps, Rd
<1>4. dm[d] \in Byte /\ sreg' \subseteq 0..7
  BY <1>3 DEF Running, Regs
<1>. QED
  BY <1>3, <1>4, OneWritten DEF Moves

\* POP.
LEMMA PopRuns ==
  ASSUME Running, Next, NEW d \in Reg, I = R("POP", d), sp + 1 \in Locs
  PROVE  Moves({d}, sp + 1) /\ dm'[d] = dm[sp + 1] /\ UNCHANGED sreg
<1>1. I.op = "POP" /\ I.d = d
  BY DEF R, A
<1>2. ExecPushPop
  BY <1>1, Dispatch
<1>3. /\ dm' = [dm EXCEPT ![d] = dm[sp + 1]] /\ sp' = sp + 1 /\ pc' = pc + 1
      /\ UNCHANGED <<sreg, pm, fn, arg>>
  BY <1>1, <1>2 DEF ExecPushPop, Advance, Keeps
<1>4. dm[sp + 1] \in Byte /\ sreg' \subseteq 0..7
  BY <1>3 DEF Running, Regs
<1>. QED
  BY <1>3, <1>4, OneWritten, LowRegisters DEF Moves

\* The bytes of a small address on the stack.
LEMMA SmallAddress == \A a \in Byte : \A i \in 0..2 : (a \div 256^i) % 256 = IF i = 0 THEN a ELSE 0
<1>1. \A a \in Byte : /\ (a \div 1) % 256 = a /\ (a \div 256) % 256 = 0
                      /\ (a \div 65536) % 256 = 0
  BY DEF Byte
<1>. DEFINE e(i) == 256^i
<1>2. e(0) = 1 /\ e(1) = 256 /\ e(2) = 65536
  OBVIOUS
<1>. HIDE DEF e
<1>3. ASSUME NEW a \in Byte, NEW i \in 0..2
      PROVE  (a \div e(i)) % 256 = IF i = 0 THEN a ELSE 0
  <2>1. CASE i = 0
    BY <1>1, <1>2, <2>1
  <2>2. CASE i = 1
    BY <1>1, <1>2, <2>2
  <2>3. CASE i = 2
    BY <1>1, <1>2, <2>3
  <2>. QED
    BY <2>1, <2>2, <2>3
<1>. QED
  BY <1>3 DEF e

\* Address a lies on the stack; below it, sp was s before the call.
CalledFrom(a, s) == /\ sp = s - PcBytes
                    /\ \A i \in 1..PcBytes : dm[sp + i] = IF i = PcBytes THEN a ELSE 0
Pushed(s) == {l \in Locs : s - PcBytes < l /\ l <= s}

\* RCALL, CALL and ICALL leave the address of the next instruction on the stack.
LEMMA CallingRuns ==
  ASSUME Running, Next, NEW s \in 260..Floor, sp = s, NEW a \in Byte, NEW t,
         \/ \E k : I = RI("RCALL", 0, k) /\ t = pc + k + 1 /\ a = pc + 1
         \/ I = N("CALL") /\ pm[pc + 1] = Data(t) /\ a = pc + 2
         \/ I = N("ICALL") /\ t = Word(30) /\ a = pc + 1
  PROVE  Leaves(Pushed(s)) /\ pc' = t /\ CalledFrom(a, s)' /\ UNCHANGED sreg
<1>1. I.op \in {"RCALL", "CALL", "ICALL"}
  BY DEF RI, N, A
<1>2. ExecCall
  BY <1>1, Dispatch
<1>3. pc' = t /\ dm' = PushPc(dm, sp, a)
  <2>1. CASE \E k : I = RI("RCALL", 0, k) /\ t = pc + k + 1 /\ a = pc + 1
    <3>1. I.op = "RCALL" /\ t = pc + I.k + 1 /\ a = pc + 1
      BY <2>1 DEF RI, A
    <3>. QED
      BY <1>2, <3>1 DEF ExecCall
  <2>2. CASE I = N("CALL") /\ pm[pc + 1] = Data(t) /\ a = pc + 2
    <3>1. I.op = "CALL" /\ Second = t
      BY <2>2 DEF N, A, Data, Second
    <3>. QED
      BY <1>2, <2>2, <3>1 DEF ExecCall
  <2>3. CASE I = N("ICALL") /\ t = Word(30) /\ a = pc + 1
    <3>1. I.op = "ICALL"
      BY <2>3 DEF N, A
    <3>. QED
      BY <1>2, <2>3, <3>1 DEF ExecCall
  <2>. QED
    BY <2>1, <2>2, <2>3
<1>4. sp' = s - PcBytes /\ UNCHANGED <<sreg, pm, fn, arg>>
  BY <1>2 DEF ExecCall, Keeps
<1>. DEFINE S == (s - PcBytes + 1)..s
            b(l) == (a \div 256^(s - l)) % 256
<1>5. ASSUME NEW l \in S
      PROVE  b(l) = (IF l = s THEN a ELSE 0) /\ l \in Locs
  <2>1. l \in Int /\ 248 <= l /\ l <= 271
    BY Places
  <2>2. PICK i \in 0..2 : i = s - l
    BY Places
  <2>3. b(l) = (a \div 256^i) % 256
    BY <2>2
  <2>4. i = 0 <=> l = s
    BY <2>1, <2>2
  <2>. HIDE DEF b
  <2>5. (a \div 256^i) % 256 = IF i = 0 THEN a ELSE 0
    BY SmallAddress, ZenonT(60)
  <2>6. b(l) = IF i = 0 THEN a ELSE 0
    BY <2>3, <2>5, Zenon
  <2>. QED
    BY <2>1, <2>4, <2>6, Located
<1>6. dm' = [l \in Locs |-> IF l \in S THEN b(l) ELSE dm[l]]
  BY <1>3 DEF PushPc, Running, Regs
<1>. HIDE DEF b
<1>7. dm' = [l \in Locs |-> IF l \in S THEN (IF l = s THEN a ELSE 0) ELSE dm[l]]
  BY <1>5, <1>6
<1>8. dm' \in [Locs -> Byte]
  <2>1. 0 \in Byte
    BY DEF Byte
  <2>. HIDE DEF S
  <2>. QED
    BY <1>7, <2>1 DEF Running, Regs
<1>9. \A l \in Locs : l \in S <=> l \in Pushed(s)
  BY Located, Places DEF Pushed
<1>10. \A l \in Locs \ Pushed(s) : dm'[l] = dm[l]
  BY <1>7, <1>9
<1>11. Leaves(Pushed(s))
  <2>1. sreg' \subseteq 0..7
    BY <1>4 DEF Running, Regs
  <2>2. \A l \in Locs \cap Pushed(s) : l <= Floor
    BY Located, Places DEF Pushed
  <2>. QED
    BY <1>4, <1>8, <1>10, <2>1, <2>2, FrameKept
<1>12. \A i \in 1..PcBytes : dm'[s - PcBytes + i] = IF i = PcBytes THEN a ELSE 0
  <2>1. \A i \in 1..PcBytes : s - PcBytes + i \in S /\ (i = PcBytes <=> s - PcBytes + i = s)
    BY Places
  <2>. HIDE DEF S
  <2>. QED
    BY <1>5, <1>7, <2>1
<1>. QED
  BY <1>3, <1>4, <1>11, <1>12 DEF CalledFrom, PcBytes

\* RET finds the address that was left, and RETI the caller's; it enables interrupts.
LEMMA ReturnRuns ==
  ASSUME Running, Next, NEW a \in Int, NEW s \in Int, CalledFrom(a, s), I = Ret
  PROVE  Leaves({}) /\ pc' = a /\ sp' = s /\ UNCHANGED <<dm, sreg>>
<1>1. I.op = "RET"
  BY DEF Ret, N, A
<1>2. ExecRet
  BY <1>1, Dispatch
<1>3. PoppedPc = a
  BY Places DEF PoppedPc, CalledFrom
<1>4. sp + PcBytes = s
  BY Places DEF CalledFrom
<1>5. pc' = a /\ sp' = s /\ UNCHANGED <<dm, sreg, pm, fn, arg>>
  BY <1>1, <1>2, <1>3, <1>4 DEF ExecRet, Keeps
<1>6. Running'
  BY <1>5 DEF Running, Loaded, Regs, PcBytes, Floor
<1>. QED
  BY <1>5, <1>6 DEF Leaves

\* RETI returns and enables the interrupts.
LEMMA RetiRuns ==
  ASSUME Running, Level, Next, I = N("RETI")
  PROVE  Returns /\ sreg' = sreg \cup {GLOBINT} /\ UNCHANGED <<dm, pm, fn, arg>>
<1>1. I.op = "RETI"
  BY DEF N, A
<1>2. ExecRet
  BY <1>1, Dispatch
<1>3. PoppedPc = 0 /\ sp + PcBytes = StackTop
  BY Places DEF PoppedPc, Running, Level
<1>. QED
  BY <1>1, <1>2, <1>3 DEF ExecRet, Keeps, Returns, RetiSreg

\* JMP, IJMP, WDR and NOP.
LEMMA JmpRuns ==
  ASSUME Running, Next, NEW n,
         \/ I = N("JMP") /\ pm[pc + 1] = Data(n)
         \/ I = N("IJMP") /\ n = Word(30)
         \/ I = N("WDR") /\ n = pc + 1
         \/ I = N("NOP") /\ n = pc + 1
  PROVE  Jumps(n)
<1>1. CASE I = N("JMP") /\ pm[pc + 1] = Data(n)
  <2>1. I.op = "JMP" /\ Second = n
    BY <1>1 DEF N, Data, A, Second
  <2>2. ExecJump
    BY <2>1, Dispatch
  <2>3. UNCHANGED <<dm, sreg, sp, pm, fn, arg>> /\ pc' = n
    BY <2>1, <2>2 DEF ExecJump, NoResult, Keeps
  <2>. QED
    BY <2>3, JumpKeeps DEF Jumps
<1>2. CASE I = N("IJMP") /\ n = Word(30)
  <2>1. I.op = "IJMP"
    BY <1>2 DEF N, A
  <2>2. ExecJump
    BY <2>1, Dispatch
  <2>3. UNCHANGED <<dm, sreg, sp, pm, fn, arg>> /\ pc' = n
    BY <1>2, <2>1, <2>2 DEF ExecJump, NoResult, Keeps
  <2>. QED
    BY <2>3, JumpKeeps DEF Jumps
<1>3. CASE (I = N("WDR") \/ I = N("NOP")) /\ n = pc + 1
  <2>1. I.op \in {"NOP", "WDR"}
    BY <1>3 DEF N, A
  <2>2. ExecNothing
    BY <2>1, Dispatch
  <2>3. UNCHANGED <<dm, sreg, sp, pm, fn, arg>> /\ pc' = n
    BY <1>3, <2>2 DEF ExecNothing, NoResult, Keeps, Advance
  <2>. QED
    BY <2>3, JumpKeeps DEF Jumps
<1>. QED
  BY <1>1, <1>2, <1>3

\* CPSE, SBRC and SBRS skip the whole instruction behind them, of one word or two.
LEMMA SkipRuns ==
  ASSUME Running, Next, NEW skips \in BOOLEAN,
         \/ \E d, r \in Reg : I = RR("CPSE", d, r) /\ (skips <=> dm[d] = dm[r])
         \/ \E d \in Reg : \E k : I = RI("SBRC", d, k) /\ (skips <=> ~Bit(dm[d], k))
         \/ \E d \in Reg : \E k : I = RI("SBRS", d, k) /\ (skips <=> Bit(dm[d], k))
  PROVE  /\ ~skips => Jumps(pc + 1)
         /\ skips /\ pm[pc + 1].op \in TwoWords => Jumps(pc + 3)
         /\ skips /\ pm[pc + 1].op \notin TwoWords => Jumps(pc + 2)
<1>1. I.op \in {"CPSE", "SBRC", "SBRS"}
  BY DEF RR, RI, A
<1>2. ExecSkip
  BY <1>1, Dispatch
<1>3. UNCHANGED <<dm, sreg, sp, pm, fn, arg>>
  BY <1>2 DEF ExecSkip, NoResult, Keeps
<1>4. pc' = pc + (IF skips THEN Skip ELSE 1)
  <2>1. CASE \E d, r \in Reg : I = RR("CPSE", d, r) /\ (skips <=> dm[d] = dm[r])
    <3>1. I.op = "CPSE" /\ (skips <=> Rd = Rr)
      BY <2>1 DEF RR, A, Rd, Rr
    <3>. QED
      BY <1>2, <3>1 DEF ExecSkip
  <2>2. CASE \E d \in Reg : \E k : I = RI("SBRC", d, k) /\ (skips <=> ~Bit(dm[d], k))
    <3>1. I.op = "SBRC" /\ (skips <=> ~Bit(Rd, I.k))
      BY <2>2 DEF RI, A, Rd
    <3>. QED
      BY <1>2, <3>1 DEF ExecSkip
  <2>3. CASE \E d \in Reg : \E k : I = RI("SBRS", d, k) /\ (skips <=> Bit(dm[d], k))
    <3>1. I.op = "SBRS" /\ (skips <=> Bit(Rd, I.k))
      BY <2>3 DEF RI, A, Rd
    <3>. QED
      BY <1>2, <3>1 DEF ExecSkip
  <2>. QED
    BY <2>1, <2>2, <2>3
<1>. QED
  BY <1>3, <1>4, JumpKeeps DEF Jumps, Skip

\* SBIS and SBIC: pc moves on by two words, whichever the condition, when one word follows.
LEMMA SbisRuns ==
  ASSUME Running, Next, NEW b, NEW k, I = A("SBIS", 0, b, k) \/ I = A("SBIC", 0, b, k),
         pm[pc + 1].op \notin TwoWords
  PROVE  Jumps(pc + 2)
<1>1. I.op \in {"SBIS", "SBIC"}
  BY DEF A
<1>2. ExecSbisSbic
  BY <1>1, Dispatch
<1>3. UNCHANGED <<dm, sreg, sp, pm, fn, arg>> /\ pc' = pc + 2
  BY <1>2 DEF ExecSbisSbic, NoResult, Keeps, Skip
<1>. QED
  BY <1>3, JumpKeeps DEF Jumps

\* With a condition that holds they skip one instruction, of one word or two.
LEMMA SbisSkips ==
  ASSUME Running, Next, NEW b, NEW k,
         \/ I = A("SBIS", 0, b, k) /\ Bit(dm[k], b)
         \/ I = A("SBIC", 0, b, k) /\ dm[k] # 2^b
  PROVE  /\ pm[pc + 1].op \in TwoWords => Jumps(pc + 3)
         /\ pm[pc + 1].op \notin TwoWords => Jumps(pc + 2)
<1>1. /\ I.op \in {"SBIS", "SBIC"}
      /\ \/ I.op = "SBIS" /\ Bit(dm[I.k], I.r)
         \/ I.op = "SBIC" /\ dm[I.k] # 2^I.r
  BY DEF A
<1>2. ExecSbisSbic
  BY <1>1, Dispatch
<1>3. UNCHANGED <<dm, sreg, sp, pm, fn, arg>> /\ pc' = pc + Skip
  BY <1>1, <1>2 DEF ExecSbisSbic, NoResult, Keeps
<1>. QED
  BY <1>3, JumpKeeps DEF Jumps, Skip

-----------------------------------------------------------------------------
(* Words, products, memory and I/O registers. *)

\* MOVW copies two registers.
LEMMA MovwRuns ==
  ASSUME Running, Next, NEW d, NEW r, Pair(d), Pair(r), I = RR("MOVW", d, r)
  PROVE  Goes({d, d + 1}) /\ dm'[d] = dm[r] /\ dm'[d + 1] = dm[r + 1] /\ UNCHANGED sreg
<1>1. I.op = "MOVW" /\ I.d = d /\ I.r = r
  BY DEF RR, A
<1>2. ExecMove
  BY <1>1, Dispatch
<1>3. /\ dm' = [dm EXCEPT ![d] = dm[r], ![d + 1] = dm[r + 1]] /\ pc' = pc + 1
      /\ UNCHANGED <<sp, sreg, pm, fn, arg>>
  BY <1>1, <1>2 DEF ExecMove, Advance, Keeps, Rr
<1>4. dm[r] \in Byte /\ dm[r + 1] \in Byte
  BY DEF Pair, Running, Regs
<1>5. GoesOn
  BY <1>3 DEF GoesOn, Running, Regs
<1>. QED
  BY <1>3, <1>4, <1>5, WordGoes

\* What MUL, MULS and MULSU take for the product of two registers.
Factors(op, x, y) == CASE op = "MUL"   -> x * y
                       [] op = "MULS"  -> Signed(x) * Signed(y)
                       [] op = "MULSU" -> Signed(x) * y

\* The low and the high byte of any number.
LEMMA LowHigh == \A n \in Int : Low(n) \in Byte /\ High(n) \in Byte
<1>1. \A n \in Int : Low(n) \in Byte
  BY DEF Low, Byte
<1>2. ASSUME NEW n \in Int
      PROVE  High(n) \in Byte
  <2>1. n \div 256 \in Int
    OBVIOUS
  <2>2. \A k \in Int : k % 256 \in 0..255
    OBVIOUS
  <2>. QED
    BY <2>1, <2>2 DEF High, Byte
<1>. QED
  BY <1>1, <1>2

\* Products: r1:r0 and CARRY.
LEMMA MulRuns ==
  ASSUME Running, Next, NEW op \in {"MUL", "MULS", "MULSU"}, NEW d \in Reg, NEW r \in Reg,
         I = RR(op, d, r), NEW p, p = Factors(op, dm[d], dm[r]), p \in Int
  PROVE  /\ Goes({0, 1}) /\ dm'[0] = Low(p) /\ dm'[1] = High(p)
         /\ CARRY \in sreg' <=> Top15(p)
<1>1. I.op = op /\ I.d = d /\ I.r = r
  BY DEF RR, A
<1>2. ExecMul
  BY <1>1, Dispatch
<1>3. Product = p
  BY <1>1 DEF Product, Factors, Rd, Rr
<1>4. /\ dm' = [dm EXCEPT ![0] = Low(p), ![1] = High(p)]
      /\ sreg' = (sreg \ {CARRY, ZERO}) \cup (On(Top15(p), CARRY) \cup On(p = 0, ZERO))
      /\ pc' = pc + 1 /\ UNCHANGED <<sp, pm, fn, arg>>
  BY <1>2, <1>3 DEF ExecMul, MulFlags, UpdSr, Advance, Keeps
<1>5. sreg' \subseteq 0..7 /\ (CARRY \in sreg' <=> Top15(p))
  <2>. DEFINE t == Top15(p)
              z == p = 0
  <2>1. sreg' = (sreg \ {CARRY, ZERO}) \cup (On(t, CARRY) \cup On(z, ZERO)) /\ sreg \subseteq 0..7
    BY <1>4 DEF Running, Regs
  <2>. HIDE DEF t, z
  <2>2. sreg' \subseteq 0..7 /\ (CARRY \in sreg' <=> t)
    BY <2>1 DEF On, CARRY, ZERO
  <2>. QED
    BY <2>2 DEF t
<1>6. Low(p) \in Byte /\ High(p) \in Byte
  BY LowHigh
<1>7. GoesOn
  BY <1>4, <1>5 DEF GoesOn
<1>8. Pair(0) /\ 0 + 1 = 1
  BY DEF Pair, Reg
<1>9. Goes({0, 0 + 1}) /\ dm'[0] = Low(p) /\ dm'[0 + 1] = High(p)
  <2>1. dm' = [dm EXCEPT ![0] = Low(p), ![0 + 1] = High(p)]
    BY <1>4, <1>8
  <2>. HIDE DEF Low, High
  <2>. QED
    BY <1>6, <1>7, <1>8, <2>1, WordGoes
<1>. QED
  BY <1>5, <1>8, <1>9

\* FMUL: four bits in each byte.
LEMMA FmulRuns ==
  ASSUME Running, Next, NEW d \in Reg, NEW r \in Reg, I = RR("FMUL", d, r)
  PROVE  Goes({0, 1})
<1>1. I.op = "FMUL" /\ I.d = d /\ I.r = r
  BY DEF RR, A
<1>2. ExecFmul
  BY <1>1, Dispatch
<1>. DEFINE p == dm[d] * dm[r]
            a == (2 * p) % 16
            b == (p \div 128) % 16
<1>3. Product = p
  BY <1>1 DEF Product, Rd, Rr
<1>4. /\ dm' = [dm EXCEPT ![0] = a, ![1] = b]
      /\ sreg' = (sreg \ {CARRY, ZERO}) \cup (On(Top15(p), CARRY) \cup On(p = 0, ZERO))
      /\ pc' = pc + 1 /\ UNCHANGED <<sp, pm, fn, arg>>
  BY <1>2, <1>3 DEF ExecFmul, MulFlags, UpdSr, Advance, Keeps
<1>5. sreg' \subseteq 0..7
  <2>. DEFINE t == Top15(p)
              z == p = 0
  <2>1. sreg' = (sreg \ {CARRY, ZERO}) \cup (On(t, CARRY) \cup On(z, ZERO)) /\ sreg \subseteq 0..7
    BY <1>4 DEF Running, Regs
  <2>. HIDE DEF t, z
  <2>. QED
    BY <2>1 DEF On, CARRY, ZERO
<1>6. a \in Byte /\ b \in Byte
  <2>1. p \in Int
    BY RegisterTypes
  <2>. HIDE DEF p
  <2>2. 2 * p \in Int /\ p \div 128 \in Int
    BY <2>1
  <2>3. \A n \in Int : n % 16 \in Byte
    BY DEF Byte
  <2>. QED
    BY <2>2, <2>3
<1>7. GoesOn
  BY <1>4, <1>5 DEF GoesOn
<1>8. Pair(0) /\ 0 + 1 = 1
  BY DEF Pair, Reg
<1>9. Goes({0, 0 + 1})
  <2>1. dm' = [dm EXCEPT ![0] = a, ![0 + 1] = b]
    BY <1>4, <1>8
  <2>. HIDE DEF a, b
  <2>. QED
    BY <1>6, <1>7, <1>8, <2>1, WordGoes
<1>. QED
  BY <1>8, <1>9

\* DEC: the previous byte; ZERO after 1.
LEMMA DecRuns ==
  ASSUME Running, Next, NEW d \in Reg, I = R("DEC", d)
  PROVE  /\ Goes({d}) /\ dm'[d] = (IF dm[d] = 0 THEN 255 ELSE dm[d] - 1)
         /\ ZERO \in sreg' <=> dm'[d] = 0
<1>1. I.op = "DEC" /\ I.d = d
  BY DEF R, A
<1>2. ExecIncDec
  BY <1>1, Dispatch
<1>. DEFINE x == dm[d]
            q == Low(x - 1)
            ne == Bit(q, 7)
            ov == x = 128
            ze == q = 0
<1>3. Rd = x /\ x \in Byte
  BY <1>1 DEF Rd, Running, Regs
<1>4. q \in Byte /\ q = IF x = 0 THEN 255 ELSE x - 1
  <2>1. PICK n \in (-256)..511 : n = x - 1 /\ n >= -1 /\ n <= 255
    BY <1>3 DEF Byte
  <2>2. n % 256 \in Byte /\ n % 256 = IF n = -1 THEN 255 ELSE n
    BY <1>3, <2>1, LowOfSum DEF Byte
  <2>. QED
    BY <1>3, <2>1, <2>2 DEF Low, Byte
<1>5. /\ dm' = [dm EXCEPT ![d] = q] /\ pc' = pc + 1 /\ UNCHANGED <<sp, pm, fn, arg>>
      /\ sreg' = (sreg \ ({ZERO} \cup NVS)) \cup (On(ze, ZERO) \cup NegV(ne, ov))
  BY <1>1, <1>2, <1>3 DEF ExecIncDec, Result, UpdSr, Advance, Keeps, DecFlags
<1>6. ne \in BOOLEAN /\ ov \in BOOLEAN /\ ze \in BOOLEAN
  BY DEF Bit
<1>7. sreg' \subseteq 0..7 /\ (ZERO \in sreg' <=> ze)
  <2>. HIDE DEF ne, ov, ze
  <2>1. sreg \in SUBSET (0..7)
    BY DEF Running, Regs
  <2>. QED
    BY <1>5, <1>6, <2>1, ZeroFlag
<1>8. Stores(d, q)
  BY <1>4, <1>5, <1>7 DEF Stores, GoesOn
<1>9. Goes({d}) /\ dm'[d] = q
  BY <1>8, StoreGoes
<1>. QED
  BY <1>4, <1>7, <1>9

\* BSET leaves registers alone.
LEMMA BsetRuns ==
  ASSUME Running, Next, NEW k \in 0..7, I = RI("BSET", 0, k)
  PROVE  Goes({})
<1>1. I.op = "BSET" /\ I.k = k
  BY DEF RI, A
<1>2. ExecBitFlag
  BY <1>1, Dispatch
<1>3. sreg' = (sreg \ {}) \cup {I.k}
  BY <1>1, <1>2 DEF ExecBitFlag, UpdSr
<1>4. dm' = dm /\ GoesOn
  BY <1>1, <1>2, <1>3 DEF ExecBitFlag, NoResult, Advance, Keeps, GoesOn, Running, Regs
<1>. QED
  BY <1>4, TestGoes

\* IN: SREG and the other I/O registers.
LEMMA InRuns ==
  ASSUME Running, Next, NEW d \in Reg, NEW k, I = RI("IN", d, k), k = SREG \/ k \in Locs
  PROVE  /\ Goes({d}) /\ UNCHANGED sreg
         /\ k = SREG => dm'[d] = ByteOf(sreg)
         /\ k \in Locs => dm'[d] = dm[k]
<1>1. I.op = "IN" /\ I.d = d /\ I.k = k
  BY DEF RI, A
<1>2. ExecInOut
  BY <1>1, Dispatch
<1>. DEFINE n == At(dm, k)
<1>3. n \in Byte /\ (k = SREG => n = ByteOf(sreg)) /\ (k \in Locs => n = dm[k])
  <2>1. ByteOf(sreg) \in Byte
    BY BitsOfByteOf DEF Running, Regs
  <2>2. \A l \in Locs : l # SREG
    BY Located
  <2>. QED
    BY <2>1, <2>2 DEF At, Running, Regs
<1>4. dm' = [dm EXCEPT ![d] = n] /\ pc' = pc + 1 /\ UNCHANGED <<sp, sreg, pm, fn, arg>>
  BY <1>1, <1>2 DEF ExecInOut, Advance, Keeps
<1>5. Stores(d, n)
  BY <1>3, <1>4 DEF Stores, GoesOn, Running, Regs
<1>. QED
  BY <1>3, <1>4, <1>5, StoreGoes

\* OUT to SREG.
LEMMA OutSregRuns ==
  ASSUME Running, Next, NEW d \in Reg, I = RI("OUT", d, SREG)
  PROVE  Goes({}) /\ sreg' = Bits(dm[d])
<1>1. I.op = "OUT" /\ I.d = d /\ I.k = SREG
  BY DEF RI, A
<1>2. ExecInOut
  BY <1>1, Dispatch
<1>3. SREG \notin DOMAIN IoMask
  BY Located
<1>4. dm' = dm /\ sreg' = Bits(dm[d]) /\ pc' = pc + 1 /\ UNCHANGED <<sp, pm, fn, arg>>
  BY <1>1, <1>2, <1>3 DEF ExecInOut, Advance, Keeps, Written, SregWritten, Rd
<1>5. GoesOn
  BY <1>4 DEF GoesOn, Bits
<1>. QED
  BY <1>4, <1>5, TestGoes

\* What is written to an I/O register goes to its writable bits.
LEMMA MaskedBits ==
  ASSUME NEW k \in {56, 84}, NEW o, NEW n
  PROVE  /\ Masked(k, o, n) \in Byte
         /\ Bits(Masked(k, o, n)) = (Bits(o) \ IoMask[k]) \cup (Bits(n) \cap IoMask[k])
<1>. DEFINE S == (Bits(o) \ IoMask[k]) \cup (Bits(n) \cap IoMask[k])
<1>1. S \in SUBSET (0..7)
  BY DEF Bits
<1>2. Masked(k, o, n) = ByteOf(S)
  BY DEF Masked
<1>. HIDE DEF S
<1>3. ByteOf(S) \in Byte /\ Bits(ByteOf(S)) = S
  BY <1>1, BitsOfByteOf
<1>. QED
  BY <1>2, <1>3 DEF S

\* A write to an I/O register changes the bits of its mask.
LEMMA MaskedWritten ==
  ASSUME Running, NEW k \in {56, 84}, NEW n, dm' = Written(dm, k, n), GoesOn
  PROVE  /\ Goes({k}) /\ dm'[k] \in Byte
         /\ Bits(dm'[k]) = (Bits(dm[k]) \ IoMask[k]) \cup (Bits(n) \cap IoMask[k])
<1>1. dm' = [dm EXCEPT ![k] = Masked(k, dm[k], n)]
  BY Located DEF Written
<1>2. /\ Masked(k, dm[k], n) \in Byte
      /\ Bits(Masked(k, dm[k], n)) = (Bits(dm[k]) \ IoMask[k]) \cup (Bits(n) \cap IoMask[k])
  BY MaskedBits
<1>3. k \in Locs /\ k <= Floor
  BY Located, Places
<1>4. dm' \in [Locs -> Byte] /\ dm'[k] = Masked(k, dm[k], n) /\ \A l \in Locs \ {k} : dm'[l] = dm[l]
  BY <1>1, <1>2, <1>3 DEF Running, Regs
<1>5. Leaves({k})
  <2>1. sreg' \subseteq 0..7 /\ UNCHANGED <<pm, fn, arg>>
    BY DEF GoesOn
  <2>. QED
    BY <1>3, <1>4, <2>1, FrameKept
<1>. QED
  BY <1>2, <1>4, <1>5 DEF Leaves, Goes, GoesOn

\* OUT, SBI and CBI.
LEMMA OutRuns ==
  ASSUME Running, Next, NEW d \in Reg, NEW k \in {56, 84}, I = RI("OUT", d, k)
  PROVE  /\ Goes({k}) /\ dm'[k] \in Byte
         /\ Bits(dm'[k]) = (Bits(dm[k]) \ IoMask[k]) \cup (Bits(dm[d]) \cap IoMask[k])
<1>1. I.op = "OUT" /\ I.d = d /\ I.k = k
  BY DEF RI, A
<1>2. ExecInOut
  BY <1>1, Dispatch
<1>3. dm' = Written(dm, k, dm[d]) /\ sreg' = sreg /\ pc' = pc + 1 /\ UNCHANGED <<sp, pm, fn, arg>>
  BY <1>1, <1>2, Located DEF ExecInOut, Advance, Keeps, SregWritten, Rd
<1>4. GoesOn
  BY <1>3 DEF GoesOn, Running, Regs
<1>. QED
  BY <1>3, <1>4, MaskedWritten

\* SBI and CBI set and clear one bit of a register that can be written.
LEMMA SbiRuns ==
  ASSUME Running, Next, NEW b \in 0..7,
         I = A("SBI", 0, b, 56) \/ I = A("CBI", 0, b, 56)
  PROVE  /\ Goes({56}) /\ dm'[56] \in Byte
         /\ I = A("SBI", 0, b, 56) => Bits(dm'[56]) = Bits(dm[56]) \cup {b}
         /\ I = A("CBI", 0, b, 56) => Bits(dm'[56]) = Bits(dm[56]) \ {b}
<1>1. I.op \in {"SBI", "CBI"} /\ I.r = b /\ I.k = 56
  BY DEF A
<1>2. ExecSbiCbi
  BY <1>1, Dispatch
<1>. DEFINE S == IF I.op = "SBI" THEN Bits(dm[56]) \cup {b} ELSE Bits(dm[56]) \ {b}
            n == ByteOf(S)
<1>3. Bits(n) = S /\ S \subseteq 0..7
  <2>1. S \in SUBSET (0..7)
    BY DEF Bits
  <2>. HIDE DEF S
  <2>. QED
    BY <2>1, BitsOfByteOf
<1>4. dm' = Written(dm, 56, n) /\ sreg' = sreg /\ pc' = pc + 1 /\ UNCHANGED <<sp, pm, fn, arg>>
  BY <1>1, <1>2 DEF ExecSbiCbi, Advance, Keeps
<1>5. GoesOn
  BY <1>4 DEF GoesOn, Running, Regs
<1>. HIDE DEF n
<1>6. Goes({56}) /\ dm'[56] \in Byte
      /\ Bits(dm'[56]) = (Bits(dm[56]) \ IoMask[56]) \cup (Bits(n) \cap IoMask[56])
  BY <1>4, <1>5, MaskedWritten
<1>7. Bits(dm'[56]) = S
  BY <1>3, <1>6, Located DEF Bits
<1>8. I = A("SBI", 0, b, 56) => I.op = "SBI"
  BY DEF A
<1>9. I = A("CBI", 0, b, 56) => I.op = "CBI"
  BY DEF A
<1>. QED
  BY <1>6, <1>7, <1>8, <1>9

-----------------------------------------------------------------------------
(* Loads and stores. *)

\* Memory that a routine may write: below the caller's address, and neither a register
\* nor an I/O register.
Store == {l \in Ram : l <= Floor}

\* The cells that a routine stores to are neither registers nor I/O registers.
LEMMA StoreCells == \A l \in Store : /\ l \in Locs /\ l <= Floor /\ l \in Int /\ l >= 248
                                     /\ l # SREG /\ l \notin DOMAIN IoMask /\ l \notin Reg
<1>1. \A l \in Store : l \in Int /\ 248 <= l /\ l <= 271 /\ l <= Floor
  BY DEF Store, Ram
<1>. QED
  BY <1>1, Located DEF Reg

\* STS and LDS take the address from the second word.
LEMMA StsRuns ==
  ASSUME Running, Next, NEW d \in Reg, I = R("STS", d), NEW a \in Store, pm[pc + 1] = Data(a)
  PROVE  GoesTo(pc + 2, {a}) /\ dm'[a] = dm[d]
<1>1. I.op = "STS" /\ I.d = d /\ Second = a
  BY DEF R, A, Data, Second
<1>2. ExecLdsSts
  BY <1>1, Dispatch
<1>3. /\ dm' = [dm EXCEPT ![a] = dm[d]] /\ pc' = pc + 2 /\ sreg' = sreg
      /\ UNCHANGED <<sp, pm, fn, arg>>
  BY <1>1, <1>2, StoreCells DEF ExecLdsSts, Keeps, Written, SregWritten, Rd
<1>4. dm[d] \in Byte /\ sreg' \subseteq 0..7
  BY <1>3 DEF Running, Regs
<1>. QED
  BY <1>3, <1>4, OneWritten, StoreCells DEF GoesTo

\* LDS loads from them.
LEMMA LdsRuns ==
  ASSUME Running, Next, NEW d \in Reg, I = R("LDS", d), NEW a \in Locs, pm[pc + 1] = Data(a)
  PROVE  GoesTo(pc + 2, {d}) /\ dm'[d] = dm[a]
<1>1. I.op = "LDS" /\ I.d = d /\ Second = a
  BY DEF R, A, Data, Second
<1>2. ExecLdsSts
  BY <1>1, Dispatch
<1>3. /\ dm' = [dm EXCEPT ![d] = dm[a]] /\ pc' = pc + 2 /\ sreg' = sreg
      /\ UNCHANGED <<sp, pm, fn, arg>>
  BY <1>1, <1>2, Located DEF ExecLdsSts, Keeps, At
<1>4. dm[a] \in Byte /\ sreg' \subseteq 0..7
  BY <1>3 DEF Running, Regs
<1>. QED
  BY <1>3, <1>4, OneWritten, LowRegisters DEF GoesTo

\* LDD and STD with a displacement.
LEMMA LdRuns ==
  ASSUME Running, Next, NEW d \in Reg, NEW p, NEW k, I = A("LD", d, p, k),
         NEW a \in Locs, a = Word(p) + k
  PROVE  Goes({d}) /\ dm'[d] = dm[a]
<1>1. I.op = "LD" /\ I.d = d /\ I.r = p /\ I.k = k
  BY DEF A
<1>2. ExecLd
  BY <1>1, Dispatch
<1>3. /\ dm' = [dm EXCEPT ![d] = dm[a]] /\ pc' = pc + 1 /\ sreg' = sreg
      /\ UNCHANGED <<sp, pm, fn, arg>>
  BY <1>1, <1>2, Located DEF ExecLd, Keeps, At, Advance
<1>4. dm[a] \in Byte /\ sreg' \subseteq 0..7
  BY <1>3 DEF Running, Regs
<1>. QED
  BY <1>3, <1>4, OneWritten, LowRegisters DEF Goes, Leaves

\* ST stores through a pointer.
LEMMA StRuns ==
  ASSUME Running, Next, NEW d \in Reg, NEW p, NEW k, I = A("ST", d, p, k),
         NEW a \in Store, a = Word(p) + k
  PROVE  Goes({a}) /\ dm'[a] = dm[d]
<1>1. I.op = "ST" /\ I.d = d /\ I.r = p /\ I.k = k
  BY DEF A
<1>2. ExecSt
  BY <1>1, Dispatch
<1>3. /\ dm' = [dm EXCEPT ![a] = dm[d]] /\ pc' = pc + 1 /\ sreg' = sreg
      /\ UNCHANGED <<sp, pm, fn, arg>>
  BY <1>1, <1>2, StoreCells DEF ExecSt, Keeps, Written, SregWritten, Rd, Advance
<1>4. dm[d] \in Byte /\ sreg' \subseteq 0..7
  BY <1>3 DEF Running, Regs
<1>5. a \in Locs /\ a <= Floor
  BY StoreCells
<1>6. Leaves({a}) /\ dm'[a] = dm[d]
  BY <1>3, <1>4, <1>5, OneWritten
<1>. QED
  BY <1>3, <1>6 DEF Goes, Leaves

\* A byte and a pointer written: the pointer is the next or the previous address.
Points(c, n, p, a) == /\ GoesOn
                      /\ \/ dm' = SetPointer([dm EXCEPT ![c] = n], p, a)
                         \/ dm' = [SetPointer(dm, p, a) EXCEPT ![c] = n]
\* The byte goes to its cell and the pointer moves.
LEMMA PointerWritten ==
  ASSUME Running, NEW p, Pair(p), NEW c \in Locs, c <= Floor, c \notin {p, p + 1},
         NEW n \in Byte, NEW a \in Unsigned16, Points(c, n, p, a)
  PROVE  Goes({c, p, p + 1}) /\ dm'[c] = n /\ Word(p)' = a
<1>. DEFINE l == Low(a)
            h == High(a)
<1>1. l \in Byte /\ h \in Byte /\ a = l + 256 * h
  <2>1. a \in Int /\ 0 <= a /\ a <= 65535
    BY WordRange
  <2>. QED
    BY <2>1, BytesOfWord, SMTT(60)
<1>2. /\ p \in Locs /\ p <= Floor /\ p + 1 \in Locs /\ p + 1 <= Floor /\ p # p + 1
  BY LowRegisters DEF Pair
<1>3. \/ dm' = [[dm EXCEPT ![c] = n] EXCEPT ![p] = l, ![p + 1] = h]
      \/ dm' = [[dm EXCEPT ![p] = l, ![p + 1] = h] EXCEPT ![c] = n]
  BY DEF SetPointer, Points
<1>. HIDE DEF l, h
<1>4. /\ dm' \in [Locs -> Byte] /\ dm'[c] = n /\ dm'[p] = l /\ dm'[p + 1] = h
      /\ \A i \in Locs \ {c, p, p + 1} : dm'[i] = dm[i]
  BY <1>1, <1>2, <1>3 DEF Running, Regs
<1>5. sreg' \subseteq 0..7 /\ UNCHANGED <<pm, fn, arg>> /\ pc' = pc + 1 /\ UNCHANGED sp
  BY DEF GoesOn, Points
<1>6. Leaves({c, p, p + 1})
  BY <1>2, <1>4, <1>5, FrameKept
<1>. QED
  BY <1>1, <1>4, <1>5, <1>6 DEF Goes, Leaves, Word

\* The registers of a pointer are no memory of a routine.
LEMMA PointersApart ==
  ASSUME NEW p, Pair(p), NEW a \in Locs, a >= 248
  PROVE  a \notin {p, p + 1} /\ p \in Int
BY Located DEF Pair, Reg

\* LD and ST with a pointer that is incremented after, or decremented before.
LEMMA LdpRuns ==
  ASSUME Running, Next, NEW d \in Reg, NEW p, Pair(p), d \notin {p, p + 1}, I = RR("LDP", d, p),
         NEW a \in Locs, a = Word(p)
  PROVE  Goes({d, p, p + 1}) /\ dm'[d] = dm[a] /\ Word(p)' = a + 1
<1>1. I.op = "LDP" /\ I.d = d /\ I.r = p
  BY DEF RR, A
<1>2. ExecLd
  BY <1>1, Dispatch
<1>3. /\ dm' = SetPointer([dm EXCEPT ![d] = dm[a]], p, a + 1) /\ pc' = pc + 1 /\ sreg' = sreg
      /\ UNCHANGED <<sp, pm, fn, arg>>
  BY <1>1, <1>2, Located DEF ExecLd, Keeps, At, Advance
<1>4. dm[a] \in Byte /\ GoesOn /\ a + 1 \in Unsigned16 /\ d \in Locs /\ d <= Floor
  <2>1. dm[a] \in Byte /\ GoesOn
    BY <1>3 DEF Running, Regs, GoesOn
  <2>2. a \in Int /\ 0 <= a /\ a <= 271
    BY Located
  <2>3. a + 1 \in Unsigned16
    BY <2>2, WordRange, SMT
  <2>. QED
    BY <2>1, <2>3, LowRegisters
<1>. DEFINE b == a + 1
            n == dm[a]
<1>5. Points(d, n, p, b) /\ n \in Byte /\ b \in Unsigned16
  BY <1>3, <1>4 DEF Points
<1>. HIDE DEF b, n
<1>6. Goes({d, p, p + 1}) /\ dm'[d] = n /\ Word(p)' = b
  BY <1>4, <1>5, PointerWritten, Zenon
<1>. QED
  BY <1>6 DEF b, n

\* LD -X: the pointer is decremented before the load.
LEMMA LdmRuns ==
  ASSUME Running, Next, NEW d \in Reg, NEW p, Pair(p), d \notin {p, p + 1}, I = RR("LDM", d, p),
         NEW a \in Store, Word(p) = a + 1
  PROVE  Goes({d, p, p + 1}) /\ dm'[d] = dm[a] /\ Word(p)' = a
<1>1. I.op = "LDM" /\ I.d = d /\ I.r = p
  BY DEF RR, A
<1>2. ExecLd
  BY <1>1, Dispatch
<1>3. a \in Int /\ a \in Locs /\ a # SREG /\ a >= 248 /\ a + 1 - 1 = a
  BY StoreCells
<1>. DEFINE m == SetPointer(dm, p, a)
<1>4. /\ dm' = [m EXCEPT ![d] = m[a]] /\ pc' = pc + 1 /\ sreg' = sreg
      /\ UNCHANGED <<sp, pm, fn, arg>>
  <2>. HIDE DEF m
  <2>1. /\ dm' = [SetPointer(dm, p, Word(p) - 1) EXCEPT
                    ![d] = At(SetPointer(dm, p, Word(p) - 1), Word(p) - 1)]
        /\ pc' = pc + 1 /\ sreg' = sreg /\ UNCHANGED <<sp, pm, fn, arg>>
    BY <1>1, <1>2 DEF ExecLd, Keeps, Advance
  <2>2. Word(p) - 1 = a
    BY <1>3
  <2>3. dm' = [m EXCEPT ![d] = At(m, a)]
    BY <2>1, <2>2 DEF m
  <2>. QED
    BY <1>3, <2>1, <2>3 DEF At
<1>5. m[a] = dm[a]
  BY <1>3, PointersApart DEF SetPointer, Running, Regs
<1>6. dm[a] \in Byte /\ GoesOn /\ a \in Unsigned16 /\ d \in Locs /\ d <= Floor
  <2>1. dm[a] \in Byte /\ GoesOn
    BY <1>3, <1>4 DEF Running, Regs, GoesOn
  <2>2. a \in Int /\ 0 <= a /\ a <= 271
    BY <1>3, Located
  <2>3. a \in Unsigned16
    BY <2>2, WordRange, SMT
  <2>. QED
    BY <2>1, <2>3, LowRegisters
<1>7. Points(d, dm[a], p, a)
  BY <1>4, <1>5, <1>6 DEF Points
<1>. DEFINE n == dm[a]
<1>. HIDE DEF m
<1>8. n \in Byte /\ Points(d, n, p, a)
  BY <1>6, <1>7
<1>. HIDE DEF n
<1>9. Goes({d, p, p + 1}) /\ dm'[d] = n /\ Word(p)' = a
  BY <1>6, <1>8, PointerWritten, Zenon
<1>. QED
  BY <1>9 DEF n

\* ST X+: the pointer is incremented after the store.
LEMMA StpRuns ==
  ASSUME Running, Next, NEW d \in Reg, NEW p, Pair(p), I = RR("STP", d, p),
         NEW a \in Store, a = Word(p)
  PROVE  Goes({a, p, p + 1}) /\ dm'[a] = dm[d] /\ Word(p)' = a + 1
<1>1. I.op = "STP" /\ I.d = d /\ I.r = p
  BY DEF RR, A
<1>2. ExecSt
  BY <1>1, Dispatch
<1>3. a \in Int /\ a \in Locs /\ a # SREG /\ a >= 248 /\ a \notin DOMAIN IoMask /\ a <= Floor
  BY StoreCells
<1>4. /\ dm' = SetPointer([dm EXCEPT ![a] = dm[d]], p, a + 1) /\ pc' = pc + 1 /\ sreg' = sreg
      /\ UNCHANGED <<sp, pm, fn, arg>>
  BY <1>1, <1>2, <1>3 DEF ExecSt, Keeps, Written, SregWritten, Rd, Advance
<1>5. dm[d] \in Byte /\ GoesOn /\ a + 1 \in Unsigned16
  <2>1. dm[d] \in Byte /\ GoesOn
    BY <1>4 DEF Running, Regs, GoesOn
  <2>2. a \in Int /\ 0 <= a /\ a <= 271
    BY <1>3, Located
  <2>3. a + 1 \in Unsigned16
    BY <2>2, WordRange, SMT
  <2>. QED
    BY <2>1, <2>3
<1>. DEFINE b == a + 1
            n == dm[d]
<1>6. Points(a, n, p, b) /\ n \in Byte /\ b \in Unsigned16
  BY <1>4, <1>5 DEF Points
<1>7. a \notin {p, p + 1}
  BY <1>3, PointersApart
<1>. HIDE DEF b, n
<1>8. Goes({a, p, p + 1}) /\ dm'[a] = n /\ Word(p)' = b
  BY <1>3, <1>6, <1>7, PointerWritten, Zenon
<1>. QED
  BY <1>8 DEF b, n

\* ST -X: the pointer is decremented before the store.
LEMMA StmRuns ==
  ASSUME Running, Next, NEW d \in Reg, NEW p, Pair(p), d \notin {p, p + 1}, I = RR("STM", d, p),
         NEW a \in Store, Word(p) = a + 1
  PROVE  Goes({a, p, p + 1}) /\ dm'[a] = dm[d] /\ Word(p)' = a
<1>1. I.op = "STM" /\ I.d = d /\ I.r = p
  BY DEF RR, A
<1>2. ExecSt
  BY <1>1, Dispatch
<1>3. a \in Int /\ a \in Locs /\ a # SREG /\ a >= 248 /\ a \notin DOMAIN IoMask /\ a <= Floor
  BY StoreCells
<1>. DEFINE m == SetPointer(dm, p, a)
<1>4. /\ dm' = [m EXCEPT ![a] = m[d]] /\ pc' = pc + 1 /\ sreg' = sreg
      /\ UNCHANGED <<sp, pm, fn, arg>>
  <2>. HIDE DEF m
  <2>. DEFINE w == Word(p) - 1
              q == SetPointer(dm, p, w)
  <2>1. /\ dm' = Written(q, w, q[d]) /\ SregWritten(w, q[d])
        /\ pc' = pc + 1 /\ UNCHANGED <<sp, pm, fn, arg>>
    BY <1>1, <1>2 DEF ExecSt, Keeps, Advance
  <2>2. w = a
    BY <1>3
  <2>3. dm' = Written(m, a, m[d]) /\ SregWritten(a, m[d])
    BY <2>1, <2>2 DEF m
  <2>. QED
    BY <1>3, <2>1, <2>3 DEF Written, SregWritten
<1>5. m[d] = dm[d]
  BY LowRegisters DEF SetPointer, Running, Regs
<1>6. dm[d] \in Byte /\ GoesOn /\ a \in Unsigned16
  <2>1. dm[d] \in Byte /\ GoesOn
    BY <1>3, <1>4 DEF Running, Regs, GoesOn
  <2>2. a \in Int /\ 0 <= a /\ a <= 271
    BY <1>3, Located
  <2>3. a \in Unsigned16
    BY <2>2, WordRange, SMT
  <2>. QED
    BY <2>1, <2>3
<1>7. Points(a, dm[d], p, a)
  BY <1>4, <1>5, <1>6 DEF Points
<1>8. a \notin {p, p + 1}
  BY <1>3, PointersApart
<1>. DEFINE n == dm[d]
<1>. HIDE DEF m
<1>9. n \in Byte /\ Points(a, n, p, a)
  BY <1>6, <1>7
<1>. HIDE DEF n
<1>10. Goes({a, p, p + 1}) /\ dm'[a] = n /\ Word(p)' = a
  BY <1>3, <1>6, <1>8, <1>9, PointerWritten, Zenon
<1>. QED
  BY <1>10 DEF n

\* XCH, LAS, LAC and LAT: the register gets what was at Z.
Modified(op, o, x) == CASE op = "XCH" -> x
                        [] op = "LAS" -> o \cup x
                        [] op = "LAC" -> o \ x
                        [] op = "LAT" -> (o \ x) \cup (x \ o)
\* The four of them exchange a register with memory.
LEMMA ModifyRuns ==
  ASSUME Running, Next, NEW op \in {"XCH", "LAS", "LAC", "LAT"}, NEW d \in Reg, I = R(op, d),
         NEW a \in Store, a = Word(30)
  PROVE  /\ Goes({d, a}) /\ dm'[d] = dm[a] /\ dm'[a] \in Byte
         /\ Bits(dm'[a]) = Modified(op, Bits(dm[a]), Bits(dm[d]))
<1>1. I.op = op /\ I.d = d
  BY DEF R, A
<1>2. ExecModify
  BY <1>1, Dispatch
<1>3. a \in Int /\ a \in Locs /\ a # SREG /\ a >= 248 /\ a \notin DOMAIN IoMask /\ a <= Floor
  BY StoreCells
<1>4. d \notin DOMAIN IoMask /\ d # SREG /\ d \in Locs /\ d <= Floor /\ d # a
  BY LowRegisters, Located, StoreCells DEF Reg
<1>5. dm[a] \in Byte /\ dm[d] \in Byte
  BY <1>3, <1>4 DEF Running, Regs
<1>. DEFINE o == Bits(dm[a])
            x == Bits(dm[d])
            S == Modified(op, o, x)
            n == ByteOf(S)
<1>6. n \in Byte /\ Bits(n) = S
  <2>1. S \in SUBSET (0..7)
    BY DEF Bits, Modified
  <2>. HIDE DEF S
  <2>. QED
    BY <2>1, BitsOfByteOf
<1>7. ByteOf(o) = dm[a]
  <2>1. o \in SUBSET (0..7)
    BY DEF Bits
  <2>2. ByteOf(o) \in Byte /\ Bits(ByteOf(o)) = o
    BY <2>1, BitsOfByteOf
  <2>. QED
    BY <1>5, <2>2, SameBits
<1>8. /\ dm' = Written(Written(dm, d, ByteOf(o)), a, n) /\ SregWritten(a, n)
      /\ pc' = pc + 1 /\ UNCHANGED <<sp, pm, fn, arg>>
  <2>1. At(dm, Word(30)) = dm[a]
    BY <1>3 DEF At
  <2>2. S = (CASE I.op = "XCH" -> x
               [] I.op = "LAS" -> o \cup x
               [] I.op = "LAC" -> o \ x
               [] I.op = "LAT" -> (o \ x) \cup (x \ o))
    BY <1>1 DEF Modified
  <2>. HIDE DEF S
  <2>. QED
    BY <1>1, <1>2, <2>1, <2>2 DEF ExecModify, Keeps, Advance, Rd
<1>. HIDE DEF n, o
<1>9. dm' = [dm EXCEPT ![d] = dm[a], ![a] = n] /\ sreg' = sreg
  BY <1>3, <1>4, <1>7, <1>8 DEF Written, SregWritten
<1>10. dm' \in [Locs -> Byte] /\ dm'[d] = dm[a] /\ dm'[a] = n /\ \A l \in Locs \ {d, a} : dm'[l] = dm[l]
  BY <1>3, <1>4, <1>5, <1>6, <1>9 DEF Running, Regs
<1>11. Leaves({d, a})
  <2>1. sreg' \subseteq 0..7 /\ UNCHANGED <<pm, fn, arg>>
    BY <1>8, <1>9 DEF Running, Regs
  <2>. QED
    BY <1>3, <1>4, <1>10, <2>1, FrameKept
<1>. QED
  BY <1>6, <1>8, <1>10, <1>11 DEF Goes, Leaves, o

\* LPM and ELPM: a byte of a word of the program memory.
LEMMA FlashRead ==
  ASSUME Running, Next, NEW op \in {"LPM", "LPMP", "ELPM", "ELPMP"}, NEW d, I = RR(op, d, 0),
         NEW z, z = Word(30), NEW n, n = FlashByte(z)
  PROVE  /\ pc' = pc + 1 /\ UNCHANGED <<sp, sreg, pm, fn, arg>>
         /\ op \in {"LPM", "ELPM"} => dm' = [dm EXCEPT ![d] = n]
         /\ op \in {"LPMP", "ELPMP"} => dm' = SetPointer([dm EXCEPT ![d] = n], 30, z + 1)
<1>1. I.op = op /\ I.d = d
  BY DEF RR, A
<1>2. ExecLpm
  BY <1>1, Dispatch
<1>. QED
  BY <1>1, <1>2 DEF ExecLpm, Advance, Keeps

\* Z is z, where the program memory holds byte n, and y is next.
Reading(z, n, y) ==
  /\ z \in Int /\ 0 <= z /\ z < 65535 /\ z = Word(30) /\ y = z + 1
  /\ \E w \in Int : pm[z \div 2] = Data(w) /\ n = IF z % 2 = 1 THEN High(w) ELSE Low(w)
\* LPM and ELPM read a byte of the program memory, at Z.
LEMMA LpmRuns ==
  ASSUME Running, Next, NEW op \in {"LPM", "LPMP", "ELPM", "ELPMP"}, NEW d \in Reg, d \notin {30, 31},
         I = RR(op, d, 0), NEW z, NEW n, NEW y, Reading(z, n, y)
  PROVE  /\ dm'[d] = n
         /\ op \in {"LPM", "ELPM"} => Goes({d})
         /\ op \in {"LPMP", "ELPMP"} => Goes({d, 30, 31}) /\ Word(30)' = y
<1>0. z \in Int /\ 0 <= z /\ z < 65535 /\ z = Word(30) /\ y = z + 1
  BY DEF Reading
<1>1. PICK w \in Int : pm[z \div 2] = Data(w) /\ n = IF z % 2 = 1 THEN High(w) ELSE Low(w)
  BY DEF Reading
<1>3. n = FlashByte(z)
  BY <1>0, <1>1 DEF FlashByte, Data, A
<1>4. n \in Byte
  BY <1>1, LowHigh
<1>5. d \in Locs /\ d <= Floor /\ 30 \in Reg /\ 31 \in Reg
  BY LowRegisters DEF Reg
<1>6. /\ pc' = pc + 1 /\ UNCHANGED <<sp, sreg, pm, fn, arg>>
      /\ op \in {"LPM", "ELPM"} => dm' = [dm EXCEPT ![d] = n]
      /\ op \in {"LPMP", "ELPMP"} => dm' = SetPointer([dm EXCEPT ![d] = n], 30, z + 1)
  BY <1>0, <1>3, FlashRead
<1>7. GoesOn
  BY <1>6 DEF GoesOn, Running, Regs
<1>8. CASE op \in {"LPM", "ELPM"}
  <2>1. Stores(d, n)
    BY <1>4, <1>6, <1>7, <1>8 DEF Stores
  <2>2. Goes({d}) /\ dm'[d] = n
    BY <2>1, StoreGoes
  <2>. QED
    BY <1>8, <2>2
<1>9. CASE op \in {"LPMP", "ELPMP"}
  <2>. DEFINE b == z + 1
              p == 30
  <2>1. b \in Unsigned16
    BY <1>0, WordRange, SMT
  <2>2. Pair(p) /\ d \notin {p, p + 1}
    BY <1>5 DEF Pair
  <2>3. Points(d, n, p, b)
    BY <1>6, <1>7, <1>9 DEF Points
  <2>. HIDE DEF b, p
  <2>4. Goes({d, p, p + 1}) /\ dm'[d] = n /\ Word(p)' = b
    BY <1>4, <1>5, <2>1, <2>2, <2>3, PointerWritten, Zenon
  <2>5. Goes({d, 30, 30 + 1}) /\ Word(30)' = z + 1
    BY <2>4 DEF b, p
  <2>6. 30 + 1 = 31
    OBVIOUS
  <2>. QED
    BY <1>0, <1>9, <2>4, <2>5, <2>6
<1>. QED
  BY <1>0, <1>8, <1>9

\* LPM and ELPM of one register leave Z.
LEMMA LpmStays ==
  ASSUME Running, Next, NEW d \in Reg, d \notin {30, 31},
         I = RR("LPM", d, 0) \/ I = RR("ELPM", d, 0), NEW z, NEW n, NEW y, Reading(z, n, y)
  PROVE  Goes({d}) /\ dm'[d] = n
BY LpmRuns

\* LPM Z+ and ELPM Z+ move it on.
LEMMA LpmNext ==
  ASSUME Running, Next, NEW d \in Reg, d \notin {30, 31},
         I = RR("LPMP", d, 0) \/ I = RR("ELPMP", d, 0), NEW z, NEW n, NEW y, Reading(z, n, y)
  PROVE  Goes({d, 30, 31}) /\ dm'[d] = n /\ Word(30)' = y
BY LpmRuns

-----------------------------------------------------------------------------
(* Assertions along the routines that call, load, store and multiply. *)

\* calls: a waits on the stack while the routine in the middle clears r24 and r25.
Saved == dm[Floor] = ul /\ dm[Floor - 1] = uh
CallsAt ==
  \/ pc = 1 /\ Level /\ Given
  \/ pc = 2 /\ sp = Floor - 1 /\ dm[Floor] = ul /\ dm[25] = uh
  \/ pc \in {3, 4, 6} /\ sp = Floor - 2 /\ Saved
  \/ pc = 7 /\ sp = Floor - 2 /\ Saved /\ dm[30] = 14
  \/ pc = 8 /\ sp = Floor - 2 /\ Saved /\ dm[30] = 14 /\ dm[31] = 0
  \/ pc = 9 /\ sp = Floor - 2 /\ Saved /\ dm[31] = 0
  \/ pc = 10 /\ sp = Floor - 1 /\ dm[Floor] = ul /\ dm[25] = uh /\ dm[31] = 0
  \/ pc \in {11, 17, 18} /\ Level /\ dm[24] = ul /\ dm[25] = uh /\ dm[31] = 0
  \/ /\ pc \in {14, 15, 16} /\ Saved
     /\ \E a \in {4, 6, 9} : CalledFrom(a, Floor - 2) /\ (a = 9 => dm[31] = 0)
  \/ pc = 19 /\ Level /\ dm[24] = ul /\ dm[25] = uh /\ dm[31] = 0 /\ dm[30] = 21
  \/ pc = 21 /\ Level /\ dm[24] = ul /\ dm[25] = uh

\* isr: r0, SREG and r24 wait on the stack.
Kept0   == dm[Floor] = 0
KeptReg == dm[24] = ul /\ dm[25] = uh
KeptSr  == Kept0 /\ dm[Floor - 1] = ByteOf(arg[3])
IsrAt ==
  \/ pc = 1 /\ sp = Floor /\ KeptReg /\ dm[0] = 0 /\ sreg = arg[3]
  \/ pc = 2 /\ sp = Floor - 1 /\ KeptReg /\ Kept0 /\ sreg = arg[3]
  \/ pc = 3 /\ sp = Floor - 1 /\ KeptReg /\ Kept0 /\ dm[0] = ByteOf(arg[3])
  \/ pc \in {4, 5, 6, 9} /\ sp = Floor - 2 /\ KeptReg /\ KeptSr
  \/ pc \in {7, 8} /\ sp = Floor - 3 /\ dm[25] = uh /\ KeptSr /\ dm[Floor - 2] = ul
  \/ pc = 10 /\ sp = Floor - 1 /\ KeptReg /\ Kept0 /\ dm[0] = ByteOf(arg[3])
  \/ pc = 11 /\ sp = Floor - 1 /\ KeptReg /\ Kept0 /\ sreg = arg[3]
  \/ pc = 12 /\ sp = Floor /\ KeptReg /\ dm[0] = 0 /\ sreg = arg[3]

\* skip: what has been counted when the first and the second condition are known, and the
\* I/O register before and after SBI.
Count1 == One(Bit(ul, 0))
Count2 == Count1 + One(~Bit(ul, 7))
PortClear == dm[56] = 0
PortSet   == Bit(dm[56], 3)
SkipAt ==
  \/ pc = 1 /\ Level /\ Given /\ PortClear
  \/ pc = 2 /\ Level /\ Given /\ PortClear /\ dm[18] = 0
  \/ pc = 3 /\ Level /\ Given /\ PortClear /\ dm[18] = 0 /\ Bit(ul, 0)
  \/ pc = 5 /\ Level /\ Given /\ PortClear /\ dm[18] = Count1
  \/ pc = 6 /\ Level /\ Given /\ PortClear /\ dm[18] = Count1 /\ ~Bit(ul, 7)
  \/ pc = 7 /\ Level /\ Given /\ PortClear /\ dm[18] = Count2
  \/ pc = 8 /\ Level /\ Given /\ PortClear /\ dm[18] = Count2 /\ ul # vl
  \/ pc \in {10, 13, 15} /\ Level /\ PortClear /\ dm[18] = Count2 + One(ul # vl)
  \/ pc \in {16, 19} /\ Level /\ PortSet /\ dm[18] = Count2 + One(ul # vl)
  \/ pc = 21 /\ Level /\ dm[18] = Count2 + One(ul # vl)
  \/ /\ pc \in {22, 23} /\ Given /\ PortClear
     /\ \/ CalledFrom(5, Floor) /\ Bit(ul, 0) /\ dm[18] = pc - 22
        \/ CalledFrom(10, Floor) /\ ul # vl /\ dm[18] = Count2 + (pc - 22)

\* poll and fmul: where they are.
PollAt == pc \in {1, 2, 3, 5, 7}
FmulAt == pc \in {1, 2, 3}

\* io: the bits of the two I/O registers.
IoAt ==
  \/ pc = 1 /\ Given /\ dm[Ctrl] = 0
  \/ pc = 2 /\ dm[24] = ul /\ Bits(dm[Ctrl]) = Bits(ul) \cap (0..3)
  \/ pc = 3 /\ dm[24] = ul /\ dm[18] = ul % 16
  \/ pc = 4 /\ dm[18] = ul % 16 /\ Bits(dm[Port]) = Bits(ul)
  \/ pc = 5 /\ dm[18] = ul % 16 /\ Bits(dm[Port]) = Bits(ul) \ {0}
  \/ pc = 6 /\ dm[18] = ul % 16 /\ Bits(dm[Port]) = (Bits(ul) \ {0}) \cup {1}
  \/ pc = 7 /\ IoExact

\* lpm: Z runs over the four bytes behind the routine.
LpmAt ==
  \/ pc = 1
  \/ pc = 2 /\ dm[30] = 16
  \/ pc = 3 /\ Word(30) = 16
  \/ pc = 4 /\ Word(30) = 17 /\ dm[24] = 52
  \/ pc = 5 /\ Word(30) = 17 /\ dm[24] = 52 /\ dm[25] = 18
  \/ pc = 6 /\ Word(30) = 18 /\ dm[24] = 52 /\ dm[25] = 18 /\ dm[18] = 18
  \/ pc = 7 /\ LpmExact

\* mul: the product of the low bytes, and the crossed products in its high byte.
LowProduct == ul * vl
Cross1 == ul * vh
Cross2 == uh * vl
Factored == dm[24] = ul /\ dm[25] = uh /\ dm[22] = vl /\ dm[23] = vh
MulAt ==
  \/ pc = 1 /\ Factored
  \/ pc = 2 /\ Factored /\ dm[0] = Low(LowProduct) /\ dm[1] = High(LowProduct)
  \/ pc = 3 /\ Factored /\ dm[18] = Low(LowProduct) /\ dm[19] = High(LowProduct)
  \/ /\ pc = 4 /\ Factored /\ dm[18] = Low(LowProduct) /\ dm[19] = High(LowProduct)
     /\ dm[0] = Low(Cross1)
  \/ pc = 5 /\ Factored /\ dm[18] = Low(LowProduct) /\ dm[19] = Low(High(LowProduct) + Cross1)
  \/ /\ pc = 6 /\ dm[18] = Low(LowProduct) /\ dm[19] = Low(High(LowProduct) + Cross1)
     /\ dm[0] = Low(Cross2)
  \/ /\ pc \in {7, 8} /\ dm[18] = Low(LowProduct)
     /\ dm[19] = Low(High(LowProduct) + Cross1 + Cross2)
  \/ pc = 9 /\ MulExact

\* copy: the four bytes at 250, at 254, and at 258; r20 counts down how many are left.
Val(i) == IF i = 0 THEN ul ELSE IF i = 1 THEN uh ELSE IF i = 2 THEN vl ELSE vh
Holds(b, n, m) == \A i \in 0..3 : n <= i /\ i < m => dm[b + i] = Val(i)
Stored(n)      == Given /\ Holds(250, 0, n)
Upwards(n)     == Holds(250, 0, 4) /\ Holds(254, 0, n)
Downwards(n)   == Holds(254, 0, 4) /\ Holds(258, n, 4)
\* The loops, with j bytes left.
UpLoop(j) ==
  /\ dm[20] = j
  /\ \/ pc = 14 /\ j # 0 /\ Upwards(4 - j) /\ Word(26) = 254 - j /\ Word(30) = 258 - j
     \/ /\ pc = 15 /\ j # 0 /\ dm[0] = Val(4 - j)
        /\ Upwards(4 - j) /\ Word(26) = 255 - j /\ Word(30) = 258 - j
     \/ pc = 16 /\ j # 0 /\ Upwards(5 - j) /\ Word(26) = 255 - j /\ Word(30) = 259 - j
     \/ /\ pc = 17 /\ Sets(ZERO, j = 0)
        /\ Upwards(4 - j) /\ Word(26) = 254 - j /\ Word(30) = 258 - j
DownLoop(j) ==
  /\ dm[20] = j
  /\ \/ pc = 21 /\ j # 0 /\ Downwards(j) /\ Word(30) = 254 + j /\ Word(28) = 258 + j
     \/ /\ pc = 22 /\ j # 0 /\ dm[0] = Val(j - 1)
        /\ Downwards(j) /\ Word(30) = 253 + j /\ Word(28) = 258 + j
     \/ pc = 23 /\ j # 0 /\ Downwards(j - 1) /\ Word(30) = 253 + j /\ Word(28) = 257 + j
     \/ /\ pc = 24 /\ Sets(ZERO, j = 0)
        /\ Downwards(j) /\ Word(30) = 254 + j /\ Word(28) = 258 + j
CopyAt ==
  \/ pc = 1 /\ Stored(0)
  \/ pc = 3 /\ Stored(1)
  \/ pc = 5 /\ Stored(2)
  \/ pc = 7 /\ Stored(3)
  \/ pc = 9 /\ Upwards(0)
  \/ pc = 10 /\ Upwards(0) /\ dm[26] = 250
  \/ pc = 11 /\ Upwards(0) /\ Word(26) = 250
  \/ pc = 12 /\ Upwards(0) /\ Word(26) = 250 /\ dm[30] = 254
  \/ pc = 13 /\ Upwards(0) /\ Word(26) = 250 /\ Word(30) = 254
  \/ pc \in 14..17 /\ \E j \in 0..4 : UpLoop(j)
  \/ pc = 18 /\ Downwards(4) /\ Word(30) = 258
  \/ pc = 19 /\ Downwards(4) /\ Word(30) = 258 /\ dm[28] = 6
  \/ pc = 20 /\ Downwards(4) /\ Word(30) = 258 /\ Word(28) = 262
  \/ pc \in 21..24 /\ \E j \in 0..4 : DownLoop(j)
  \/ pc = 25 /\ Downwards(0) /\ Word(28) = 258
  \/ pc = 26 /\ Downwards(0) /\ Word(28) = 258 /\ dm[16] = ul
  \/ pc = 27 /\ Downwards(0) /\ Word(28) = 258 /\ dm[16] = ul /\ dm[17] = uh
  \/ pc = 28 /\ Downwards(0) /\ dm[16] = ul /\ dm[17] = uh /\ dm[18] = vl
  \/ pc = 30 /\ CopyExact

\* modify: what the byte at Buf1 is and was.
ModifyAt ==
  LET x == Bits(ul)
      y == Bits(vl)
      m == Bits(dm[Buf1])
      z == Word(30) = 250 /\ dm[25] = uh
  IN  \/ pc = 1 /\ Given
      \/ pc = 2 /\ Given /\ dm[30] = 250
      \/ pc = 3 /\ Given /\ z
      \/ pc = 4 /\ z /\ dm[22] = vl /\ m = x
      \/ pc = 5 /\ z /\ dm[22] = vl /\ m = x /\ dm[16] = vl
      \/ pc = 6 /\ z /\ dm[22] = vl /\ m = Xor(x, y) /\ Bits(dm[16]) = x
      \/ pc = 7 /\ z /\ dm[22] = vl /\ m = Xor(x, y) /\ Bits(dm[16]) = x /\ dm[17] = vl
      \/ /\ pc = 8 /\ z /\ dm[22] = vl /\ m = x \cup y
         /\ Bits(dm[16]) = x /\ Bits(dm[17]) = Xor(x, y)
      \/ /\ pc = 9 /\ z /\ m = x \cup y /\ dm[18] = vl
         /\ Bits(dm[16]) = x /\ Bits(dm[17]) = Xor(x, y)
      \/ /\ pc = 10 /\ z /\ m = x \ y
         /\ Bits(dm[16]) = x /\ Bits(dm[17]) = Xor(x, y) /\ Bits(dm[18]) = x \cup y
      \/ pc = 11 /\ ModifyExact

\* muls: the 32-bit number in r19:r18:r17:r16 is the sum of the products so far, but for
\* multiples of 2^32; a crossed product n in r1:r0 has its sign in the carry.
Same32(a, b) == \E k \in Int : a = b + 65536 * (65536 * k)
Quad == dm[16] + 256 * dm[17] + 65536 * (dm[18] + 256 * dm[19])
Upper == Signed(uh) * Signed(vh)
Straight == LowProduct + 65536 * Upper
SCross1 == Signed(uh) * vl
SCross2 == Signed(vh) * ul
\* The steps of an addition of n to a, which gives b.
Sum0(a, n) == Same32(Quad, a) /\ dm[0] = Low(n) /\ dm[1] = High(n) /\ Sets(CARRY, n < 0)
Sum1(b)    == Same32(Quad + 256 * (dm[0] + 256 * dm[1]), b)
Sum2(b)    == Same32(Quad + 65536 * (dm[1] + Carry), b)
Sum3(b)    == Same32(Quad + 16777216 * Carry, b)
Sum4(b)    == Same32(Quad, b)
Adding(p, a, n, b) ==
  \/ pc = p /\ Sum0(a, n)
  \/ pc = p + 1 /\ Sum1(b)
  \/ pc = p + 2 /\ Sum2(b)
  \/ pc = p + 3 /\ Sum3(b)
  \/ pc = p + 4 /\ Sum4(b)
CrossOne(a, n, b)  == a = Straight /\ n = SCross1 /\ b = a + 256 * n
CrossTwo(a, n, b) == a = Straight + 256 * SCross1 /\ n = SCross2 /\ b = a + 256 * n
Quartet == dm[20] = ul /\ dm[21] = uh /\ dm[22] = vl /\ dm[23] = vh
MulsAt ==
  \/ pc = 1 /\ Given
  \/ pc = 2 /\ Quartet
  \/ pc = 3 /\ Quartet /\ dm[2] = 0
  \/ pc = 4 /\ Quartet /\ dm[2] = 0 /\ dm[0] = Low(Upper) /\ dm[1] = High(Upper)
  \/ pc = 5 /\ Quartet /\ dm[2] = 0 /\ dm[18] = Low(Upper) /\ dm[19] = High(Upper)
  \/ /\ pc = 6 /\ Quartet /\ dm[2] = 0 /\ dm[18] = Low(Upper) /\ dm[19] = High(Upper)
     /\ dm[0] = Low(LowProduct) /\ dm[1] = High(LowProduct)
  \/ /\ pc = 7 /\ Quartet /\ dm[2] = 0 /\ dm[18] = Low(Upper) /\ dm[19] = High(Upper)
     /\ dm[16] = Low(LowProduct) /\ dm[17] = High(LowProduct)
  \/ /\ pc \in 8..12 /\ Quartet /\ dm[2] = 0
     /\ \E a, n, b \in Int : CrossOne(a, n, b) /\ Adding(8, a, n, b)
  \/ /\ pc \in 13..17 /\ dm[2] = 0
     /\ \E a, n, b \in Int : CrossTwo(a, n, b) /\ Adding(13, a, n, b)
  \/ pc = 18 /\ MulsExact

\* What the eleven of them are made of.
LEMMA CallsProgram ==
  ASSUME Loaded, fn = "calls"
  PROVE  /\ pm[0] = RI("RJMP", 0, -1) /\ pm[1] = R("PUSH", 24) /\ pm[2] = R("PUSH", 25)
         /\ pm[3] = RI("RCALL", 0, 10) /\ pm[4] = N("CALL") /\ pm[5] = Data(14)
         /\ pm[6] = RI("LDI", 30, 14) /\ pm[7] = RI("LDI", 31, 0) /\ pm[8] = N("ICALL")
         /\ pm[9] = R("POP", 25) /\ pm[10] = R("POP", 24) /\ pm[11] = N("JMP")
         /\ pm[12] = Data(17) /\ pm[13] = N("NOP") /\ pm[14] = RR("EOR", 24, 24)
         /\ pm[15] = RR("EOR", 25, 25) /\ pm[16] = Ret /\ pm[17] = N("WDR")
         /\ pm[18] = RI("LDI", 30, 21) /\ pm[19] = N("IJMP") /\ pm[20] = Data(0)
         /\ pm[21] = Ret
<1>1. CallsCode \in Seq({CallsCode[i] : i \in 1..21}) /\ Len(CallsCode) = 21
  BY DEF CallsCode
<1>2. CodeOf(fn) = CallsCode
  BY DEF CodeOf
<1>3. pm[0] = RI("RJMP", 0, -1) /\ \A i \in 1..21 : pm[i] = CallsCode[i]
  BY <1>1, <1>2, Image
<1>4. Entry = 1
  BY FirmwareSetup DEF FirmwareSetup
<1>. QED
  BY <1>3, <1>4 DEF CallsCode

\* The words of isr.
LEMMA IsrProgram ==
  ASSUME Loaded, fn = "isr"
  PROVE  /\ pm[0] = RI("RJMP", 0, -1) /\ pm[1] = R("PUSH", 0) /\ pm[2] = RI("IN", 0, SREG)
         /\ pm[3] = R("PUSH", 0) /\ pm[4] = RI("BCLR", 0, ZERO)
         /\ pm[5] = RI("BSET", 0, CARRY) /\ pm[6] = R("PUSH", 24) /\ pm[7] = R("INC", 24)
         /\ pm[8] = R("POP", 24) /\ pm[9] = R("POP", 0) /\ pm[10] = RI("OUT", 0, SREG)
         /\ pm[11] = R("POP", 0) /\ pm[12] = N("RETI")
<1>1. IsrCode \in Seq({IsrCode[i] : i \in 1..12}) /\ Len(IsrCode) = 12
  BY DEF IsrCode
<1>2. CodeOf(fn) = IsrCode
  BY DEF CodeOf
<1>3. pm[0] = RI("RJMP", 0, -1) /\ \A i \in 1..12 : pm[i] = IsrCode[i]
  BY <1>1, <1>2, Image
<1>. QED
  BY <1>3 DEF IsrCode

\* The words of skip.
LEMMA SkipProgram ==
  ASSUME Loaded, fn = "skip"
  PROVE  /\ pm[0] = RI("RJMP", 0, -1) /\ pm[1] = RI("LDI", 18, 0) /\ pm[2] = RI("SBRC", 24, 0)
         /\ pm[3] = N("CALL") /\ pm[4] = Data(22) /\ pm[5] = RI("SBRS", 24, 7)
         /\ pm[6] = R("INC", 18) /\ pm[7] = RR("CPSE", 24, 22) /\ pm[8] = N("CALL")
         /\ pm[9] = Data(22) /\ pm[10] = A("SBIC", 0, 3, 56) /\ pm[11] = N("CALL")
         /\ pm[12] = Data(22) /\ pm[13] = A("SBIC", 0, 3, 56) /\ pm[14] = R("INC", 18)
         /\ pm[15] = A("SBI", 0, 3, 56) /\ pm[16] = A("SBIS", 0, 3, 56) /\ pm[17] = N("CALL")
         /\ pm[18] = Data(22) /\ pm[19] = A("SBIS", 0, 3, 56) /\ pm[20] = R("INC", 18)
         /\ pm[21] = Ret /\ pm[22] = R("INC", 18) /\ pm[23] = Ret
<1>1. SkipCode \in Seq({SkipCode[i] : i \in 1..23}) /\ Len(SkipCode) = 23
  BY DEF SkipCode
<1>2. CodeOf(fn) = SkipCode
  BY DEF CodeOf
<1>3. pm[0] = RI("RJMP", 0, -1) /\ \A i \in 1..23 : pm[i] = SkipCode[i]
  BY <1>1, <1>2, Image
<1>4. Entry = 1
  BY FirmwareSetup DEF FirmwareSetup
<1>. QED
  BY <1>3, <1>4 DEF SkipCode, Port

\* The words of poll.
LEMMA PollProgram ==
  ASSUME Loaded, fn = "poll"
  PROVE  /\ pm[0] = RI("RJMP", 0, -1) /\ pm[1] = RI("LDI", 18, 0) /\ pm[2] = RI("OUT", 24, 56)
         /\ pm[3] = A("SBIS", 0, 0, 56) /\ pm[4] = R("INC", 18) /\ pm[5] = A("SBIC", 0, 0, 56)
         /\ pm[6] = R("INC", 18) /\ pm[7] = Ret
<1>1. PollCode \in Seq({PollCode[i] : i \in 1..7}) /\ Len(PollCode) = 7
  BY DEF PollCode
<1>2. CodeOf(fn) = PollCode
  BY DEF CodeOf
<1>3. pm[0] = RI("RJMP", 0, -1) /\ \A i \in 1..7 : pm[i] = PollCode[i]
  BY <1>1, <1>2, Image
<1>. QED
  BY <1>3 DEF PollCode, Port

\* The words of io.
LEMMA IoProgram ==
  ASSUME Loaded, fn = "io"
  PROVE  /\ pm[0] = RI("RJMP", 0, -1) /\ pm[1] = RI("OUT", 24, 84) /\ pm[2] = RI("IN", 18, 84)
         /\ pm[3] = RI("OUT", 24, 56) /\ pm[4] = A("CBI", 0, 0, 56)
         /\ pm[5] = A("SBI", 0, 1, 56) /\ pm[6] = RI("IN", 19, 56) /\ pm[7] = Ret
<1>1. IoCode \in Seq({IoCode[i] : i \in 1..7}) /\ Len(IoCode) = 7
  BY DEF IoCode
<1>2. CodeOf(fn) = IoCode
  BY DEF CodeOf
<1>3. pm[0] = RI("RJMP", 0, -1) /\ \A i \in 1..7 : pm[i] = IoCode[i]
  BY <1>1, <1>2, Image
<1>. QED
  BY <1>3 DEF IoCode, Port, Ctrl

\* The words of lpm.
LEMMA LpmProgram ==
  ASSUME Loaded, fn = "lpm"
  PROVE  /\ pm[0] = RI("RJMP", 0, -1) /\ pm[1] = RI("LDI", 30, 16) /\ pm[2] = RI("LDI", 31, 0)
         /\ pm[3] = RR("LPMP", 24, 0) /\ pm[4] = RR("LPM", 25, 0)
         /\ pm[5] = RR("ELPMP", 18, 0) /\ pm[6] = RR("ELPM", 19, 0) /\ pm[7] = Ret
         /\ pm[8] = Data(4660) /\ pm[9] = Data(22136)
<1>1. LpmCode \in Seq({LpmCode[i] : i \in 1..9}) /\ Len(LpmCode) = 9
  BY DEF LpmCode
<1>2. CodeOf(fn) = LpmCode
  BY DEF CodeOf
<1>3. pm[0] = RI("RJMP", 0, -1) /\ \A i \in 1..9 : pm[i] = LpmCode[i]
  BY <1>1, <1>2, Image
<1>4. Entry = 1
  BY FirmwareSetup DEF FirmwareSetup
<1>. QED
  BY <1>3, <1>4 DEF LpmCode

\* The words of mul.
LEMMA MulProgram ==
  ASSUME Loaded, fn = "mul"
  PROVE  /\ pm[0] = RI("RJMP", 0, -1) /\ pm[1] = RR("MUL", 24, 22)
         /\ pm[2] = RR("MOVW", 18, 0) /\ pm[3] = RR("MUL", 24, 23) /\ pm[4] = RR("ADD", 19, 0)
         /\ pm[5] = RR("MUL", 25, 22) /\ pm[6] = RR("ADD", 19, 0) /\ pm[7] = RR("EOR", 1, 1)
         /\ pm[8] = RR("MOVW", 24, 18) /\ pm[9] = Ret
<1>1. MulCode \in Seq({MulCode[i] : i \in 1..9}) /\ Len(MulCode) = 9
  BY DEF MulCode
<1>2. CodeOf(fn) = MulCode
  BY DEF CodeOf
<1>3. pm[0] = RI("RJMP", 0, -1) /\ \A i \in 1..9 : pm[i] = MulCode[i]
  BY <1>1, <1>2, Image
<1>. QED
  BY <1>3 DEF MulCode

\* The words of muls.
LEMMA MulsProgram ==
  ASSUME Loaded, fn = "muls"
  PROVE  /\ pm[0] = RI("RJMP", 0, -1) /\ pm[1] = RR("MOVW", 20, 24) /\ pm[2] = RR("EOR", 2, 2)
         /\ pm[3] = RR("MULS", 21, 23) /\ pm[4] = RR("MOVW", 18, 0)
         /\ pm[5] = RR("MUL", 20, 22) /\ pm[6] = RR("MOVW", 16, 0)
         /\ pm[7] = RR("MULSU", 21, 22) /\ pm[8] = RR("SBC", 19, 2)
         /\ pm[9] = RR("ADD", 17, 0) /\ pm[10] = RR("ADC", 18, 1) /\ pm[11] = RR("ADC", 19, 2)
         /\ pm[12] = RR("MULSU", 23, 20) /\ pm[13] = RR("SBC", 19, 2)
         /\ pm[14] = RR("ADD", 17, 0) /\ pm[15] = RR("ADC", 18, 1)
         /\ pm[16] = RR("ADC", 19, 2) /\ pm[17] = RR("EOR", 1, 1) /\ pm[18] = Ret
<1>1. MulsCode \in Seq({MulsCode[i] : i \in 1..18}) /\ Len(MulsCode) = 18
  BY DEF MulsCode
<1>2. CodeOf(fn) = MulsCode
  BY DEF CodeOf
<1>3. pm[0] = RI("RJMP", 0, -1) /\ \A i \in 1..18 : pm[i] = MulsCode[i]
  BY <1>1, <1>2, Image
<1>. QED
  BY <1>3 DEF MulsCode

\* The words of fmul.
LEMMA FmulProgram ==
  ASSUME Loaded, fn = "fmul"
  PROVE  /\ pm[0] = RI("RJMP", 0, -1) /\ pm[1] = RR("MOV", 16, 25)
         /\ pm[2] = RR("FMUL", 16, 23) /\ pm[3] = Ret
<1>1. FmulCode \in Seq({FmulCode[i] : i \in 1..3}) /\ Len(FmulCode) = 3
  BY DEF FmulCode
<1>2. CodeOf(fn) = FmulCode
  BY DEF CodeOf
<1>3. pm[0] = RI("RJMP", 0, -1) /\ \A i \in 1..3 : pm[i] = FmulCode[i]
  BY <1>1, <1>2, Image
<1>. QED
  BY <1>3 DEF FmulCode

\* The words of copy.
LEMMA CopyProgram ==
  ASSUME Loaded, fn = "copy"
  PROVE  /\ pm[0] = RI("RJMP", 0, -1) /\ pm[1] = R("STS", 24) /\ pm[2] = Data(250)
         /\ pm[3] = R("STS", 25) /\ pm[4] = Data(251) /\ pm[5] = R("STS", 22)
         /\ pm[6] = Data(252) /\ pm[7] = R("STS", 23) /\ pm[8] = Data(253)
         /\ pm[9] = RI("LDI", 26, 250) /\ pm[10] = RI("LDI", 27, 0)
         /\ pm[11] = RI("LDI", 30, 254) /\ pm[12] = RI("LDI", 31, 0)
         /\ pm[13] = RI("LDI", 20, 4) /\ pm[14] = RR("LDP", 0, 26)
         /\ pm[15] = RR("STP", 0, 30) /\ pm[16] = R("DEC", 20)
         /\ pm[17] = Br("BRBC", ZERO, -4) /\ pm[18] = RI("LDI", 28, 6)
         /\ pm[19] = RI("LDI", 29, 1) /\ pm[20] = RI("LDI", 20, 4)
         /\ pm[21] = RR("LDM", 0, 30) /\ pm[22] = RR("STM", 0, 28) /\ pm[23] = R("DEC", 20)
         /\ pm[24] = Br("BRBC", ZERO, -4) /\ pm[25] = A("LD", 16, 28, 0)
         /\ pm[26] = A("LD", 17, 28, 1) /\ pm[27] = A("LD", 18, 28, 2)
         /\ pm[28] = R("LDS", 19) /\ pm[29] = Data(261) /\ pm[30] = Ret
<1>1. CopyCode \in Seq({CopyCode[i] : i \in 1..30}) /\ Len(CopyCode) = 30
  BY DEF CopyCode
<1>2. CodeOf(fn) = CopyCode
  BY DEF CodeOf
<1>3. pm[0] = RI("RJMP", 0, -1) /\ \A i \in 1..30 : pm[i] = CopyCode[i]
  BY <1>1, <1>2, Image
<1>. QED
  BY <1>3 DEF CopyCode, Buf1, Buf2

\* The words of modify.
LEMMA ModifyProgram ==
  ASSUME Loaded, fn = "modify"
  PROVE  /\ pm[0] = RI("RJMP", 0, -1) /\ pm[1] = RI("LDI", 30, 250)
         /\ pm[2] = RI("LDI", 31, 0) /\ pm[3] = A("ST", 24, 30, 0)
         /\ pm[4] = RR("MOV", 16, 22) /\ pm[5] = R("LAT", 16) /\ pm[6] = RR("MOV", 17, 22)
         /\ pm[7] = R("LAS", 17) /\ pm[8] = RR("MOV", 18, 22) /\ pm[9] = R("LAC", 18)
         /\ pm[10] = R("XCH", 25) /\ pm[11] = Ret
<1>1. ModifyCode \in Seq({ModifyCode[i] : i \in 1..11}) /\ Len(ModifyCode) = 11
  BY DEF ModifyCode
<1>2. CodeOf(fn) = ModifyCode
  BY DEF CodeOf
<1>3. pm[0] = RI("RJMP", 0, -1) /\ \A i \in 1..11 : pm[i] = ModifyCode[i]
  BY <1>1, <1>2, Image
<1>. QED
  BY <1>3 DEF ModifyCode, Buf1

\* Registers, numbers and bits that the routines below use.
LEMMA MoreRegisters ==
  /\ Pair(0) /\ Pair(16) /\ Pair(18) /\ Pair(20) /\ Pair(26) /\ Pair(28) /\ Pair(30)
  /\ 0 \in Reg /\ 2 \in Reg /\ 16 \in Reg /\ 17 \in Reg /\ 21 \in Reg /\ 26 \in Reg
  /\ 27 \in Reg /\ 28 \in Reg /\ 29 \in Reg /\ 30 \in Reg /\ 31 \in Reg
  /\ 0 \in Locs /\ 2 \in Locs /\ 16 \in Locs /\ 17 \in Locs /\ 21 \in Locs /\ 26 \in Locs
  /\ 27 \in Locs /\ 28 \in Locs /\ 29 \in Locs /\ 30 \in Locs /\ 31 \in Locs /\ 56 \in Locs
  /\ 84 \in Locs
BY Places, Located DEF Pair, Reg

\* The constants of the routines are bytes.
LEMMA ByteNumbers ==
  /\ 0 \in Byte /\ 1 \in Byte /\ 4 \in Byte /\ 6 \in Byte /\ 14 \in Byte /\ 16 \in Byte
  /\ 21 \in Byte /\ 250 \in Byte /\ 254 \in Byte /\ 255 \in Byte
  /\ \A n \in 0..15 : n \in Byte
BY DEF Byte

\* No bits, and the lower four.
LEMMA NoBits == Bits(0) = {} /\ Bits(15) = 0..3
<1>1. /\ 0 \in {0, 1} /\ 1 \in {0, 1}
      /\ 0 = 0 + 2 * 0 + 4 * 0 + 8 * 0 + 16 * 0 + 32 * 0 + 64 * 0 + 128 * 0
      /\ 15 = 1 + 2 * 1 + 4 * 1 + 8 * 1 + 16 * 0 + 32 * 0 + 64 * 0 + 128 * 0
  OBVIOUS
<1>2. /\ ~Bit(0, 0) /\ ~Bit(0, 1) /\ ~Bit(0, 2) /\ ~Bit(0, 3)
      /\ ~Bit(0, 4) /\ ~Bit(0, 5) /\ ~Bit(0, 6) /\ ~Bit(0, 7)
  <2>1. ~(0 = 1)
    OBVIOUS
  <2>. QED
    BY <1>1, <2>1, Expansion
<1>3. /\ Bit(15, 0) /\ Bit(15, 1) /\ Bit(15, 2) /\ Bit(15, 3)
      /\ ~Bit(15, 4) /\ ~Bit(15, 5) /\ ~Bit(15, 6) /\ ~Bit(15, 7)
  <2>1. ~(0 = 1)
    OBVIOUS
  <2>. QED
    BY <1>1, <2>1, Expansion
<1>. QED
  BY <1>2, <1>3 DEF Bits

\* The lower four bits are the remainder by 16.
LEMMA FourBits ==
  ASSUME NEW x \in Byte, NEW y \in Byte, Bits(x) = Bits(y) \cap (0..3)
  PROVE  x = y % 16
<1>1. PICK a \in 0..15, b \in 0..15 : y = 16 * a + b /\ b = y % 16
  <2>1. (y \div 16) \in 0..15 /\ (y % 16) \in 0..15 /\ y = 16 * (y \div 16) + (y % 16)
    BY DEF Byte
  <2>. QED
    BY <2>1
<1>2. Bits(15) = 0..3
  BY NoBits
<1>3. Bits(x) = Bits(b) /\ b \in Byte
  BY <1>1, <1>2, LowNibble, ByteNumbers
<1>. QED
  BY <1>1, <1>3, SameBits

\* poll: one of the two skips.
LEMMA PollHolds ==
  ASSUME Running, Level, fn = "poll", PollAt, Next
  PROVE  \/ Running' /\ PollAt' /\ UNCHANGED <<sp, fn, arg>>
         \/ Returns /\ UNCHANGED <<pm, fn, arg>>
<1>. USE Registers, MoreRegisters
<1>1. CASE pc = 1
  <2>1. I = RI("LDI", 18, 0)
    BY <1>1, PollProgram DEF I, Running
  <2>2. Goes({18})
    BY <2>1, ByteNumbers, MoveRuns
  <2>3. /\ pc' = 2 /\ Running' /\ UNCHANGED <<sp, fn, arg, ul, uh, vl, vh>>
    BY <1>1, <2>2, SameArguments DEF Goes
  <2>. QED
    BY <2>2, <2>3 DEF PollAt
<1>2. CASE pc = 2
  <2>1. I = RI("OUT", 24, 56)
    BY <1>2, PollProgram DEF I, Running
  <2>2. Goes({56})
    BY <2>1, OutRuns
  <2>3. /\ pc' = 3 /\ Running' /\ UNCHANGED <<sp, fn, arg, ul, uh, vl, vh>>
    BY <1>2, <2>2, SameArguments DEF Goes
  <2>. QED
    BY <2>2, <2>3 DEF PollAt
<1>3. CASE pc = 3
  <2>1. I = A("SBIS", 0, 0, 56)
    BY <1>3, PollProgram DEF I, Running
  <2>0. pm[pc + 1].op \notin TwoWords
    BY <1>3, PollProgram DEF Running, R, A, TwoWords
  <2>2. Jumps(pc + 2)
    BY <2>1, <2>0, SbisRuns
  <2>3. /\ pc' = 5 /\ Running' /\ UNCHANGED <<sp, fn, arg, ul, uh, vl, vh>>
    BY <1>3, <2>2, SameArguments DEF Jumps
  <2>. QED
    BY <2>2, <2>3 DEF PollAt
<1>5. CASE pc = 5
  <2>1. I = A("SBIC", 0, 0, 56)
    BY <1>5, PollProgram DEF I, Running
  <2>0. pm[pc + 1].op \notin TwoWords
    BY <1>5, PollProgram DEF Running, R, A, TwoWords
  <2>2. Jumps(pc + 2)
    BY <2>1, <2>0, SbisRuns
  <2>3. /\ pc' = 7 /\ Running' /\ UNCHANGED <<sp, fn, arg, ul, uh, vl, vh>>
    BY <1>5, <2>2, SameArguments DEF Jumps
  <2>. QED
    BY <2>2, <2>3 DEF PollAt
<1>7. CASE pc = 7
  <2>1. I = Ret
    BY <1>7, PollProgram DEF I, Running
  <2>2. Returns /\ UNCHANGED <<dm, sreg, pm, fn, arg>>
    BY <2>1, RetRuns
  <2>. QED
    BY <2>2
<1>. QED
  BY <1>1, <1>2, <1>3, <1>5, <1>7 DEF PollAt

\* fmul: a move and a multiplication.
LEMMA FmulHolds ==
  ASSUME Running, Level, fn = "fmul", FmulAt, Next
  PROVE  \/ Running' /\ FmulAt' /\ UNCHANGED <<sp, fn, arg>>
         \/ Returns /\ UNCHANGED <<pm, fn, arg>>
<1>. USE Registers, MoreRegisters
<1>1. CASE pc = 1
  <2>1. I = RR("MOV", 16, 25)
    BY <1>1, FmulProgram DEF I, Running
  <2>2. Goes({16})
    BY <2>1, MoveRuns
  <2>3. /\ pc' = 2 /\ Running' /\ UNCHANGED <<sp, fn, arg, ul, uh, vl, vh>>
    BY <1>1, <2>2, SameArguments DEF Goes
  <2>. QED
    BY <2>2, <2>3 DEF FmulAt
<1>2. CASE pc = 2
  <2>1. I = RR("FMUL", 16, 23)
    BY <1>2, FmulProgram DEF I, Running
  <2>2. Goes({0, 1})
    BY <2>1, FmulRuns
  <2>3. /\ pc' = 3 /\ Running' /\ UNCHANGED <<sp, fn, arg, ul, uh, vl, vh>>
    BY <1>2, <2>2, SameArguments DEF Goes
  <2>. QED
    BY <2>2, <2>3 DEF FmulAt
<1>3. CASE pc = 3
  <2>1. I = Ret
    BY <1>3, FmulProgram DEF I, Running
  <2>2. Returns /\ UNCHANGED <<dm, sreg, pm, fn, arg>>
    BY <2>1, RetRuns
  <2>. QED
    BY <2>2
<1>. QED
  BY <1>1, <1>2, <1>3 DEF FmulAt

\* lpm: Z goes from 16 to 18, from byte to byte of two words.
LEMMA LpmHolds ==
  ASSUME Running, Level, fn = "lpm", LpmAt, Next
  PROVE  \/ Running' /\ LpmAt' /\ UNCHANGED <<sp, fn, arg>>
         \/ Returns /\ LpmExact' /\ UNCHANGED <<pm, fn, arg>>
<1>0. \A l \in {18, 19, 24, 25, 30, 31} : l \in Reg /\ l \in Locs
  BY Registers, MoreRegisters
<1>1. CASE pc = 1
  <2>1. I = RI("LDI", 30, 16)
    BY <1>1, LpmProgram DEF I, Running
  <2>2. Goes({30}) /\ dm'[30] = 16
    BY <1>0, <2>1, ByteNumbers, MoveRuns
  <2>3. /\ pc' = 2 /\ Running' /\ UNCHANGED <<sp, fn, arg, ul, uh, vl, vh>>
    BY <1>0, <1>1, <2>2, SameArguments DEF Goes
  <2>. QED
    BY <2>2, <2>3 DEF LpmAt
<1>2. CASE pc = 2
  <2>1. I = RI("LDI", 31, 0)
    BY <1>2, LpmProgram DEF I, Running
  <2>2. Goes({31}) /\ dm'[31] = 0
    BY <1>0, <2>1, ByteNumbers, MoveRuns
  <2>3. /\ pc' = 3 /\ Running' /\ UNCHANGED <<sp, fn, arg, ul, uh, vl, vh>>
        /\ dm'[30] = dm[30]
    BY <1>0, <1>2, <2>2, SameArguments DEF Goes
  <2>4. dm[30] = 16
    BY <1>2 DEF LpmAt
  <2>. QED
    BY <2>2, <2>3, <2>4 DEF LpmAt, Word
<1>3. CASE pc = 3
  <2>1. I = RR("LPMP", 24, 0)
    BY <1>3, LpmProgram DEF I, Running
  <2>0. Reading(16, 52, 17)
    <3>1. 16 \div 2 = 8 /\ pm[8] = Data(4660) /\ 16 % 2 = 0
      BY LpmProgram DEF Running
    <3>2. 52 = Low(4660) /\ 17 = 16 + 1
      BY DEF High, Low
    <3>3. Word(30) = 16
      BY <1>3 DEF LpmAt
    <3>. QED
      BY <3>1, <3>2, <3>3 DEF Reading
  <2>2. Goes({24, 30, 31}) /\ dm'[24] = 52 /\ Word(30)' = 17
    BY <1>0, <2>1, <2>0, LpmNext
  <2>3. /\ pc' = 4 /\ Running' /\ UNCHANGED <<sp, fn, arg, ul, uh, vl, vh>>
    BY <1>0, <1>3, <2>2, SameArguments DEF Goes
  <2>. QED
    BY <2>2, <2>3 DEF LpmAt
<1>4. CASE pc = 4
  <2>1. I = RR("LPM", 25, 0)
    BY <1>4, LpmProgram DEF I, Running
  <2>0. Reading(17, 18, 18)
    <3>1. 17 \div 2 = 8 /\ pm[8] = Data(4660) /\ 17 % 2 = 1
      BY LpmProgram DEF Running
    <3>2. 18 = High(4660) /\ 18 = 17 + 1
      BY DEF High, Low
    <3>3. Word(30) = 17
      BY <1>4 DEF LpmAt
    <3>. QED
      BY <3>1, <3>2, <3>3 DEF Reading
  <2>. DEFINE d == 25
  <2>9. d \in Reg /\ d \notin {30, 31} /\ I = RR("LPM", d, 0)
    BY <1>0, <2>1
  <2>. HIDE DEF d
  <2>8. Goes({d}) /\ dm'[d] = 18
    BY <2>0, <2>9, LpmStays
  <2>2. Goes({25}) /\ dm'[25] = 18
    BY <1>0, <2>1, <2>8 DEF d
  <2>3. /\ pc' = 5 /\ Running' /\ UNCHANGED <<sp, fn, arg, ul, uh, vl, vh>>
        /\ dm'[24] = dm[24] /\ dm'[30] = dm[30] /\ dm'[31] = dm[31]
    BY <1>0, <1>4, <2>2, SameArguments DEF Goes
  <2>4. dm[24] = 52 /\ Word(30) = 17
    BY <1>4 DEF LpmAt
  <2>. QED
    BY <2>2, <2>3, <2>4 DEF LpmAt, Word
<1>5. CASE pc = 5
  <2>1. I = RR("ELPMP", 18, 0)
    BY <1>5, LpmProgram DEF I, Running
  <2>0. Reading(17, 18, 18)
    <3>1. 17 \div 2 = 8 /\ pm[8] = Data(4660) /\ 17 % 2 = 1
      BY LpmProgram DEF Running
    <3>2. 18 = High(4660) /\ 18 = 17 + 1
      BY DEF High, Low
    <3>3. Word(30) = 17
      BY <1>5 DEF LpmAt
    <3>. QED
      BY <3>1, <3>2, <3>3 DEF Reading
  <2>2. Goes({18, 30, 31}) /\ dm'[18] = 18 /\ Word(30)' = 18
    BY <1>0, <2>1, <2>0, LpmNext
  <2>3. /\ pc' = 6 /\ Running' /\ UNCHANGED <<sp, fn, arg, ul, uh, vl, vh>>
        /\ dm'[24] = dm[24] /\ dm'[25] = dm[25]
    BY <1>0, <1>5, <2>2, SameArguments DEF Goes
  <2>4. dm[24] = 52 /\ dm[25] = 18
    BY <1>5 DEF LpmAt
  <2>. QED
    BY <2>2, <2>3, <2>4 DEF LpmAt
<1>6. CASE pc = 6
  <2>1. I = RR("ELPM", 19, 0)
    BY <1>6, LpmProgram DEF I, Running
  <2>0. Reading(18, 120, 19)
    <3>1. 18 \div 2 = 9 /\ pm[9] = Data(22136) /\ 18 % 2 = 0
      BY LpmProgram DEF Running
    <3>2. 120 = Low(22136) /\ 19 = 18 + 1
      BY DEF High, Low
    <3>3. Word(30) = 18
      BY <1>6 DEF LpmAt
    <3>. QED
      BY <3>1, <3>2, <3>3 DEF Reading
  <2>. DEFINE d == 19
  <2>9. d \in Reg /\ d \notin {30, 31} /\ I = RR("ELPM", d, 0)
    BY <1>0, <2>1
  <2>. HIDE DEF d
  <2>8. Goes({d}) /\ dm'[d] = 120
    BY <2>0, <2>9, LpmStays
  <2>2. Goes({19}) /\ dm'[19] = 120
    BY <1>0, <2>1, <2>8 DEF d
  <2>3. /\ pc' = 7 /\ Running' /\ UNCHANGED <<sp, fn, arg, ul, uh, vl, vh>>
        /\ dm'[24] = dm[24] /\ dm'[25] = dm[25] /\ dm'[18] = dm[18]
    BY <1>0, <1>6, <2>2, SameArguments DEF Goes
  <2>4. dm[24] = 52 /\ dm[25] = 18 /\ dm[18] = 18
    BY <1>6 DEF LpmAt
  <2>. QED
    BY <2>2, <2>3, <2>4 DEF LpmAt, LpmExact, res, Word
<1>7. CASE pc = 7
  <2>1. I = Ret
    BY <1>7, LpmProgram DEF I, Running
  <2>2. Returns /\ UNCHANGED <<dm, sreg, pm, fn, arg>>
    BY <2>1, RetRuns
  <2>3. LpmExact
    BY <1>7 DEF LpmAt
  <2>4. LpmExact'
    BY <2>2, <2>3 DEF LpmExact, res, Word
  <2>. QED
    BY <2>2, <2>4
<1>. QED
  BY <1>1, <1>2, <1>3, <1>4, <1>5, <1>6, <1>7 DEF LpmAt

\* io: the masks of the two registers, and what CBI and SBI leave.
LEMMA IoHolds ==
  ASSUME Running, Level, fn = "io", IoAt, Next
  PROVE  \/ Running' /\ IoAt' /\ UNCHANGED <<sp, fn, arg>>
         \/ Returns /\ IoExact' /\ UNCHANGED <<pm, fn, arg>>
<1>. USE Registers, MoreRegisters
<1>1. CASE pc = 1
  <2>1. I = RI("OUT", 24, 84)
    BY <1>1, IoProgram DEF I, Running
  <2>2. Goes({84})
          /\ Bits(dm'[84]) = (Bits(dm[84]) \ IoMask[84]) \cup (Bits(dm[24]) \cap IoMask[84])
    BY <2>1, OutRuns
  <2>3. /\ pc' = 2 /\ Running' /\ UNCHANGED <<sp, fn, arg, ul, uh, vl, vh>>
        /\ dm'[24] = dm[24]
    BY <1>1, <2>2, SameArguments DEF Goes
  <2>4. dm[24] = ul /\ dm[84] = 0
    BY <1>1 DEF IoAt, Given, IoExact, Port, Ctrl
  <2>5. IoMask[84] = 0..3 /\ Bits(dm[84]) = {}
    BY <2>4, NoBits, Located
  <2>6. Bits(dm'[84]) = Bits(ul) \cap (0..3)
    BY <2>2, <2>4, <2>5
  <2>. QED
    BY <2>2, <2>3, <2>4, <2>5, <2>6 DEF IoAt, Given, IoExact, Port, Ctrl
<1>2. CASE pc = 2
  <2>1. I = RI("IN", 18, 84)
    BY <1>2, IoProgram DEF I, Running
  <2>2. Goes({18}) /\ dm'[18] = dm[84]
    BY <2>1, InRuns
  <2>3. /\ pc' = 3 /\ Running' /\ UNCHANGED <<sp, fn, arg, ul, uh, vl, vh>>
        /\ dm'[24] = dm[24]
    BY <1>2, <2>2, SameArguments DEF Goes
  <2>4. dm[24] = ul /\ Bits(dm[84]) = Bits(ul) \cap (0..3)
    BY <1>2 DEF IoAt, Given, IoExact, Port, Ctrl
  <2>5. dm[84] \in Byte
    BY Located DEF Running, Regs
  <2>6. dm[84] = ul % 16
    BY <2>4, <2>5, Arguments, FourBits
  <2>. QED
    BY <2>2, <2>3, <2>4, <2>5, <2>6 DEF IoAt, Given, IoExact, Port, Ctrl
<1>3. CASE pc = 3
  <2>1. I = RI("OUT", 24, 56)
    BY <1>3, IoProgram DEF I, Running
  <2>2. Goes({56})
          /\ Bits(dm'[56]) = (Bits(dm[56]) \ IoMask[56]) \cup (Bits(dm[24]) \cap IoMask[56])
    BY <2>1, OutRuns
  <2>3. /\ pc' = 4 /\ Running' /\ UNCHANGED <<sp, fn, arg, ul, uh, vl, vh>>
        /\ dm'[18] = dm[18]
    BY <1>3, <2>2, SameArguments DEF Goes
  <2>4. dm[24] = ul /\ dm[18] = ul % 16
    BY <1>3 DEF IoAt, Given, IoExact, Port, Ctrl
  <2>5. Bits(dm'[56]) = Bits(ul)
    BY <2>2, <2>4, Located DEF Bits
  <2>. QED
    BY <2>2, <2>3, <2>4, <2>5 DEF IoAt, Given, IoExact, Port, Ctrl
<1>4. CASE pc = 4
  <2>1. I = A("CBI", 0, 0, 56)
    BY <1>4, IoProgram DEF I, Running
  <2>2. Goes({56}) /\ Bits(dm'[56]) = Bits(dm[56]) \ {0}
    BY <2>1, SbiRuns
  <2>3. /\ pc' = 5 /\ Running' /\ UNCHANGED <<sp, fn, arg, ul, uh, vl, vh>>
        /\ dm'[18] = dm[18]
    BY <1>4, <2>2, SameArguments DEF Goes
  <2>4. dm[18] = ul % 16 /\ Bits(dm[56]) = Bits(ul)
    BY <1>4 DEF IoAt, Given, IoExact, Port, Ctrl
  <2>. QED
    BY <2>2, <2>3, <2>4 DEF IoAt, Given, IoExact, Port, Ctrl
<1>5. CASE pc = 5
  <2>1. I = A("SBI", 0, 1, 56)
    BY <1>5, IoProgram DEF I, Running
  <2>2. Goes({56}) /\ Bits(dm'[56]) = Bits(dm[56]) \cup {1}
    BY <2>1, SbiRuns
  <2>3. /\ pc' = 6 /\ Running' /\ UNCHANGED <<sp, fn, arg, ul, uh, vl, vh>>
        /\ dm'[18] = dm[18]
    BY <1>5, <2>2, SameArguments DEF Goes
  <2>4. dm[18] = ul % 16 /\ Bits(dm[56]) = Bits(ul) \ {0}
    BY <1>5 DEF IoAt, Given, IoExact, Port, Ctrl
  <2>. QED
    BY <2>2, <2>3, <2>4 DEF IoAt, Given, IoExact, Port, Ctrl
<1>6. CASE pc = 6
  <2>1. I = RI("IN", 19, 56)
    BY <1>6, IoProgram DEF I, Running
  <2>2. Goes({19}) /\ dm'[19] = dm[56]
    BY <2>1, InRuns
  <2>3. /\ pc' = 7 /\ Running' /\ UNCHANGED <<sp, fn, arg, ul, uh, vl, vh>>
        /\ dm'[18] = dm[18]
    BY <1>6, <2>2, SameArguments DEF Goes
  <2>4. dm[18] = ul % 16 /\ Bits(dm[56]) = (Bits(ul) \ {0}) \cup {1}
    BY <1>6 DEF IoAt, Given, IoExact, Port, Ctrl
  <2>5. IoExact'
    BY <2>2, <2>3, <2>4 DEF IoExact, ul
  <2>. QED
    BY <2>2, <2>3, <2>4, <2>5 DEF IoAt, Given, IoExact, Port, Ctrl
<1>7. CASE pc = 7
  <2>1. I = Ret
    BY <1>7, IoProgram DEF I, Running
  <2>2. Returns /\ UNCHANGED <<dm, sreg, pm, fn, arg>>
    BY <2>1, RetRuns
  <2>3. IoExact
    BY <1>7 DEF IoAt
  <2>4. IoExact'
    BY <2>2, <2>3 DEF IoExact, u
  <2>. QED
    BY <2>2, <2>4
<1>. QED
  BY <1>1, <1>2, <1>3, <1>4, <1>5, <1>6, <1>7 DEF IoAt

\* Cells of the memory in which the routines store.
LEMMA StoredCells ==
  \A a \in Int : (250 <= a /\ a <= 261) => a \in Store /\ a \in Locs
BY Places, Located DEF Store, Ram

\* The products of the bytes, and their low bytes one after the other.
LEMMA Products ==
  ASSUME Running
  PROVE  /\ LowProduct \in Int /\ Cross1 \in Int /\ Cross2 \in Int
         /\ 0 <= LowProduct /\ LowProduct < 65536
<1>1. LowProduct \in Int /\ Cross1 \in Int /\ Cross2 \in Int
  BY Arguments DEF LowProduct, Cross1, Cross2
<1>2. \A x, y \in Int : 0 <= x /\ x < 256 /\ 0 <= y /\ y < 256 => 0 <= x * y /\ x * y < 65536
  <2>. SUFFICES ASSUME NEW x \in Int, NEW y \in Int, 0 <= x, x < 256, 0 <= y, y < 256
                PROVE  0 <= x * y /\ x * y < 65536
    OBVIOUS
  <2>1. 0 <= x * y /\ x * y <= 255 * y
    BY SMT
  <2>. QED
    BY <2>1, SMT
<1>3. 0 <= ul * vl /\ ul * vl < 65536
  BY <1>2, Arguments
<1>. QED
  BY <1>1, <1>3 DEF LowProduct

\* The high byte of a sum: a high byte and a low byte are added, and the carry is lost.
LEMMA AddedLow ==
  ASSUME NEW a \in Int, NEW b \in Int, NEW c \in {0, 1}, NEW n \in Byte, n + 256 * c = High(a) + Low(b)
  PROVE  n = Low(High(a) + b)
<1>. DEFINE h == High(a)
            l == Low(b)
            q == b \div 256
<1>1. h \in Int /\ l \in Int /\ q \in Int /\ b = l + 256 * q
  BY LowHigh DEF Low, Byte
<1>. HIDE DEF h, l, q
<1>2. n = (h + b) % 256
  <2>1. n \in Int /\ 0 <= n /\ n < 256
    BY DEF Byte
  <2>2. n + 256 * c = h + l
    BY DEF h, l
  <2>. QED
    BY <1>1, <2>1, <2>2, SMT
<1>. QED
  BY <1>2 DEF h, Low

\* The same for two low bytes.
LEMMA AddedTwice ==
  ASSUME NEW a \in Int, NEW b \in Int, NEW c \in {0, 1}, NEW n \in Byte, n + 256 * c = Low(a) + Low(b)
  PROVE  n = Low(a + b)
<1>. DEFINE h == Low(a)
            l == Low(b)
            q == b \div 256
            p == a \div 256
<1>1. h \in Int /\ l \in Int /\ q \in Int /\ p \in Int /\ b = l + 256 * q /\ a = h + 256 * p
  BY DEF Low
<1>. HIDE DEF h, l, q, p
<1>2. n = (a + b) % 256
  <2>1. n \in Int /\ 0 <= n /\ n < 256
    BY DEF Byte
  <2>2. n + 256 * c = h + l
    BY DEF h, l
  <2>. QED
    BY <1>1, <2>1, <2>2, SMT
<1>. QED
  BY <1>2 DEF Low

CrossedSum(p, x, y) ==
  Low(p) + 256 * Low(High(p) + x + y) = (p + 256 * ((x + y) % 256)) % 65536
\* The high byte takes both crossed products, modulo 256.
LEMMA LowSum ==
  ASSUME NEW p \in Int, 0 <= p, p < 65536, NEW x \in Int, NEW y \in Int
  PROVE  CrossedSum(p, x, y)
<1>. DEFINE l == Low(p)
            h == High(p)
            s == x + y
            m == s % 256
            k == s \div 256
            g == (h + s) % 256
<1>1. /\ l \in Int /\ h \in Int /\ s \in Int /\ m \in Int /\ k \in Int /\ g \in Int
      /\ 0 <= l /\ l < 256 /\ 0 <= h /\ h < 256 /\ 0 <= m /\ m < 256 /\ 0 <= g /\ g < 256
      /\ s = m + 256 * k
  BY LowHigh, SMTT(60) DEF Low, Byte
<1>2. p = l + 256 * h
  BY BytesOfWord, SMT
<1>3. High(p) + x + y = h + s
  BY <1>1
<1>. HIDE DEF l, h, s, m
<1>4. \E j \in Int : h + s = g + 256 * j
  BY <1>1, SMT
<1>. HIDE DEF k, g
<1>5. PICK j \in Int : h + s = g + 256 * j
  BY <1>4
<1>6. l + 256 * g = (p + 256 * m) % 65536
  <2>. DEFINE e == l + 256 * g
              i == k - j
  <2>1. e \in Int /\ 0 <= e /\ e < 65536 /\ i \in Int
    BY <1>1, SMT
  <2>2. p + 256 * m = e - 65536 * i
    BY <1>1, <1>2, <1>5, SMT
  <2>. HIDE DEF e, i
  <2>3. e = (e - 65536 * i) % 65536
    BY <2>1, SMT
  <2>. QED
    BY <2>2, <2>3 DEF e
<1>7. Low(High(p) + x + y) = g
  BY <1>3 DEF g, Low
<1>. QED
  BY <1>6, <1>7 DEF l, m, s, CrossedSum

\* EOR of a register with itself.
LEMMA ClearRuns ==
  ASSUME Running, Next, NEW d \in Reg, I = RR("EOR", d, d)
  PROVE  Goes({d}) /\ dm'[d] = 0
<1>. DEFINE y == dm[d]
            S == (Bits(dm[d]) \ Bits(y)) \cup (Bits(y) \ Bits(dm[d]))
<1>0. I = RR("EOR", d, d) /\ y = dm[d] /\ S = (Bits(dm[d]) \ Bits(y)) \cup (Bits(y) \ Bits(dm[d]))
  OBVIOUS
<1>. HIDE DEF y, S
<1>1. Goes({d}) /\ dm'[d] \in Byte /\ Bits(dm'[d]) = S
  BY <1>0, LogicRuns
<1>2. Bits(dm'[d]) = Bits(0) /\ 0 \in Byte
  BY <1>1, NoBits DEF S, y, Byte
<1>. QED
  BY <1>1, <1>2, SameBits

\* modify: what LAT, LAS, LAC and XCH leave at 250 and take from there.
LEMMA ModifyHolds ==
  ASSUME Running, Level, fn = "modify", ModifyAt, Next
  PROVE  \/ Running' /\ ModifyAt' /\ UNCHANGED <<sp, fn, arg>>
         \/ Returns /\ ModifyExact' /\ UNCHANGED <<pm, fn, arg>>
<1>. USE Registers, MoreRegisters
<1>0. 250 \in Store /\ 250 \in Locs
  BY StoredCells
<1>1. CASE pc = 1
  <2>1. I = RI("LDI", 30, 250)
    BY <1>1, ModifyProgram DEF I, Running
  <2>2. Goes({30}) /\ dm'[30] = 250
    BY <1>0, <2>1, ByteNumbers, MoveRuns
  <2>3. /\ pc' = 2 /\ Running' /\ UNCHANGED <<sp, fn, arg, ul, uh, vl, vh>>
        /\ dm'[22] = dm[22] /\ dm'[23] = dm[23] /\ dm'[24] = dm[24] /\ dm'[25] = dm[25]
    BY <1>0, <1>1, <2>2, SameArguments DEF Goes
  <2>4. Given
    BY <1>1 DEF ModifyAt, Buf1
  <2>. QED
    BY <2>2, <2>3, <2>4 DEF ModifyAt, Buf1, Given
<1>2. CASE pc = 2
  <2>1. I = RI("LDI", 31, 0)
    BY <1>2, ModifyProgram DEF I, Running
  <2>2. Goes({31}) /\ dm'[31] = 0
    BY <1>0, <2>1, ByteNumbers, MoveRuns
  <2>3. /\ pc' = 3 /\ Running' /\ UNCHANGED <<sp, fn, arg, ul, uh, vl, vh>>
        /\ dm'[22] = dm[22] /\ dm'[23] = dm[23] /\ dm'[24] = dm[24] /\ dm'[25] = dm[25]
        /\ dm'[30] = dm[30]
    BY <1>0, <1>2, <2>2, SameArguments DEF Goes
  <2>4. Given /\ dm[30] = 250
    BY <1>2 DEF ModifyAt, Buf1
  <2>. QED
    BY <2>2, <2>3, <2>4 DEF ModifyAt, Buf1, Given, Word
<1>3. CASE pc = 3
  <2>1. I = A("ST", 24, 30, 0)
    BY <1>3, ModifyProgram DEF I, Running
  <2>0. 250 = Word(30) + 0
    BY <1>3 DEF ModifyAt
  <2>2. Goes({250}) /\ dm'[250] = dm[24]
    BY <1>0, <2>1, <1>0, <2>0, StRuns
  <2>3. /\ pc' = 4 /\ Running' /\ UNCHANGED <<sp, fn, arg, ul, uh, vl, vh>>
        /\ dm'[22] = dm[22] /\ dm'[25] = dm[25] /\ dm'[30] = dm[30] /\ dm'[31] = dm[31]
    BY <1>0, <1>3, <2>2, SameArguments DEF Goes
  <2>4. Given /\ Word(30) = 250
    BY <1>3 DEF ModifyAt, Buf1
  <2>5. Word(30)' = Word(30)
    BY <2>3 DEF Word
  <2>6. dm'[250] = ul /\ dm'[25] = uh /\ dm'[22] = vl
    BY <2>2, <2>3, <2>4 DEF Given
  <2>. QED
    BY <2>2, <2>3, <2>4, <2>5, <2>6 DEF ModifyAt, Buf1
<1>4. CASE pc = 4
  <2>1. I = RR("MOV", 16, 22)
    BY <1>4, ModifyProgram DEF I, Running
  <2>2. Goes({16}) /\ dm'[16] = dm[22]
    BY <1>0, <2>1, MoveRuns, SMTT(30)
  <2>3. /\ pc' = 5 /\ Running' /\ UNCHANGED <<sp, fn, arg, ul, uh, vl, vh>>
        /\ dm'[22] = dm[22] /\ dm'[25] = dm[25] /\ dm'[30] = dm[30] /\ dm'[31] = dm[31]
        /\ dm'[250] = dm[250]
    BY <1>0, <1>4, <2>2, SameArguments DEF Goes
  <2>4. Word(30) = 250 /\ dm[25] = uh /\ dm[22] = vl /\ Bits(dm[250]) = Bits(ul)
    BY <1>4 DEF ModifyAt, Buf1
  <2>5. Word(30)' = Word(30)
    BY <2>3 DEF Word
  <2>. QED
    BY <2>2, <2>3, <2>4, <2>5 DEF ModifyAt, Buf1
<1>5. CASE pc = 5
  <2>1. I = R("LAT", 16)
    BY <1>5, ModifyProgram DEF I, Running
  <2>0. 250 = Word(30)
    BY <1>5 DEF ModifyAt
  <2>2. /\ Goes({16, 250}) /\ dm'[16] = dm[250] /\ dm'[250] \in Byte
        /\ Bits(dm'[250]) = Modified("LAT", Bits(dm[250]), Bits(dm[16]))
    BY <1>0, <2>1, <1>0, <2>0, ModifyRuns
  <2>3. /\ pc' = 6 /\ Running' /\ UNCHANGED <<sp, fn, arg, ul, uh, vl, vh>>
        /\ dm'[22] = dm[22] /\ dm'[25] = dm[25] /\ dm'[30] = dm[30] /\ dm'[31] = dm[31]
    BY <1>0, <1>5, <2>2, SameArguments DEF Goes
  <2>4. Word(30) = 250 /\ dm[25] = uh /\ dm[22] = vl /\ Bits(dm[250]) = Bits(ul) /\ dm[16] = vl
    BY <1>5 DEF ModifyAt, Buf1
  <2>5. Word(30)' = Word(30)
    BY <2>3 DEF Word
  <2>6. Bits(dm'[250]) = Xor(Bits(ul), Bits(vl)) /\ Bits(dm'[16]) = Bits(ul)
    BY <2>2, <2>4 DEF Modified, Xor
  <2>. QED
    BY <2>2, <2>3, <2>4, <2>5, <2>6 DEF ModifyAt, Buf1
<1>6. CASE pc = 6
  <2>1. I = RR("MOV", 17, 22)
    BY <1>6, ModifyProgram DEF I, Running
  <2>2. Goes({17}) /\ dm'[17] = dm[22]
    BY <1>0, <2>1, MoveRuns, SMTT(30)
  <2>3. /\ pc' = 7 /\ Running' /\ UNCHANGED <<sp, fn, arg, ul, uh, vl, vh>>
        /\ dm'[16] = dm[16] /\ dm'[22] = dm[22] /\ dm'[25] = dm[25] /\ dm'[30] = dm[30]
        /\ dm'[31] = dm[31] /\ dm'[250] = dm[250]
    BY <1>0, <1>6, <2>2, SameArguments DEF Goes
  <2>4. Word(30) = 250 /\ dm[25] = uh /\ dm[22] = vl
          /\ Bits(dm[250]) = Xor(Bits(ul), Bits(vl)) /\ Bits(dm[16]) = Bits(ul)
    BY <1>6 DEF ModifyAt, Buf1
  <2>5. Word(30)' = Word(30)
    BY <2>3 DEF Word
  <2>. QED
    BY <2>2, <2>3, <2>4, <2>5 DEF ModifyAt, Buf1
<1>7. CASE pc = 7
  <2>1. I = R("LAS", 17)
    BY <1>7, ModifyProgram DEF I, Running
  <2>0. 250 = Word(30)
    BY <1>7 DEF ModifyAt
  <2>2. /\ Goes({17, 250}) /\ dm'[17] = dm[250] /\ dm'[250] \in Byte
        /\ Bits(dm'[250]) = Modified("LAS", Bits(dm[250]), Bits(dm[17]))
    BY <1>0, <2>1, <1>0, <2>0, ModifyRuns
  <2>3. /\ pc' = 8 /\ Running' /\ UNCHANGED <<sp, fn, arg, ul, uh, vl, vh>>
        /\ dm'[16] = dm[16] /\ dm'[22] = dm[22] /\ dm'[25] = dm[25] /\ dm'[30] = dm[30]
        /\ dm'[31] = dm[31]
    BY <1>0, <1>7, <2>2, SameArguments DEF Goes
  <2>4. Word(30) = 250 /\ dm[25] = uh /\ dm[22] = vl
          /\ Bits(dm[250]) = Xor(Bits(ul), Bits(vl)) /\ Bits(dm[16]) = Bits(ul) /\ dm[17] = vl
    BY <1>7 DEF ModifyAt, Buf1
  <2>5. Word(30)' = Word(30)
    BY <2>3 DEF Word
  <2>6. Bits(dm'[250]) = Bits(ul) \cup Bits(vl) /\ Bits(dm'[17]) = Xor(Bits(ul), Bits(vl))
    BY <2>2, <2>4 DEF Modified, Xor
  <2>. QED
    BY <2>2, <2>3, <2>4, <2>5, <2>6 DEF ModifyAt, Buf1
<1>8. CASE pc = 8
  <2>1. I = RR("MOV", 18, 22)
    BY <1>8, ModifyProgram DEF I, Running
  <2>2. Goes({18}) /\ dm'[18] = dm[22]
    BY <1>0, <2>1, MoveRuns, SMTT(30)
  <2>3. /\ pc' = 9 /\ Running' /\ UNCHANGED <<sp, fn, arg, ul, uh, vl, vh>>
        /\ dm'[16] = dm[16] /\ dm'[17] = dm[17] /\ dm'[22] = dm[22] /\ dm'[25] = dm[25]
        /\ dm'[30] = dm[30] /\ dm'[31] = dm[31] /\ dm'[250] = dm[250]
    BY <1>0, <1>8, <2>2, SameArguments DEF Goes
  <2>4. /\ dm[22] = vl /\ Word(30) = 250 /\ dm[25] = uh /\ Bits(dm[250]) = Bits(ul) \cup Bits(vl)
        /\ Bits(dm[16]) = Bits(ul) /\ Bits(dm[17]) = Xor(Bits(ul), Bits(vl))
    BY <1>8 DEF ModifyAt, Buf1
  <2>5. Word(30)' = Word(30)
    BY <2>3 DEF Word
  <2>. QED
    BY <2>2, <2>3, <2>4, <2>5 DEF ModifyAt, Buf1
<1>9. CASE pc = 9
  <2>1. I = R("LAC", 18)
    BY <1>9, ModifyProgram DEF I, Running
  <2>0. 250 = Word(30)
    BY <1>9 DEF ModifyAt
  <2>2. /\ Goes({18, 250}) /\ dm'[18] = dm[250] /\ dm'[250] \in Byte
        /\ Bits(dm'[250]) = Modified("LAC", Bits(dm[250]), Bits(dm[18]))
    BY <1>0, <2>1, <1>0, <2>0, ModifyRuns
  <2>3. /\ pc' = 10 /\ Running' /\ UNCHANGED <<sp, fn, arg, ul, uh, vl, vh>>
        /\ dm'[16] = dm[16] /\ dm'[17] = dm[17] /\ dm'[25] = dm[25] /\ dm'[30] = dm[30]
        /\ dm'[31] = dm[31]
    BY <1>0, <1>9, <2>2, SameArguments DEF Goes
  <2>4. /\ Word(30) = 250 /\ dm[25] = uh /\ Bits(dm[250]) = Bits(ul) \cup Bits(vl)
        /\ Bits(dm[16]) = Bits(ul) /\ Bits(dm[17]) = Xor(Bits(ul), Bits(vl)) /\ dm[18] = vl
    BY <1>9 DEF ModifyAt, Buf1
  <2>5. Word(30)' = Word(30)
    BY <2>3 DEF Word
  <2>6. Bits(dm'[250]) = Bits(ul) \ Bits(vl) /\ Bits(dm'[18]) = Bits(ul) \cup Bits(vl)
    BY <2>2, <2>4 DEF Modified
  <2>. QED
    BY <2>2, <2>3, <2>4, <2>5, <2>6 DEF ModifyAt, Buf1
<1>10. CASE pc = 10
  <2>1. I = R("XCH", 25)
    BY <1>10, ModifyProgram DEF I, Running
  <2>0. 250 = Word(30)
    BY <1>10 DEF ModifyAt
  <2>2. /\ Goes({25, 250}) /\ dm'[25] = dm[250] /\ dm'[250] \in Byte
        /\ Bits(dm'[250]) = Modified("XCH", Bits(dm[250]), Bits(dm[25]))
    BY <1>0, <2>1, <1>0, <2>0, ModifyRuns
  <2>3. /\ pc' = 11 /\ Running' /\ UNCHANGED <<sp, fn, arg, ul, uh, vl, vh>>
        /\ dm'[16] = dm[16] /\ dm'[17] = dm[17] /\ dm'[18] = dm[18] /\ dm'[30] = dm[30]
        /\ dm'[31] = dm[31]
    BY <1>0, <1>10, <2>2, SameArguments DEF Goes
  <2>4. /\ Word(30) = 250 /\ dm[25] = uh /\ Bits(dm[250]) = Bits(ul) \ Bits(vl)
        /\ Bits(dm[16]) = Bits(ul) /\ Bits(dm[17]) = Xor(Bits(ul), Bits(vl)) /\ Bits(dm[18]) = Bits(ul) \cup Bits(vl)
    BY <1>10 DEF ModifyAt, Buf1
  <2>5. Word(30)' = Word(30)
    BY <2>3 DEF Word
  <2>6. dm'[250] = uh
    BY <2>2, <2>4, Arguments, SameBits DEF Modified
  <2>7. ModifyExact'
    BY <2>2, <2>3, <2>4, <2>6 DEF ModifyExact, Xor, Buf1, ul, uh, vl
  <2>. QED
    BY <2>2, <2>3, <2>4, <2>5, <2>6, <2>7 DEF ModifyAt, Buf1
<1>11. CASE pc = 11
  <2>1. I = Ret
    BY <1>11, ModifyProgram DEF I, Running
  <2>2. Returns /\ UNCHANGED <<dm, sreg, pm, fn, arg>>
    BY <2>1, RetRuns
  <2>3. ModifyExact
    BY <1>11 DEF ModifyAt
  <2>4. ModifyExact'
    BY <2>2, <2>3 DEF ModifyExact, u, v
  <2>. QED
    BY <2>2, <2>4
<1>. QED
  BY <1>1, <1>2, <1>3, <1>4, <1>5, <1>6, <1>7, <1>8, <1>9, <1>10, <1>11 DEF ModifyAt

\* mul: the low product, and the crossed products in its high byte.
LEMMA MulHolds ==
  ASSUME Running, Level, fn = "mul", MulAt, Next
  PROVE  \/ Running' /\ MulAt' /\ UNCHANGED <<sp, fn, arg>>
         \/ Returns /\ MulExact' /\ UNCHANGED <<pm, fn, arg>>
<1>. USE Registers, MoreRegisters
<1>1. CASE pc = 1
  <2>1. I = RR("MUL", 24, 22)
    BY <1>1, MulProgram DEF I, Running
  <2>. DEFINE p == ul * vl
  <2>9. p = Factors("MUL", dm[24], dm[22]) /\ p \in Int
    BY <1>1, Arguments DEF MulAt, Factored, Factors
  <2>. HIDE DEF p
  <2>2. Goes({0, 1}) /\ dm'[0] = Low(p) /\ dm'[1] = High(p)
    BY <2>1, <2>9, MulRuns
  <2>3. /\ pc' = 2 /\ Running' /\ UNCHANGED <<sp, fn, arg, ul, uh, vl, vh>>
        /\ dm'[22] = dm[22] /\ dm'[23] = dm[23] /\ dm'[24] = dm[24] /\ dm'[25] = dm[25]
    BY <1>1, <2>2, SameArguments DEF Goes
  <2>4. Factored
    BY <1>1 DEF MulAt
  <2>5. UNCHANGED LowProduct /\ p = LowProduct
    BY <2>3 DEF LowProduct, p
  <2>. QED
    BY <2>2, <2>3, <2>4, <2>5 DEF MulAt, Factored
<1>2. CASE pc = 2
  <2>1. I = RR("MOVW", 18, 0)
    BY <1>2, MulProgram DEF I, Running
  <2>2. Goes({18, 18 + 1}) /\ dm'[18] = dm[0] /\ dm'[18 + 1] = dm[0 + 1]
    BY <2>1, MovwRuns
  <2>3. /\ pc' = 3 /\ Running' /\ UNCHANGED <<sp, fn, arg, ul, uh, vl, vh>>
        /\ dm'[22] = dm[22] /\ dm'[23] = dm[23] /\ dm'[24] = dm[24] /\ dm'[25] = dm[25]
    BY <1>2, <2>2, SameArguments DEF Goes
  <2>4. Factored /\ dm[0] = Low(LowProduct) /\ dm[1] = High(LowProduct)
    BY <1>2 DEF MulAt
  <2>5. UNCHANGED <<LowProduct, Cross1, Cross2>>
    BY <2>3 DEF LowProduct, Cross1, Cross2
  <2>. QED
    BY <2>2, <2>3, <2>4, <2>5 DEF MulAt, Factored
<1>3. CASE pc = 3
  <2>1. I = RR("MUL", 24, 23)
    BY <1>3, MulProgram DEF I, Running
  <2>. DEFINE p == ul * vh
  <2>9. p = Factors("MUL", dm[24], dm[23]) /\ p \in Int
    BY <1>3, Arguments DEF MulAt, Factored, Factors
  <2>. HIDE DEF p
  <2>2. Goes({0, 1}) /\ dm'[0] = Low(p)
    BY <2>1, <2>9, MulRuns
  <2>3. /\ pc' = 4 /\ Running' /\ UNCHANGED <<sp, fn, arg, ul, uh, vl, vh>>
        /\ dm'[18] = dm[18] /\ dm'[19] = dm[19] /\ dm'[22] = dm[22] /\ dm'[23] = dm[23]
        /\ dm'[24] = dm[24] /\ dm'[25] = dm[25]
    BY <1>3, <2>2, SameArguments DEF Goes
  <2>4. Factored /\ dm[18] = Low(LowProduct) /\ dm[19] = High(LowProduct)
    BY <1>3 DEF MulAt
  <2>5. UNCHANGED <<LowProduct, Cross1, Cross2>>
    BY <2>3 DEF LowProduct, Cross1, Cross2
  <2>6. p = Cross1
    BY DEF p, Cross1
  <2>. QED
    BY <2>2, <2>3, <2>4, <2>5, <2>6 DEF MulAt, Factored
<1>4. CASE pc = 4
  <2>1. I = RR("ADD", 19, 0)
    BY <1>4, MulProgram DEF I, Running
  <2>2. Goes({19}) /\ dm'[19] + 256 * Carry' = dm[19] + dm[0]
    BY <2>1, AddRuns
  <2>3. /\ pc' = 5 /\ Running' /\ UNCHANGED <<sp, fn, arg, ul, uh, vl, vh>>
        /\ dm'[18] = dm[18] /\ dm'[22] = dm[22] /\ dm'[23] = dm[23] /\ dm'[24] = dm[24]
        /\ dm'[25] = dm[25]
    BY <1>4, <2>2, SameArguments DEF Goes
  <2>4. Factored /\ dm[18] = Low(LowProduct) /\ dm[19] = High(LowProduct) /\ dm[0] = Low(Cross1)
    BY <1>4 DEF MulAt
  <2>5. UNCHANGED <<LowProduct, Cross1, Cross2>>
    BY <2>3 DEF LowProduct, Cross1, Cross2
  <2>6. dm'[19] = Low(High(LowProduct) + Cross1)
    BY <2>2, <2>4, Products, GoesTypes, AddedLow
  <2>. QED
    BY <2>2, <2>3, <2>4, <2>5, <2>6 DEF MulAt, Factored
<1>5. CASE pc = 5
  <2>1. I = RR("MUL", 25, 22)
    BY <1>5, MulProgram DEF I, Running
  <2>. DEFINE p == uh * vl
  <2>9. p = Factors("MUL", dm[25], dm[22]) /\ p \in Int
    BY <1>5, Arguments DEF MulAt, Factored, Factors
  <2>. HIDE DEF p
  <2>2. Goes({0, 1}) /\ dm'[0] = Low(p)
    BY <2>1, <2>9, MulRuns
  <2>3. /\ pc' = 6 /\ Running' /\ UNCHANGED <<sp, fn, arg, ul, uh, vl, vh>>
        /\ dm'[18] = dm[18] /\ dm'[19] = dm[19]
    BY <1>5, <2>2, SameArguments DEF Goes
  <2>4. dm[18] = Low(LowProduct) /\ dm[19] = Low(High(LowProduct) + Cross1)
    BY <1>5 DEF MulAt
  <2>5. UNCHANGED <<LowProduct, Cross1, Cross2>>
    BY <2>3 DEF LowProduct, Cross1, Cross2
  <2>6. p = Cross2
    BY DEF p, Cross2
  <2>. QED
    BY <2>2, <2>3, <2>4, <2>5, <2>6 DEF MulAt
<1>6. CASE pc = 6
  <2>1. I = RR("ADD", 19, 0)
    BY <1>6, MulProgram DEF I, Running
  <2>2. Goes({19}) /\ dm'[19] + 256 * Carry' = dm[19] + dm[0]
    BY <2>1, AddRuns
  <2>3. /\ pc' = 7 /\ Running' /\ UNCHANGED <<sp, fn, arg, ul, uh, vl, vh>>
        /\ dm'[18] = dm[18]
    BY <1>6, <2>2, SameArguments DEF Goes
  <2>4. /\ dm[18] = Low(LowProduct) /\ dm[19] = Low(High(LowProduct) + Cross1)
        /\ dm[0] = Low(Cross2)
    BY <1>6 DEF MulAt
  <2>5. UNCHANGED <<LowProduct, Cross1, Cross2>>
    BY <2>3 DEF LowProduct, Cross1, Cross2
  <2>6. dm'[19] = Low(High(LowProduct) + Cross1 + Cross2)
    <3>. DEFINE a == High(LowProduct) + Cross1
    <3>1. a \in Int /\ Cross2 \in Int
      BY Products, LowHigh, SMTT(60) DEF Byte
    <3>2. dm'[19] + 256 * Carry' = Low(a) + Low(Cross2)
      BY <2>2, <2>4
    <3>3. dm'[19] \in Byte /\ Carry' \in {0, 1}
      BY <2>2, GoesTypes
    <3>. HIDE DEF a
    <3>4. dm'[19] = Low(a + Cross2)
      BY <3>1, <3>2, <3>3, AddedTwice
    <3>. QED
      BY <3>4 DEF a
  <2>. QED
    BY <2>2, <2>3, <2>4, <2>5, <2>6 DEF MulAt
<1>7. CASE pc = 7
  <2>1. I = RR("EOR", 1, 1)
    BY <1>7, MulProgram DEF I, Running
  <2>2. Goes({1})
    BY <2>1, ClearRuns
  <2>3. /\ pc' = 8 /\ Running' /\ UNCHANGED <<sp, fn, arg, ul, uh, vl, vh>>
        /\ dm'[18] = dm[18] /\ dm'[19] = dm[19]
    BY <1>7, <2>2, SameArguments DEF Goes
  <2>4. dm[18] = Low(LowProduct) /\ dm[19] = Low(High(LowProduct) + Cross1 + Cross2)
    BY <1>7 DEF MulAt
  <2>5. UNCHANGED <<LowProduct, Cross1, Cross2>>
    BY <2>3 DEF LowProduct, Cross1, Cross2
  <2>. QED
    BY <2>2, <2>3, <2>4, <2>5 DEF MulAt
<1>8. CASE pc = 8
  <2>1. I = RR("MOVW", 24, 18)
    BY <1>8, MulProgram DEF I, Running
  <2>2. Goes({24, 24 + 1}) /\ dm'[24] = dm[18] /\ dm'[24 + 1] = dm[18 + 1]
    BY <2>1, MovwRuns
  <2>3. /\ pc' = 9 /\ Running' /\ UNCHANGED <<sp, fn, arg, ul, uh, vl, vh>>
    BY <1>8, <2>2, SameArguments DEF Goes
  <2>4. dm[18] = Low(LowProduct) /\ dm[19] = Low(High(LowProduct) + Cross1 + Cross2)
    BY <1>8 DEF MulAt
  <2>5. res' = Low(LowProduct) + 256 * Low(High(LowProduct) + Cross1 + Cross2)
    BY <2>2, <2>4 DEF res, Word
  <2>6. MulExact'
    <3>1. MulExact' <=> res' = (LowProduct + 256 * ((Cross1 + Cross2) % 256)) % 65536
      BY <2>3 DEF MulExact, LowProduct, Cross1, Cross2, ul, uh, vl, vh
    <3>2. /\ LowProduct \in Int /\ 0 <= LowProduct /\ LowProduct < 65536
          /\ Cross1 \in Int /\ Cross2 \in Int
      BY Products
    <3>3. CrossedSum(LowProduct, Cross1, Cross2)
      <4>. HIDE Registers, MoreRegisters
      <4>. QED
        BY <3>2, LowSum, SMTT(60)
    <3>. QED
      BY <2>5, <3>1, <3>3 DEF CrossedSum
  <2>. QED
    BY <2>2, <2>3, <2>4, <2>5, <2>6 DEF MulAt
<1>9. CASE pc = 9
  <2>1. I = Ret
    BY <1>9, MulProgram DEF I, Running
  <2>2. Returns /\ UNCHANGED <<dm, sreg, pm, fn, arg>>
    BY <2>1, RetRuns
  <2>3. MulExact
    BY <1>9 DEF MulAt
  <2>4. MulExact'
    BY <2>2, <2>3 DEF MulExact, res, Word, u, v
  <2>. QED
    BY <2>2, <2>4
<1>. QED
  BY <1>1, <1>2, <1>3, <1>4, <1>5, <1>6, <1>7, <1>8, <1>9 DEF MulAt

\* The stack: cells that are no registers.
LEMMA StackCells ==
  /\ Floor \in Int /\ Floor >= 268
  /\ \A s \in Int : 260 <= s /\ s <= Floor => s \in Locs /\ s \notin Reg /\ s \in 260..Floor
BY Places, Located DEF Reg

\* What a call left stays on the stack while other memory is written.
LEMMA CalledStays ==
  ASSUME Running, NEW s \in 260..Floor, NEW a, CalledFrom(a, s), NEW d \in Reg, Goes({d})
  PROVE  CalledFrom(a, s)'
<1>1. PcBytes \in {2, 3} /\ s \in Int /\ sp \in Int /\ sp = s - PcBytes /\ sp' = sp
  BY Places DEF CalledFrom, Goes
<1>2. ASSUME NEW i \in 1..PcBytes
      PROVE  sp + i \in Locs /\ sp + i # d
  <2>1. 250 <= sp + i /\ sp + i <= Floor /\ sp + i \in Int
    BY <1>1, Places
  <2>. QED
    BY <2>1, Located, LowRegisters, Places DEF Reg
<1>3. \A i \in 1..PcBytes : dm'[sp + i] = dm[sp + i]
  BY <1>2 DEF Goes
<1>. QED
  BY <1>1, <1>3 DEF CalledFrom

\* The flags a routine is called with.
LEMMA FlagsGiven == ASSUME Running PROVE arg[3] \in SUBSET (0..7)
BY FirmwareSetup DEF FirmwareSetup, Running, Loaded

\* isr: r0, SREG and r24 are pushed and popped in reverse.
LEMMA IsrHolds ==
  ASSUME Running, fn = "isr", IsrAt, Next
  PROVE  \/ Running' /\ IsrAt' /\ UNCHANGED <<fn, arg>>
         \/ Returns /\ IsrExact' /\ UNCHANGED <<pm, fn, arg>>
<1>. USE Registers, MoreRegisters
<1>0. /\ Floor \in Int /\ Floor \in Locs /\ Floor \notin Reg /\ Floor - 1 \in Locs
      /\ Floor - 1 \notin Reg /\ Floor - 2 \in Locs /\ Floor - 2 \notin Reg
      /\ Floor - 1 <= Floor /\ Floor - 2 <= Floor /\ Floor - 2 \in 260..Floor
      /\ Floor \in 260..Floor
  BY StackCells
<1>1. CASE pc = 1
  <2>1. I = R("PUSH", 0)
    BY <1>1, IsrProgram DEF I, Running
  <2>0. sp = Floor
    BY <1>1 DEF IsrAt
  <2>2. Moves({sp}, sp - 1) /\ dm'[sp] = dm[0] /\ UNCHANGED sreg
    BY <1>0, <2>1, <2>0, PushRuns
  <2>3. /\ pc' = 2 /\ Running' /\ UNCHANGED <<fn, arg, ul, uh, vl, vh>>
        /\ dm'[24] = dm[24] /\ dm'[25] = dm[25] /\ sp' = Floor - 1
    BY <1>0, <1>1, <2>0, <2>2, SameArguments DEF Leaves, Moves, GoesTo
  <2>4. dm[24] = ul /\ dm[25] = uh /\ dm[0] = 0 /\ sreg = arg[3]
    BY <1>1 DEF IsrAt, KeptReg, Kept0, KeptSr
  <2>5. dm'[Floor] = dm[0]
    BY <2>0, <2>2
  <2>. QED
    BY <2>2, <2>3, <2>4, <2>5 DEF IsrAt, KeptReg, Kept0, KeptSr
<1>2. CASE pc = 2
  <2>1. I = RI("IN", 0, SREG)
    BY <1>2, IsrProgram DEF I, Running
  <2>2. Goes({0}) /\ UNCHANGED sreg /\ dm'[0] = ByteOf(sreg)
    BY <1>0, <2>1, InRuns
  <2>3. /\ pc' = 3 /\ Running' /\ UNCHANGED <<fn, arg, ul, uh, vl, vh>>
        /\ dm'[24] = dm[24] /\ dm'[25] = dm[25] /\ dm'[Floor] = dm[Floor]
        /\ UNCHANGED sp
    BY <1>0, <1>2, <2>2, SameArguments DEF Goes
  <2>4. sp = Floor - 1 /\ dm[24] = ul /\ dm[25] = uh /\ dm[Floor] = 0 /\ sreg = arg[3]
    BY <1>2 DEF IsrAt, KeptReg, Kept0, KeptSr
  <2>. QED
    BY <2>2, <2>3, <2>4 DEF IsrAt, KeptReg, Kept0, KeptSr
<1>3. CASE pc = 3
  <2>1. I = R("PUSH", 0)
    BY <1>3, IsrProgram DEF I, Running
  <2>0. sp = Floor - 1
    BY <1>3 DEF IsrAt
  <2>2. Moves({sp}, sp - 1) /\ dm'[sp] = dm[0] /\ UNCHANGED sreg
    BY <1>0, <2>1, <2>0, PushRuns
  <2>3. /\ pc' = 4 /\ Running' /\ UNCHANGED <<fn, arg, ul, uh, vl, vh>>
        /\ dm'[24] = dm[24] /\ dm'[25] = dm[25] /\ dm'[Floor] = dm[Floor]
        /\ sp' = Floor - 2
    BY <1>0, <1>3, <2>0, <2>2, SameArguments DEF Leaves, Moves, GoesTo
  <2>4. dm[24] = ul /\ dm[25] = uh /\ dm[Floor] = 0 /\ dm[0] = ByteOf(arg[3])
    BY <1>3 DEF IsrAt, KeptReg, Kept0, KeptSr
  <2>5. dm'[Floor - 1] = dm[0]
    BY <2>0, <2>2
  <2>. QED
    BY <2>2, <2>3, <2>4, <2>5 DEF IsrAt, KeptReg, Kept0, KeptSr
<1>4. CASE pc = 4
  <2>1. I = RI("BCLR", 0, ZERO)
    BY <1>4, IsrProgram DEF I, Running
  <2>0. ZERO \in 0..7
    BY DEF ZERO
  <2>2. Goes({})
    BY <1>0, <2>1, <2>0, BclrRuns
  <2>3. /\ pc' = 5 /\ Running' /\ UNCHANGED <<fn, arg, ul, uh, vl, vh>>
        /\ dm'[24] = dm[24] /\ dm'[25] = dm[25] /\ dm'[Floor] = dm[Floor]
        /\ dm'[Floor - 1] = dm[Floor - 1] /\ UNCHANGED sp
    BY <1>0, <1>4, <2>2, SameArguments DEF Goes
  <2>4. sp = Floor - 2 /\ dm[24] = ul /\ dm[25] = uh /\ dm[Floor] = 0
          /\ dm[Floor - 1] = ByteOf(arg[3])
    BY <1>4 DEF IsrAt, KeptReg, Kept0, KeptSr
  <2>. QED
    BY <2>2, <2>3, <2>4 DEF IsrAt, KeptReg, Kept0, KeptSr
<1>5. CASE pc = 5
  <2>1. I = RI("BSET", 0, CARRY)
    BY <1>5, IsrProgram DEF I, Running
  <2>0. CARRY \in 0..7
    BY DEF CARRY
  <2>2. Goes({})
    BY <1>0, <2>1, <2>0, BsetRuns
  <2>3. /\ pc' = 6 /\ Running' /\ UNCHANGED <<fn, arg, ul, uh, vl, vh>>
        /\ dm'[24] = dm[24] /\ dm'[25] = dm[25] /\ dm'[Floor] = dm[Floor]
        /\ dm'[Floor - 1] = dm[Floor - 1] /\ UNCHANGED sp
    BY <1>0, <1>5, <2>2, SameArguments DEF Goes
  <2>4. sp = Floor - 2 /\ dm[24] = ul /\ dm[25] = uh /\ dm[Floor] = 0
          /\ dm[Floor - 1] = ByteOf(arg[3])
    BY <1>5 DEF IsrAt, KeptReg, Kept0, KeptSr
  <2>. QED
    BY <2>2, <2>3, <2>4 DEF IsrAt, KeptReg, Kept0, KeptSr
<1>6. CASE pc = 6
  <2>1. I = R("PUSH", 24)
    BY <1>6, IsrProgram DEF I, Running
  <2>0. sp = Floor - 2
    BY <1>6 DEF IsrAt
  <2>2. Moves({sp}, sp - 1) /\ dm'[sp] = dm[24] /\ UNCHANGED sreg
    BY <1>0, <2>1, <2>0, PushRuns
  <2>3. /\ pc' = 7 /\ Running' /\ UNCHANGED <<fn, arg, ul, uh, vl, vh>>
        /\ dm'[25] = dm[25] /\ dm'[Floor] = dm[Floor] /\ dm'[Floor - 1] = dm[Floor - 1]
        /\ sp' = Floor - 3
    BY <1>0, <1>6, <2>0, <2>2, SameArguments DEF Leaves, Moves, GoesTo
  <2>4. dm[24] = ul /\ dm[25] = uh /\ dm[Floor] = 0 /\ dm[Floor - 1] = ByteOf(arg[3])
    BY <1>6 DEF IsrAt, KeptReg, Kept0, KeptSr
  <2>5. dm'[Floor - 2] = dm[24]
    BY <2>0, <2>2
  <2>. QED
    BY <2>2, <2>3, <2>4, <2>5 DEF IsrAt, KeptReg, Kept0, KeptSr
<1>7. CASE pc = 7
  <2>1. I = R("INC", 24)
    BY <1>7, IsrProgram DEF I, Running
  <2>2. Goes({24})
    BY <1>0, <2>1, IncRuns
  <2>3. /\ pc' = 8 /\ Running' /\ UNCHANGED <<fn, arg, ul, uh, vl, vh>>
        /\ dm'[25] = dm[25] /\ dm'[Floor] = dm[Floor] /\ dm'[Floor - 1] = dm[Floor - 1]
        /\ dm'[Floor - 2] = dm[Floor - 2] /\ UNCHANGED sp
    BY <1>0, <1>7, <2>2, SameArguments DEF Goes
  <2>4. sp = Floor - 3 /\ dm[25] = uh /\ dm[Floor] = 0 /\ dm[Floor - 1] = ByteOf(arg[3])
          /\ dm[Floor - 2] = ul
    BY <1>7 DEF IsrAt, KeptReg, Kept0, KeptSr
  <2>. QED
    BY <2>2, <2>3, <2>4 DEF IsrAt, KeptReg, Kept0, KeptSr
<1>8. CASE pc = 8
  <2>1. I = R("POP", 24)
    BY <1>8, IsrProgram DEF I, Running
  <2>0. sp = Floor - 3 /\ sp + 1 = Floor - 2
    BY <1>0, <1>8 DEF IsrAt
  <2>2. Moves({24}, sp + 1) /\ dm'[24] = dm[sp + 1] /\ UNCHANGED sreg
    BY <1>0, <2>1, <2>0, PopRuns
  <2>3. /\ pc' = 9 /\ Running' /\ UNCHANGED <<fn, arg, ul, uh, vl, vh>>
        /\ dm'[25] = dm[25] /\ dm'[Floor] = dm[Floor] /\ dm'[Floor - 1] = dm[Floor - 1]
        /\ sp' = Floor - 2
    BY <1>0, <1>8, <2>0, <2>2, SameArguments DEF Leaves, Moves, GoesTo
  <2>4. dm[25] = uh /\ dm[Floor] = 0 /\ dm[Floor - 1] = ByteOf(arg[3]) /\ dm[Floor - 2] = ul
    BY <1>8 DEF IsrAt, KeptReg, Kept0, KeptSr
  <2>5. dm'[24] = dm[Floor - 2]
    BY <2>0, <2>2
  <2>. QED
    BY <2>2, <2>3, <2>4, <2>5 DEF IsrAt, KeptReg, Kept0, KeptSr
<1>9. CASE pc = 9
  <2>1. I = R("POP", 0)
    BY <1>9, IsrProgram DEF I, Running
  <2>0. sp = Floor - 2 /\ sp + 1 = Floor - 1
    BY <1>0, <1>9 DEF IsrAt
  <2>2. Moves({0}, sp + 1) /\ dm'[0] = dm[sp + 1] /\ UNCHANGED sreg
    BY <1>0, <2>1, <2>0, PopRuns
  <2>3. /\ pc' = 10 /\ Running' /\ UNCHANGED <<fn, arg, ul, uh, vl, vh>>
        /\ dm'[24] = dm[24] /\ dm'[25] = dm[25] /\ dm'[Floor] = dm[Floor]
        /\ sp' = Floor - 1
    BY <1>0, <1>9, <2>0, <2>2, SameArguments DEF Leaves, Moves, GoesTo
  <2>4. dm[24] = ul /\ dm[25] = uh /\ dm[Floor] = 0 /\ dm[Floor - 1] = ByteOf(arg[3])
    BY <1>9 DEF IsrAt, KeptReg, Kept0, KeptSr
  <2>5. dm'[0] = dm[Floor - 1]
    BY <2>0, <2>2
  <2>. QED
    BY <2>2, <2>3, <2>4, <2>5 DEF IsrAt, KeptReg, Kept0, KeptSr
<1>10. CASE pc = 10
  <2>1. I = RI("OUT", 0, SREG)
    BY <1>10, IsrProgram DEF I, Running
  <2>2. Goes({}) /\ sreg' = Bits(dm[0])
    BY <1>0, <2>1, OutSregRuns
  <2>3. /\ pc' = 11 /\ Running' /\ UNCHANGED <<fn, arg, ul, uh, vl, vh>>
        /\ dm'[24] = dm[24] /\ dm'[25] = dm[25] /\ dm'[Floor] = dm[Floor]
        /\ UNCHANGED sp
    BY <1>0, <1>10, <2>2, SameArguments DEF Goes
  <2>4. sp = Floor - 1 /\ dm[24] = ul /\ dm[25] = uh /\ dm[Floor] = 0 /\ dm[0] = ByteOf(arg[3])
    BY <1>10 DEF IsrAt, KeptReg, Kept0, KeptSr
  <2>5. sreg' = arg[3]
    BY <2>2, <2>4, FlagsGiven, BitsOfByteOf
  <2>. QED
    BY <2>2, <2>3, <2>4, <2>5 DEF IsrAt, KeptReg, Kept0, KeptSr
<1>11. CASE pc = 11
  <2>1. I = R("POP", 0)
    BY <1>11, IsrProgram DEF I, Running
  <2>0. sp = Floor - 1 /\ sp + 1 = Floor
    BY <1>0, <1>11 DEF IsrAt
  <2>2. Moves({0}, sp + 1) /\ dm'[0] = dm[sp + 1] /\ UNCHANGED sreg
    BY <1>0, <2>1, <2>0, PopRuns
  <2>3. /\ pc' = 12 /\ Running' /\ UNCHANGED <<fn, arg, ul, uh, vl, vh>>
        /\ dm'[24] = dm[24] /\ dm'[25] = dm[25] /\ sp' = Floor
    BY <1>0, <1>11, <2>0, <2>2, SameArguments DEF Leaves, Moves, GoesTo
  <2>4. dm[24] = ul /\ dm[25] = uh /\ dm[Floor] = 0 /\ sreg = arg[3]
    BY <1>11 DEF IsrAt, KeptReg, Kept0, KeptSr
  <2>5. dm'[0] = dm[Floor]
    BY <2>0, <2>2
  <2>. QED
    BY <2>2, <2>3, <2>4, <2>5 DEF IsrAt, KeptReg, Kept0, KeptSr
<1>12. CASE pc = 12
  <2>1. I = N("RETI")
    BY <1>12, IsrProgram DEF I, Running
  <2>2. sp = Floor /\ KeptReg /\ dm[0] = 0 /\ sreg = arg[3]
    BY <1>12 DEF IsrAt
  <2>3. Returns /\ sreg' = sreg \cup {GLOBINT} /\ UNCHANGED <<dm, pm, fn, arg>>
    BY <2>1, <2>2, RetiRuns DEF Level
  <2>4. Word(24) = u
    BY <2>2, Arguments DEF Word, KeptReg
  <2>5. Word(24)' = Word(24) /\ u' = u
    BY <2>3 DEF Word, u
  <2>6. IsrExact'
    BY <2>2, <2>3, <2>4, <2>5 DEF IsrExact, res
  <2>. QED
    BY <2>3, <2>6
<1>. QED
  BY <1>1, <1>2, <1>3, <1>4, <1>5, <1>6, <1>7, <1>8, <1>9, <1>10, <1>11, <1>12 DEF IsrAt

\* calls: a waits on the stack while the routine in the middle is called.
LEMMA CallsHolds ==
  ASSUME Running, fn = "calls", CallsAt, Next
  PROVE  \/ Running' /\ CallsAt' /\ UNCHANGED <<fn, arg>>
         \/ Returns /\ (res = u)' /\ UNCHANGED <<pm, fn, arg>>
<1>. USE Registers, MoreRegisters
<1>0. /\ Floor \in Int /\ Floor \in Locs /\ Floor \notin Reg /\ Floor - 1 \in Locs
      /\ Floor - 1 \notin Reg /\ Floor - 2 \in Locs /\ Floor - 2 \notin Reg
      /\ Floor - 1 <= Floor /\ Floor - 2 <= Floor /\ Floor - 2 \in 260..Floor
      /\ Floor \in 260..Floor
  BY StackCells
<1>1. CASE pc = 1
  <2>1. I = R("PUSH", 24)
    BY <1>1, CallsProgram DEF I, Running
  <2>0. sp = Floor
    BY <1>1 DEF CallsAt, Level
  <2>2. Moves({sp}, sp - 1) /\ dm'[sp] = dm[24] /\ UNCHANGED sreg
    BY <1>0, <2>1, <2>0, PushRuns
  <2>3. /\ pc' = 2 /\ Running' /\ UNCHANGED <<fn, arg, ul, uh, vl, vh>>
        /\ dm'[25] = dm[25] /\ sp' = Floor - 1
    BY <1>0, <1>1, <2>0, <2>2, SameArguments DEF Leaves, Moves, GoesTo
  <2>4. sp = Floor /\ Given
    BY <1>1 DEF CallsAt, Saved, Level, Given
  <2>5. dm'[Floor] = dm[24]
    BY <2>0, <2>2
  <2>. QED
    BY <2>2, <2>3, <2>4, <2>5 DEF CallsAt, Saved, Level, Given
<1>2. CASE pc = 2
  <2>1. I = R("PUSH", 25)
    BY <1>2, CallsProgram DEF I, Running
  <2>0. sp = Floor - 1
    BY <1>2 DEF CallsAt
  <2>2. Moves({sp}, sp - 1) /\ dm'[sp] = dm[25] /\ UNCHANGED sreg
    BY <1>0, <2>1, <2>0, PushRuns
  <2>3. /\ pc' = 3 /\ Running' /\ UNCHANGED <<fn, arg, ul, uh, vl, vh>>
        /\ dm'[Floor] = dm[Floor] /\ sp' = Floor - 2
    BY <1>0, <1>2, <2>0, <2>2, SameArguments DEF Leaves, Moves, GoesTo
  <2>4. dm[Floor] = ul /\ dm[25] = uh
    BY <1>2 DEF CallsAt, Saved, Level
  <2>5. dm'[Floor - 1] = dm[25]
    BY <2>0, <2>2
  <2>. QED
    BY <2>2, <2>3, <2>4, <2>5 DEF CallsAt, Saved, Level
<1>3. CASE pc = 3
  <2>1. I = RI("RCALL", 0, 10)
    BY <1>3, CallsProgram DEF I, Running
  <2>0. sp = Floor - 2 /\ 14 = pc + 10 + 1 /\ 4 = pc + 1
    BY <1>3, CallsProgram DEF CallsAt, Running
  <2>2. Leaves(Pushed(Floor - 2)) /\ pc' = 14 /\ CalledFrom(4, Floor - 2)' /\ UNCHANGED sreg
    BY <1>0, <2>1, <2>0, ByteNumbers, CallingRuns
  <2>3. /\ pc' = 14 /\ Running' /\ UNCHANGED <<fn, arg, ul, uh, vl, vh>>
        /\ dm'[Floor] = dm[Floor] /\ dm'[Floor - 1] = dm[Floor - 1]
    BY <1>0, <1>3, <2>0, <2>2, SameArguments, StackCells, Places DEF Leaves, Pushed
  <2>4. sp = Floor - 2 /\ dm[Floor] = ul /\ dm[Floor - 1] = uh
    BY <1>3 DEF CallsAt, Saved, Level
  <2>. QED
    BY <2>2, <2>3, <2>4 DEF CallsAt, Saved, Level
<1>4. CASE pc = 4
  <2>1. I = N("CALL")
    BY <1>4, CallsProgram DEF I, Running
  <2>0. sp = Floor - 2 /\ pm[pc + 1] = Data(14) /\ 6 = pc + 2
    BY <1>4, CallsProgram DEF CallsAt, Running
  <2>2. Leaves(Pushed(Floor - 2)) /\ pc' = 14 /\ CalledFrom(6, Floor - 2)' /\ UNCHANGED sreg
    BY <1>0, <2>1, <2>0, ByteNumbers, CallingRuns
  <2>3. /\ pc' = 14 /\ Running' /\ UNCHANGED <<fn, arg, ul, uh, vl, vh>>
        /\ dm'[Floor] = dm[Floor] /\ dm'[Floor - 1] = dm[Floor - 1]
    BY <1>0, <1>4, <2>0, <2>2, SameArguments, StackCells, Places DEF Leaves, Pushed
  <2>4. sp = Floor - 2 /\ dm[Floor] = ul /\ dm[Floor - 1] = uh
    BY <1>4 DEF CallsAt, Saved, Level
  <2>. QED
    BY <2>2, <2>3, <2>4 DEF CallsAt, Saved, Level
<1>6. CASE pc = 6
  <2>1. I = RI("LDI", 30, 14)
    BY <1>6, CallsProgram DEF I, Running
  <2>2. Goes({30}) /\ dm'[30] = 14
    BY <1>0, <2>1, ByteNumbers, MoveRuns
  <2>3. /\ pc' = 7 /\ Running' /\ UNCHANGED <<fn, arg, ul, uh, vl, vh>>
        /\ dm'[Floor] = dm[Floor] /\ dm'[Floor - 1] = dm[Floor - 1] /\ UNCHANGED sp
    BY <1>0, <1>6, <2>2, SameArguments DEF Goes
  <2>4. sp = Floor - 2 /\ dm[Floor] = ul /\ dm[Floor - 1] = uh
    BY <1>6 DEF CallsAt, Saved, Level
  <2>. QED
    BY <2>2, <2>3, <2>4 DEF CallsAt, Saved, Level
<1>7. CASE pc = 7
  <2>1. I = RI("LDI", 31, 0)
    BY <1>7, CallsProgram DEF I, Running
  <2>2. Goes({31}) /\ dm'[31] = 0
    BY <1>0, <2>1, ByteNumbers, MoveRuns
  <2>3. /\ pc' = 8 /\ Running' /\ UNCHANGED <<fn, arg, ul, uh, vl, vh>>
        /\ dm'[Floor] = dm[Floor] /\ dm'[Floor - 1] = dm[Floor - 1] /\ dm'[30] = dm[30]
        /\ UNCHANGED sp
    BY <1>0, <1>7, <2>2, SameArguments DEF Goes
  <2>4. sp = Floor - 2 /\ dm[Floor] = ul /\ dm[Floor - 1] = uh /\ dm[30] = 14
    BY <1>7 DEF CallsAt, Saved, Level
  <2>. QED
    BY <2>2, <2>3, <2>4 DEF CallsAt, Saved, Level
<1>8. CASE pc = 8
  <2>1. I = N("ICALL")
    BY <1>8, CallsProgram DEF I, Running
  <2>0. sp = Floor - 2 /\ Word(30) = 14 /\ 9 = pc + 1
    BY <1>8, CallsProgram DEF CallsAt, Running, Word
  <2>2. Leaves(Pushed(Floor - 2)) /\ pc' = 14 /\ CalledFrom(9, Floor - 2)' /\ UNCHANGED sreg
    BY <1>0, <2>1, <2>0, ByteNumbers, CallingRuns
  <2>3. /\ pc' = 14 /\ Running' /\ UNCHANGED <<fn, arg, ul, uh, vl, vh>>
        /\ dm'[Floor] = dm[Floor] /\ dm'[Floor - 1] = dm[Floor - 1] /\ dm'[31] = dm[31]
    BY <1>0, <1>8, <2>0, <2>2, SameArguments, StackCells, Places DEF Leaves, Pushed
  <2>4. sp = Floor - 2 /\ dm[Floor] = ul /\ dm[Floor - 1] = uh /\ dm[31] = 0
    BY <1>8 DEF CallsAt, Saved, Level
  <2>. QED
    BY <2>2, <2>3, <2>4 DEF CallsAt, Saved, Level
<1>9. CASE pc = 9
  <2>1. I = R("POP", 25)
    BY <1>9, CallsProgram DEF I, Running
  <2>0. sp = Floor - 2 /\ sp + 1 = Floor - 1
    BY <1>0, <1>9 DEF CallsAt
  <2>2. Moves({25}, sp + 1) /\ dm'[25] = dm[sp + 1] /\ UNCHANGED sreg
    BY <1>0, <2>1, <2>0, PopRuns
  <2>3. /\ pc' = 10 /\ Running' /\ UNCHANGED <<fn, arg, ul, uh, vl, vh>>
        /\ dm'[Floor] = dm[Floor] /\ dm'[31] = dm[31] /\ sp' = Floor - 1
    BY <1>0, <1>9, <2>0, <2>2, SameArguments DEF Leaves, Moves, GoesTo
  <2>4. dm[Floor] = ul /\ dm[Floor - 1] = uh /\ dm[31] = 0
    BY <1>9 DEF CallsAt, Saved, Level
  <2>5. dm'[25] = dm[Floor - 1]
    BY <2>0, <2>2
  <2>. QED
    BY <2>2, <2>3, <2>4, <2>5 DEF CallsAt, Saved, Level
<1>10. CASE pc = 10
  <2>1. I = R("POP", 24)
    BY <1>10, CallsProgram DEF I, Running
  <2>0. sp = Floor - 1 /\ sp + 1 = Floor
    BY <1>0, <1>10 DEF CallsAt
  <2>2. Moves({24}, sp + 1) /\ dm'[24] = dm[sp + 1] /\ UNCHANGED sreg
    BY <1>0, <2>1, <2>0, PopRuns
  <2>3. /\ pc' = 11 /\ Running' /\ UNCHANGED <<fn, arg, ul, uh, vl, vh>>
        /\ dm'[25] = dm[25] /\ dm'[31] = dm[31] /\ sp' = Floor
    BY <1>0, <1>10, <2>0, <2>2, SameArguments DEF Leaves, Moves, GoesTo
  <2>4. dm[Floor] = ul /\ dm[25] = uh /\ dm[31] = 0
    BY <1>10 DEF CallsAt, Saved, Level
  <2>5. dm'[24] = dm[Floor]
    BY <2>0, <2>2
  <2>. QED
    BY <2>2, <2>3, <2>4, <2>5 DEF CallsAt, Saved, Level
<1>11. CASE pc = 11
  <2>1. I = N("JMP")
    BY <1>11, CallsProgram DEF I, Running
  <2>0. pm[pc + 1] = Data(17)
    BY <1>11, CallsProgram DEF Running
  <2>2. Jumps(17)
    BY <1>0, <2>1, <2>0, JmpRuns
  <2>3. /\ pc' = 17 /\ Running' /\ UNCHANGED <<fn, arg, ul, uh, vl, vh>>
        /\ dm'[24] = dm[24] /\ dm'[25] = dm[25] /\ dm'[31] = dm[31] /\ UNCHANGED sp
    BY <1>0, <1>11, <2>2, SameArguments DEF Jumps
  <2>4. sp = Floor /\ dm[24] = ul /\ dm[25] = uh /\ dm[31] = 0
    BY <1>11 DEF CallsAt, Saved, Level
  <2>. QED
    BY <2>2, <2>3, <2>4 DEF CallsAt, Saved, Level
<1>14. CASE pc = 14
  <2>1. I = RR("EOR", 24, 24)
    BY <1>14, CallsProgram DEF I, Running
  <2>2. Goes({24}) /\ dm'[24] = 0
    BY <2>1, ClearRuns
  <2>3. /\ pc' = 15 /\ Running' /\ UNCHANGED <<fn, arg, ul, uh>>
        /\ dm'[Floor] = dm[Floor] /\ dm'[Floor - 1] = dm[Floor - 1] /\ dm'[31] = dm[31]
    BY <1>0, <1>14, <2>2, SameArguments DEF Goes
  <2>4. PICK a \in {4, 6, 9} : CalledFrom(a, Floor - 2) /\ (a = 9 => dm[31] = 0)
    BY <1>14 DEF CallsAt
  <2>5. CalledFrom(a, Floor - 2)'
    BY <1>0, <2>2, <2>4, CalledStays
  <2>6. dm[Floor] = ul /\ dm[Floor - 1] = uh
    BY <1>14 DEF CallsAt, Saved
  <2>. QED
    BY <2>3, <2>4, <2>5, <2>6 DEF CallsAt, Saved
<1>15. CASE pc = 15
  <2>1. I = RR("EOR", 25, 25)
    BY <1>15, CallsProgram DEF I, Running
  <2>2. Goes({25}) /\ dm'[25] = 0
    BY <2>1, ClearRuns
  <2>3. /\ pc' = 16 /\ Running' /\ UNCHANGED <<fn, arg, ul, uh>>
        /\ dm'[Floor] = dm[Floor] /\ dm'[Floor - 1] = dm[Floor - 1] /\ dm'[31] = dm[31]
    BY <1>0, <1>15, <2>2, SameArguments DEF Goes
  <2>4. PICK a \in {4, 6, 9} : CalledFrom(a, Floor - 2) /\ (a = 9 => dm[31] = 0)
    BY <1>15 DEF CallsAt
  <2>5. CalledFrom(a, Floor - 2)'
    BY <1>0, <2>2, <2>4, CalledStays
  <2>6. dm[Floor] = ul /\ dm[Floor - 1] = uh
    BY <1>15 DEF CallsAt, Saved
  <2>. QED
    BY <2>3, <2>4, <2>5, <2>6 DEF CallsAt, Saved
<1>16. CASE pc = 16
  <2>1. I = Ret
    BY <1>16, CallsProgram DEF I, Running
  <2>2. PICK a \in {4, 6, 9} : CalledFrom(a, Floor - 2) /\ (a = 9 => dm[31] = 0)
    BY <1>16 DEF CallsAt
  <2>3. Leaves({}) /\ pc' = a /\ sp' = Floor - 2 /\ UNCHANGED <<dm, sreg>>
    BY <1>0, <2>1, <2>2, ReturnRuns
  <2>4. Running' /\ UNCHANGED <<fn, arg, ul, uh>>
    BY <2>3, SameArguments DEF Leaves
  <2>5. dm[Floor] = ul /\ dm[Floor - 1] = uh
    BY <1>16 DEF CallsAt, Saved
  <2>. QED
    BY <2>2, <2>3, <2>4, <2>5 DEF CallsAt, Saved
<1>17. CASE pc = 17
  <2>1. I = N("WDR")
    BY <1>17, CallsProgram DEF I, Running
  <2>0. 18 = pc + 1
    BY <1>17
  <2>2. Jumps(18)
    BY <1>0, <2>1, <2>0, JmpRuns
  <2>3. /\ pc' = 18 /\ Running' /\ UNCHANGED <<fn, arg, ul, uh, vl, vh>>
        /\ dm'[24] = dm[24] /\ dm'[25] = dm[25] /\ dm'[31] = dm[31] /\ UNCHANGED sp
    BY <1>0, <1>17, <2>2, SameArguments DEF Jumps
  <2>4. sp = Floor /\ dm[24] = ul /\ dm[25] = uh /\ dm[31] = 0
    BY <1>17 DEF CallsAt, Saved, Level
  <2>. QED
    BY <2>2, <2>3, <2>4 DEF CallsAt, Saved, Level
<1>18. CASE pc = 18
  <2>1. I = RI("LDI", 30, 21)
    BY <1>18, CallsProgram DEF I, Running
  <2>2. Goes({30}) /\ dm'[30] = 21
    BY <1>0, <2>1, ByteNumbers, MoveRuns
  <2>3. /\ pc' = 19 /\ Running' /\ UNCHANGED <<fn, arg, ul, uh, vl, vh>>
        /\ dm'[24] = dm[24] /\ dm'[25] = dm[25] /\ dm'[31] = dm[31] /\ UNCHANGED sp
    BY <1>0, <1>18, <2>2, SameArguments DEF Goes
  <2>4. sp = Floor /\ dm[24] = ul /\ dm[25] = uh /\ dm[31] = 0
    BY <1>18 DEF CallsAt, Saved, Level
  <2>. QED
    BY <2>2, <2>3, <2>4 DEF CallsAt, Saved, Level
<1>19. CASE pc = 19
  <2>1. I = N("IJMP")
    BY <1>19, CallsProgram DEF I, Running
  <2>0. 21 = Word(30)
    BY <1>19 DEF CallsAt, Word
  <2>2. Jumps(21)
    BY <1>0, <2>1, <2>0, JmpRuns
  <2>3. /\ pc' = 21 /\ Running' /\ UNCHANGED <<fn, arg, ul, uh, vl, vh>>
        /\ dm'[24] = dm[24] /\ dm'[25] = dm[25] /\ UNCHANGED sp
    BY <1>0, <1>19, <2>2, SameArguments DEF Jumps
  <2>4. sp = Floor /\ dm[24] = ul /\ dm[25] = uh
    BY <1>19 DEF CallsAt, Saved, Level
  <2>. QED
    BY <2>2, <2>3, <2>4 DEF CallsAt, Saved, Level
<1>21. CASE pc = 21
  <2>1. I = Ret
    BY <1>21, CallsProgram DEF I, Running
  <2>2. Level /\ dm[24] = ul /\ dm[25] = uh
    BY <1>21 DEF CallsAt
  <2>3. Returns /\ UNCHANGED <<dm, sreg, pm, fn, arg>>
    BY <2>1, <2>2, RetRuns
  <2>4. Word(24) = u
    BY <2>2, Arguments DEF Word
  <2>5. Word(24)' = Word(24) /\ u' = u
    BY <2>3 DEF Word, u
  <2>. QED
    BY <2>3, <2>4, <2>5 DEF res
<1>. QED
  BY <1>1, <1>2, <1>3, <1>4, <1>6, <1>7, <1>8, <1>9, <1>10, <1>11, <1>14, <1>15, <1>16, <1>17,
     <1>18, <1>19, <1>21 DEF CallsAt

\* A skip whose condition holds, and one whose does not.
LEMMA Skips ==
  ASSUME Running, Next,
         \/ \E d, r \in Reg : I = RR("CPSE", d, r) /\ dm[d] = dm[r]
         \/ \E d \in Reg : \E k : I = RI("SBRC", d, k) /\ ~Bit(dm[d], k)
         \/ \E d \in Reg : \E k : I = RI("SBRS", d, k) /\ Bit(dm[d], k)
  PROVE  /\ pm[pc + 1].op \in TwoWords => Jumps(pc + 3)
         /\ pm[pc + 1].op \notin TwoWords => Jumps(pc + 2)
<1>1. PICK skips \in BOOLEAN : skips
  OBVIOUS
<1>2. \/ \E d, r \in Reg : I = RR("CPSE", d, r) /\ (skips <=> dm[d] = dm[r])
      \/ \E d \in Reg : \E k : I = RI("SBRC", d, k) /\ (skips <=> ~Bit(dm[d], k))
      \/ \E d \in Reg : \E k : I = RI("SBRS", d, k) /\ (skips <=> Bit(dm[d], k))
  BY <1>1
<1>. QED
  BY <1>1, <1>2, SkipRuns

\* When its condition does not hold, the next instruction follows.
LEMMA SkipsNot ==
  ASSUME Running, Next,
         \/ \E d, r \in Reg : I = RR("CPSE", d, r) /\ dm[d] # dm[r]
         \/ \E d \in Reg : \E k : I = RI("SBRC", d, k) /\ Bit(dm[d], k)
         \/ \E d \in Reg : \E k : I = RI("SBRS", d, k) /\ ~Bit(dm[d], k)
  PROVE  Jumps(pc + 1)
<1>1. PICK skips \in BOOLEAN : ~skips
  OBVIOUS
<1>2. \/ \E d, r \in Reg : I = RR("CPSE", d, r) /\ (skips <=> dm[d] = dm[r])
      \/ \E d \in Reg : \E k : I = RI("SBRC", d, k) /\ (skips <=> ~Bit(dm[d], k))
      \/ \E d \in Reg : \E k : I = RI("SBRS", d, k) /\ (skips <=> Bit(dm[d], k))
  BY <1>1
<1>. QED
  BY <1>1, <1>2, SkipRuns

\* What skip has counted, and what it must.
LEMMA Counts ==
  /\ One(TRUE) = 1 /\ One(FALSE) = 0 /\ Count1 \in {0, 1} /\ Count2 \in {0, 1, 2}
  /\ (Bit(ul, 0) => Count1 = 1) /\ (~Bit(ul, 0) => Count1 = 0)
  /\ (Bit(ul, 7) => Count2 = Count1) /\ (~Bit(ul, 7) => Count2 = Count1 + 1)
BY DEF One, Count1, Count2

\* What has been counted at the end.
LEMMA SkipCounted ==
  ASSUME Running
  PROVE  SkipExact <=> dm[18] = Count2 + One(ul # vl)
<1>1. ul % 2 = u % 2
  BY Arguments
<1>2. Count1 = u % 2
  BY <1>1, Arguments, Bit0, Counts
<1>. QED
  BY <1>2 DEF SkipExact, Count2, ul, vl

\* The counts are about the arguments.
LEMMA SameCounts ==
  ASSUME UNCHANGED <<ul, vl>>
  PROVE  UNCHANGED <<Count1, Count2>>
BY DEF Count1, Count2

\* skip: each skip adds one to r18 or not, by a called routine or behind the skip.
LEMMA SkipHolds ==
  ASSUME Running, fn = "skip", SkipAt, Next
  PROVE  \/ Running' /\ SkipAt' /\ UNCHANGED <<fn, arg>>
         \/ Returns /\ SkipExact' /\ UNCHANGED <<pm, fn, arg>>
<1>. USE Registers, MoreRegisters
<1>0. /\ Floor \in Int /\ Floor \in Locs /\ Floor \notin Reg /\ Floor - 1 \in Locs
      /\ Floor - 1 \notin Reg /\ Floor - 2 \in Locs /\ Floor - 2 \notin Reg
      /\ Floor - 1 <= Floor /\ Floor - 2 <= Floor /\ Floor - 2 \in 260..Floor
      /\ Floor \in 260..Floor
  BY StackCells
<1>1. CASE pc = 1
  <2>1. I = RI("LDI", 18, 0)
    BY <1>1, SkipProgram DEF I, Running
  <2>2. Goes({18}) /\ dm'[18] = 0
    BY <1>0, <2>1, ByteNumbers, MoveRuns
  <2>3. /\ pc' = 2 /\ Running' /\ UNCHANGED <<fn, arg, ul, uh, vl, vh>>
        /\ dm'[22] = dm[22] /\ dm'[23] = dm[23] /\ dm'[24] = dm[24] /\ dm'[25] = dm[25] /\ dm'[56] = dm[56]
        /\ UNCHANGED sp
    BY <1>0, <1>1, <2>2, SameArguments DEF Goes
  <2>4. sp = Floor /\ Given /\ dm[56] = 0
    BY <1>1 DEF SkipAt, Level, Given, PortClear
  <2>. QED
    BY <2>2, <2>3, <2>4 DEF SkipAt, Level, Given, PortClear
<1>2. CASE pc = 2
  <2>1. I = RI("SBRC", 24, 0)
    BY <1>2, SkipProgram DEF I, Running
  <2>2. pm[pc + 1].op \in TwoWords
    BY <1>2, SkipProgram DEF Running, R, N, A, TwoWords
  <2>3. /\ sp = Floor /\ dm[24] = ul /\ dm[25] = uh /\ dm[22] = vl /\ dm[23] = vh
        /\ dm[56] = 0 /\ dm[18] = 0
    BY <1>2 DEF SkipAt, Level, Given, PortClear
  <2>4. CASE ~Bit(dm[24], 0)
    <3>1. Jumps(5)
      BY <1>2, <2>1, <2>2, <2>4, Skips
    <3>2. Running' /\ pc' = 5 /\ UNCHANGED <<sp, fn, arg, ul, uh, vl, vh, dm>>
      BY <3>1, SameArguments DEF Jumps
    <3>3. UNCHANGED <<Count1, Count2>>
      BY <3>2, SameCounts
    <3>4. dm'[18] = Count1'
      BY <2>3, <2>4, <3>2, <3>3, Counts
    <3>. QED
      BY <2>3, <3>2, <3>4 DEF SkipAt, Level, Given, PortClear
  <2>5. CASE ~(~Bit(dm[24], 0))
    <3>1. Jumps(3)
      BY <1>2, <2>1, <2>2, <2>5, SkipsNot
    <3>2. Running' /\ pc' = 3 /\ UNCHANGED <<sp, fn, arg, ul, uh, vl, vh, dm>>
      BY <3>1, SameArguments DEF Jumps
    <3>3. UNCHANGED <<Count1, Count2>>
      BY <3>2, SameCounts
    <3>4. dm'[18] = 0 /\ Bit(ul, 0)'
      BY <2>3, <2>5, <3>2, <3>3, Counts
    <3>. QED
      BY <2>3, <3>2, <3>4 DEF SkipAt, Level, Given, PortClear
  <2>. QED
    BY <2>4, <2>5
<1>5. CASE pc = 5
  <2>1. I = RI("SBRS", 24, 7)
    BY <1>5, SkipProgram DEF I, Running
  <2>2. pm[pc + 1].op \notin TwoWords
    BY <1>5, SkipProgram DEF Running, R, N, A, TwoWords
  <2>3. /\ sp = Floor /\ dm[24] = ul /\ dm[25] = uh /\ dm[22] = vl /\ dm[23] = vh
        /\ dm[56] = 0 /\ dm[18] = Count1
    BY <1>5 DEF SkipAt, Level, Given, PortClear
  <2>4. CASE Bit(dm[24], 7)
    <3>1. Jumps(7)
      BY <1>5, <2>1, <2>2, <2>4, Skips
    <3>2. Running' /\ pc' = 7 /\ UNCHANGED <<sp, fn, arg, ul, uh, vl, vh, dm>>
      BY <3>1, SameArguments DEF Jumps
    <3>3. UNCHANGED <<Count1, Count2>>
      BY <3>2, SameCounts
    <3>4. dm'[18] = Count2'
      BY <2>3, <2>4, <3>2, <3>3, Counts
    <3>. QED
      BY <2>3, <3>2, <3>4 DEF SkipAt, Level, Given, PortClear
  <2>5. CASE ~(Bit(dm[24], 7))
    <3>1. Jumps(6)
      BY <1>5, <2>1, <2>2, <2>5, SkipsNot
    <3>2. Running' /\ pc' = 6 /\ UNCHANGED <<sp, fn, arg, ul, uh, vl, vh, dm>>
      BY <3>1, SameArguments DEF Jumps
    <3>3. UNCHANGED <<Count1, Count2>>
      BY <3>2, SameCounts
    <3>4. dm'[18] = Count1' /\ ~Bit(ul, 7)'
      BY <2>3, <2>5, <3>2, <3>3, Counts
    <3>. QED
      BY <2>3, <3>2, <3>4 DEF SkipAt, Level, Given, PortClear
  <2>. QED
    BY <2>4, <2>5
<1>7. CASE pc = 7
  <2>1. I = RR("CPSE", 24, 22)
    BY <1>7, SkipProgram DEF I, Running
  <2>2. pm[pc + 1].op \in TwoWords
    BY <1>7, SkipProgram DEF Running, R, N, A, TwoWords
  <2>3. /\ sp = Floor /\ dm[24] = ul /\ dm[25] = uh /\ dm[22] = vl /\ dm[23] = vh
        /\ dm[56] = 0 /\ dm[18] = Count2
    BY <1>7 DEF SkipAt, Level, Given, PortClear
  <2>4. CASE dm[24] = dm[22]
    <3>1. Jumps(10)
      BY <1>7, <2>1, <2>2, <2>4, Skips
    <3>2. Running' /\ pc' = 10 /\ UNCHANGED <<sp, fn, arg, ul, uh, vl, vh, dm>>
      BY <3>1, SameArguments DEF Jumps
    <3>3. UNCHANGED <<Count1, Count2>>
      BY <3>2, SameCounts
    <3>5. One(ul # vl)' = 0
      BY <2>3, <2>4, <3>2 DEF One
    <3>4. dm'[18] = Count2' + One(ul # vl)'
      BY <2>3, <2>4, <3>2, <3>3, <3>5, Counts
    <3>. QED
      BY <2>3, <3>2, <3>4 DEF SkipAt, Level, Given, PortClear
  <2>5. CASE ~(dm[24] = dm[22])
    <3>1. Jumps(8)
      BY <1>7, <2>1, <2>2, <2>5, SkipsNot
    <3>2. Running' /\ pc' = 8 /\ UNCHANGED <<sp, fn, arg, ul, uh, vl, vh, dm>>
      BY <3>1, SameArguments DEF Jumps
    <3>3. UNCHANGED <<Count1, Count2>>
      BY <3>2, SameCounts
    <3>4. dm'[18] = Count2' /\ (ul # vl)'
      BY <2>3, <2>5, <3>2, <3>3, Counts
    <3>. QED
      BY <2>3, <3>2, <3>4 DEF SkipAt, Level, Given, PortClear
  <2>. QED
    BY <2>4, <2>5
<1>3. CASE pc = 3
  <2>1. I = N("CALL")
    BY <1>3, SkipProgram DEF I, Running
  <2>2. sp = Floor /\ Given /\ dm[56] = 0 /\ dm[18] = 0 /\ Bit(ul, 0)
    BY <1>3 DEF SkipAt, Level, PortClear
  <2>3. pm[pc + 1] = Data(22) /\ 5 = pc + 2
    BY <1>3, SkipProgram DEF Running
  <2>4. Leaves(Pushed(Floor)) /\ pc' = 22 /\ CalledFrom(5, Floor)' /\ UNCHANGED sreg
    BY <1>0, <2>1, <2>2, <2>3, ByteNumbers, CallingRuns
  <2>5. /\ Running' /\ UNCHANGED <<fn, arg, ul, uh, vl, vh>>
        /\ dm'[18] = dm[18] /\ dm'[22] = dm[22] /\ dm'[23] = dm[23] /\ dm'[24] = dm[24]
        /\ dm'[25] = dm[25] /\ dm'[56] = dm[56]
    BY <1>0, <2>4, SameArguments, StackCells, Places DEF Leaves, Pushed
  <2>6. UNCHANGED <<Count1, Count2>>
    BY <2>5, SameCounts
  <2>7. dm'[18] = pc' - 22
    BY <2>2, <2>4, <2>5, <2>6, Counts
  <2>. QED
    BY <2>2, <2>4, <2>5, <2>7 DEF SkipAt, Given, PortClear
<1>8. CASE pc = 8
  <2>1. I = N("CALL")
    BY <1>8, SkipProgram DEF I, Running
  <2>2. sp = Floor /\ Given /\ dm[56] = 0 /\ dm[18] = Count2 /\ ul # vl
    BY <1>8 DEF SkipAt, Level, PortClear
  <2>3. pm[pc + 1] = Data(22) /\ 10 = pc + 2
    BY <1>8, SkipProgram DEF Running
  <2>4. Leaves(Pushed(Floor)) /\ pc' = 22 /\ CalledFrom(10, Floor)' /\ UNCHANGED sreg
    BY <1>0, <2>1, <2>2, <2>3, ByteNumbers, CallingRuns
  <2>5. /\ Running' /\ UNCHANGED <<fn, arg, ul, uh, vl, vh>>
        /\ dm'[18] = dm[18] /\ dm'[22] = dm[22] /\ dm'[23] = dm[23] /\ dm'[24] = dm[24]
        /\ dm'[25] = dm[25] /\ dm'[56] = dm[56]
    BY <1>0, <2>4, SameArguments, StackCells, Places DEF Leaves, Pushed
  <2>6. UNCHANGED <<Count1, Count2>>
    BY <2>5, SameCounts
  <2>7. dm'[18] = Count2' + (pc' - 22)
    BY <2>2, <2>4, <2>5, <2>6, Counts
  <2>. QED
    BY <2>2, <2>4, <2>5, <2>7 DEF SkipAt, Given, PortClear
<1>6. CASE pc = 6
  <2>1. I = R("INC", 18)
    BY <1>6, SkipProgram DEF I, Running
  <2>2. Goes({18}) /\ dm'[18] = (IF dm[18] = 255 THEN 0 ELSE dm[18] + 1)
    BY <1>0, <2>1, IncRuns
  <2>3. /\ pc' = 7 /\ Running' /\ UNCHANGED <<fn, arg, ul, uh, vl, vh>>
        /\ dm'[22] = dm[22] /\ dm'[23] = dm[23] /\ dm'[24] = dm[24] /\ dm'[25] = dm[25] /\ dm'[56] = dm[56]
        /\ UNCHANGED sp
    BY <1>0, <1>6, <2>2, SameArguments DEF Goes
  <2>4. sp = Floor /\ Given /\ dm[56] = 0 /\ dm[18] = Count1 /\ ~Bit(ul, 7)
    BY <1>6 DEF SkipAt, Level, Given, PortClear
  <2>5. UNCHANGED <<Count1, Count2>>
    BY <2>3, SameCounts
  <2>6. dm'[18] = Count2'
    BY <2>2, <2>4, <2>5, Counts
  <2>. QED
    BY <2>2, <2>3, <2>4, <2>5, <2>6 DEF SkipAt, Level, Given, PortClear
<1>22. CASE pc = 22
  <2>1. I = R("INC", 18)
    BY <1>22, SkipProgram DEF I, Running
  <2>0. dm[56] = 0
    BY <1>22 DEF SkipAt, PortClear
  <2>2. Goes({18}) /\ dm'[18] = (IF dm[18] = 255 THEN 0 ELSE dm[18] + 1)
    BY <2>1, IncRuns
  <2>3. /\ pc' = 23 /\ Running' /\ UNCHANGED <<fn, arg, ul, uh, vl, vh>>
        /\ dm'[22] = dm[22] /\ dm'[23] = dm[23] /\ dm'[24] = dm[24] /\ dm'[25] = dm[25] /\ dm'[56] = dm[56]
    BY <1>22, <2>2, SameArguments DEF Goes
  <2>4. UNCHANGED <<Count1, Count2>>
    BY <2>3, SameCounts
  <2>5. Given' /\ PortClear'
    BY <1>22, <2>0, <2>3 DEF SkipAt, Given, Level, PortClear
  <2>6. CASE CalledFrom(5, Floor) /\ Bit(ul, 0) /\ dm[18] = 0
    <3>1. CalledFrom(5, Floor)'
      BY <1>0, <2>2, <2>6, CalledStays
    <3>2. dm'[18] = 1 /\ Bit(ul, 0)'
      BY <2>2, <2>3, <2>6
    <3>. QED
      BY <2>3, <2>5, <3>1, <3>2 DEF SkipAt, PortClear
  <2>7. CASE CalledFrom(10, Floor) /\ ul # vl /\ dm[18] = Count2
    <3>1. CalledFrom(10, Floor)'
      BY <1>0, <2>2, <2>7, CalledStays
    <3>2. dm'[18] = Count2' + 1 /\ (ul # vl)'
      BY <2>2, <2>3, <2>4, <2>7, Counts
    <3>. QED
      BY <2>3, <2>5, <3>1, <3>2 DEF SkipAt, PortClear
  <2>. QED
    BY <1>22, <2>6, <2>7, Counts DEF SkipAt, PortClear
<1>23. CASE pc = 23
  <2>1. I = Ret
    BY <1>23, SkipProgram DEF I, Running
  <2>2. Given /\ dm[56] = 0
    BY <1>23 DEF SkipAt, PortClear
  <2>3. CASE CalledFrom(5, Floor) /\ Bit(ul, 0) /\ dm[18] = 1
    <3>1. Leaves({}) /\ pc' = 5 /\ sp' = Floor /\ UNCHANGED <<dm, sreg>>
      BY <1>0, <2>1, <2>3, ReturnRuns
    <3>2. Running' /\ UNCHANGED <<fn, arg, ul, uh, vl, vh>>
      BY <3>1, SameArguments DEF Leaves
    <3>3. dm'[18] = Count1'
      BY <2>3, <3>1, <3>2, SameCounts, Counts
    <3>. QED
      BY <2>2, <3>1, <3>2, <3>3 DEF SkipAt, Given, Level, PortClear
  <2>4. CASE CalledFrom(10, Floor) /\ ul # vl /\ dm[18] = Count2 + 1
    <3>1. Leaves({}) /\ pc' = 10 /\ sp' = Floor /\ UNCHANGED <<dm, sreg>>
      BY <1>0, <2>1, <2>4, ReturnRuns
    <3>2. Running' /\ UNCHANGED <<fn, arg, ul, uh, vl, vh>>
      BY <3>1, SameArguments DEF Leaves
    <3>3. UNCHANGED Count2 /\ One(ul # vl)' = 1
      BY <2>4, <3>2, SameCounts DEF One
    <3>. QED
      BY <2>2, <2>4, <3>1, <3>2, <3>3 DEF SkipAt, Level, PortClear
  <2>. QED
    BY <1>23, <2>3, <2>4, Counts DEF SkipAt, PortClear
<1>10. CASE pc = 10
  <2>1. I = A("SBIC", 0, 3, 56)
    BY <1>10, SkipProgram DEF I, Running
  <2>2. pm[pc + 1].op \in TwoWords
    BY <1>10, SkipProgram DEF Running, R, N, A, TwoWords
  <2>0. 2^3 = 8
    BY SMT
  <2>3. sp = Floor /\ PortClear /\ dm[56] # 2^3 /\ dm[18] = Count2 + One(ul # vl)
    BY <1>10, <2>0 DEF SkipAt, Level, PortClear, PortSet
  <2>7. Jumps(pc + 3)
    BY <2>1, <2>2, <2>3, SbisSkips, Zenon
  <2>4. Jumps(13)
    BY <1>10, <2>7
  <2>5. Running' /\ pc' = 13 /\ UNCHANGED <<sp, fn, arg, ul, uh, vl, vh, dm>>
    BY <2>4, SameArguments DEF Jumps
  <2>6. UNCHANGED <<Count1, Count2>> /\ UNCHANGED One(ul # vl)
    BY <2>5, SameCounts
  <2>. QED
    BY <2>3, <2>5, <2>6 DEF SkipAt, Level, PortClear, PortSet
<1>13. CASE pc = 13
  <2>1. I = A("SBIC", 0, 3, 56)
    BY <1>13, SkipProgram DEF I, Running
  <2>2. pm[pc + 1].op \notin TwoWords
    BY <1>13, SkipProgram DEF Running, R, N, A, TwoWords
  <2>0. 2^3 = 8
    BY SMT
  <2>3. sp = Floor /\ PortClear /\ dm[56] # 2^3 /\ dm[18] = Count2 + One(ul # vl)
    BY <1>13, <2>0 DEF SkipAt, Level, PortClear, PortSet
  <2>7. Jumps(pc + 2)
    BY <2>1, <2>2, <2>3, SbisSkips, Zenon
  <2>4. Jumps(15)
    BY <1>13, <2>7
  <2>5. Running' /\ pc' = 15 /\ UNCHANGED <<sp, fn, arg, ul, uh, vl, vh, dm>>
    BY <2>4, SameArguments DEF Jumps
  <2>6. UNCHANGED <<Count1, Count2>> /\ UNCHANGED One(ul # vl)
    BY <2>5, SameCounts
  <2>. QED
    BY <2>3, <2>5, <2>6 DEF SkipAt, Level, PortClear, PortSet
<1>15. CASE pc = 15
  <2>1. I = A("SBI", 0, 3, 56)
    BY <1>15, SkipProgram DEF I, Running
  <2>2. Goes({56}) /\ Bits(dm'[56]) = Bits(dm[56]) \cup {3}
    BY <2>1, SbiRuns
  <2>3. PortSet'
    BY <2>2 DEF PortSet, Bits
  <2>4. /\ pc' = 16 /\ Running' /\ UNCHANGED <<fn, arg, ul, uh, vl, vh>>
        /\ dm'[18] = dm[18] /\ UNCHANGED sp
    BY <1>0, <1>15, <2>2, SameArguments DEF Goes
  <2>5. sp = Floor /\ dm[18] = Count2 + One(ul # vl)
    BY <1>15 DEF SkipAt, Level
  <2>6. UNCHANGED <<Count1, Count2>> /\ UNCHANGED One(ul # vl)
    BY <2>4, SameCounts
  <2>. QED
    BY <2>3, <2>4, <2>5, <2>6 DEF SkipAt, Level
<1>16. CASE pc = 16
  <2>1. I = A("SBIS", 0, 3, 56)
    BY <1>16, SkipProgram DEF I, Running
  <2>2. pm[pc + 1].op \in TwoWords
    BY <1>16, SkipProgram DEF Running, R, N, A, TwoWords
  <2>3. sp = Floor /\ PortSet /\ Bit(dm[56], 3) /\ dm[18] = Count2 + One(ul # vl)
    BY <1>16 DEF SkipAt, Level, PortClear, PortSet
  <2>4. Jumps(19)
    BY <1>16, <2>1, <2>2, <2>3, SbisSkips
  <2>5. Running' /\ pc' = 19 /\ UNCHANGED <<sp, fn, arg, ul, uh, vl, vh, dm>>
    BY <2>4, SameArguments DEF Jumps
  <2>6. UNCHANGED <<Count1, Count2>> /\ UNCHANGED One(ul # vl)
    BY <2>5, SameCounts
  <2>. QED
    BY <2>3, <2>5, <2>6 DEF SkipAt, Level, PortClear, PortSet
<1>19. CASE pc = 19
  <2>1. I = A("SBIS", 0, 3, 56)
    BY <1>19, SkipProgram DEF I, Running
  <2>2. pm[pc + 1].op \notin TwoWords
    BY <1>19, SkipProgram DEF Running, R, N, A, TwoWords
  <2>3. sp = Floor /\ PortSet /\ Bit(dm[56], 3) /\ dm[18] = Count2 + One(ul # vl)
    BY <1>19 DEF SkipAt, Level, PortClear, PortSet
  <2>4. Jumps(21)
    BY <1>19, <2>1, <2>2, <2>3, SbisSkips
  <2>5. Running' /\ pc' = 21 /\ UNCHANGED <<sp, fn, arg, ul, uh, vl, vh, dm>>
    BY <2>4, SameArguments DEF Jumps
  <2>6. UNCHANGED <<Count1, Count2>> /\ UNCHANGED One(ul # vl)
    BY <2>5, SameCounts
  <2>. QED
    BY <2>3, <2>5, <2>6 DEF SkipAt, Level, PortClear, PortSet
<1>21. CASE pc = 21
  <2>1. I = Ret
    BY <1>21, SkipProgram DEF I, Running
  <2>2. Level /\ dm[18] = Count2 + One(ul # vl)
    BY <1>21 DEF SkipAt
  <2>3. Returns /\ UNCHANGED <<dm, sreg, pm, fn, arg>>
    BY <2>1, <2>2, RetRuns
  <2>4. SkipExact
    BY <2>2, SkipCounted
  <2>5. SkipExact'
    BY <2>3, <2>4 DEF SkipExact, u, v
  <2>. QED
    BY <2>3, <2>5
<1>. QED
  BY <1>1, <1>2, <1>5, <1>7, <1>3, <1>8, <1>6, <1>22, <1>23, <1>10, <1>13, <1>15, <1>16, <1>19, <1>21 DEF SkipAt

-----------------------------------------------------------------------------
\* copy: memory is written at x only, or only registers are (x = 0).
Writes(x) == (\A l \in Locs : l >= 248 /\ l # x => dm'[l] = dm[l]) /\ UNCHANGED <<ul, uh, vl, vh>>
Area == {250, 254, 258}
\* The cells of the three areas are in memory.
LEMMA AreaCells ==
  \A b \in Area : \A i \in 0..3 : b + i \in Locs /\ b + i >= 248 /\ b + i \in Int
BY Located DEF Area

\* What is copied are the arguments.
LEMMA SameVal == ASSUME UNCHANGED <<ul, uh, vl, vh>> PROVE \A i \in 0..3 : Val(i)' = Val(i)
BY DEF Val

\* One of the bytes that are held.
LEMMA HeldAt ==
  ASSUME NEW b, NEW n \in Int, NEW m \in Int, NEW k \in 0..3, Holds(b, n, m), n <= k, k < m
  PROVE  dm[b + k] = Val(k)
BY DEF Holds

\* No byte is held by an empty range.
LEMMA NoneHeld == Holds(254, 0, 0) /\ Holds(258, 4, 4) /\ Holds(250, 0, 0)
BY DEF Holds

\* What is held elsewhere stays, and one more byte is held.
LEMMA HeldStays ==
  ASSUME NEW b \in Area, NEW x \in Int, Writes(x), x < b \/ b + 3 < x, NEW n, NEW m, Holds(b, n, m)
  PROVE  Holds(b, n, m)'
<1>1. \A i \in 0..3 : b + i \in Locs /\ b + i >= 248 /\ b + i # x
  BY AreaCells DEF Area
<1>2. \A i \in 0..3 : dm'[b + i] = dm[b + i] /\ Val(i)' = Val(i)
  BY <1>1, SameVal DEF Writes
<1>. QED
  BY <1>2 DEF Holds

\* The range grows by the byte that is written.
LEMMA OneMore ==
  ASSUME NEW b \in Area, NEW k \in 0..3, Writes(b + k), dm'[b + k] = Val(k)
  PROVE  /\ Holds(b, 0, k) => Holds(b, 0, k + 1)'
         /\ Holds(b, k + 1, 4) => Holds(b, k, 4)'
<1>1. \A i \in 0..3 : b + i \in Locs /\ b + i >= 248 /\ b + i \in Int /\ b \in Int
  BY AreaCells DEF Area
<1>2. \A i \in 0..3 : Val(i)' = Val(i)
  BY SameVal DEF Writes
<1>3. ASSUME NEW i \in 0..3, i # k
      PROVE  dm'[b + i] = dm[b + i]
  <2>1. b + i \in Locs /\ b + i >= 248
    BY <1>1
  <2>2. b + i # b + k
    BY <1>3 DEF Area
  <2>. QED
    BY <2>1, <2>2 DEF Writes
<1>5. ASSUME Holds(b, 0, k)
      PROVE  Holds(b, 0, k + 1)'
  <2>. SUFFICES ASSUME NEW i \in 0..3, 0 <= i, i < k + 1
                PROVE  dm'[b + i] = Val(i)'
    BY DEF Holds
  <2>1. CASE i = k
    BY <1>2, <2>1
  <2>2. CASE i # k
    <3>1. i < k
      BY <2>2
    <3>. QED
      BY <1>2, <1>3, <1>5, <2>2, <3>1 DEF Holds
  <2>. QED
    BY <2>1, <2>2
<1>6. ASSUME Holds(b, k + 1, 4)
      PROVE  Holds(b, k, 4)'
  <2>. SUFFICES ASSUME NEW i \in 0..3, k <= i, i < 4
                PROVE  dm'[b + i] = Val(i)'
    BY DEF Holds
  <2>1. CASE i = k
    BY <1>2, <2>1
  <2>2. CASE i # k
    <3>1. k + 1 <= i
      BY <2>2
    <3>. QED
      BY <1>2, <1>3, <1>6, <2>2, <3>1 DEF Holds
  <2>. QED
    BY <2>1, <2>2
<1>. QED
  BY <1>5, <1>6

\* Instructions that write a register, a register and a pointer, or a cell and a pointer.
LEMMA WritesNone ==
  ASSUME NEW d \in Reg, Goes({d})
  PROVE  Writes(0)
<1>1. \A l \in Locs : l >= 248 => l \notin {d}
  BY DEF Reg
<1>. QED
  BY <1>1, SameArguments DEF Writes, Goes

\* An instruction on registers, or on a byte and a pointer, writes at most one cell.
LEMMA WritesOne ==
  ASSUME NEW x, NEW p, Pair(p), Goes({x, p, p + 1})
  PROVE  Writes(x)
<1>1. \A l \in Locs : l >= 248 => l # p /\ l # p + 1
  BY DEF Pair, Reg
<1>. QED
  BY <1>1, SameArguments DEF Writes, Goes


\* The registers of copy.
LEMMA CopyRegisters ==
  /\ 0 \in Reg /\ 16 \in Reg /\ 17 \in Reg /\ 18 \in Reg /\ 19 \in Reg /\ 20 \in Reg
  /\ 22 \in Reg /\ 23 \in Reg /\ 24 \in Reg /\ 25 \in Reg
  /\ Pair(26) /\ Pair(28) /\ Pair(30) /\ 26 \in Reg /\ 27 \in Reg /\ 28 \in Reg /\ 29 \in Reg
  /\ 30 \in Reg /\ 31 \in Reg
  /\ 0 \in Locs /\ 16 \in Locs /\ 17 \in Locs /\ 18 \in Locs /\ 20 \in Locs /\ 22 \in Locs
  /\ 23 \in Locs /\ 24 \in Locs /\ 25 \in Locs /\ 26 \in Locs /\ 27 \in Locs /\ 28 \in Locs
  /\ 29 \in Locs /\ 30 \in Locs /\ 31 \in Locs
BY Registers, MoreRegisters

\* The three areas.
LEMMA Areas == 250 \in Area /\ 254 \in Area /\ 258 \in Area
BY DEF Area

\* copy: what has been stored, and copied upwards and downwards.
LEMMA CopyHolds ==
  ASSUME Running, Level, fn = "copy", CopyAt, Next
  PROVE  \/ Running' /\ CopyAt' /\ UNCHANGED <<sp, fn, arg>>
         \/ Returns /\ CopyExact' /\ UNCHANGED <<pm, fn, arg>>
<1>. USE CopyRegisters
<1>1. CASE pc = 1
  <2>1. I = R("STS", 24)
    BY <1>1, CopyProgram DEF I, Running
  <2>2. 250 \in Store /\ pm[pc + 1] = Data(250)
    BY <1>1, CopyProgram, StoredCells DEF Running
  <2>3. GoesTo(pc + 2, {250}) /\ dm'[250] = dm[24]
    BY <2>1, <2>2, StsRuns
  <2>4. /\ pc' = 3 /\ Running' /\ UNCHANGED <<sp, fn, arg, ul, uh, vl, vh>>
        /\ dm'[22] = dm[22] /\ dm'[23] = dm[23] /\ dm'[24] = dm[24] /\ dm'[25] = dm[25]
    BY <1>1, <2>3, SameArguments DEF GoesTo, Leaves
  <2>5. Given /\ Holds(250, 0, 0)
    BY <1>1 DEF CopyAt, Stored
  <2>6. Writes(250 + 0) /\ dm'[250 + 0] = Val(0)
    BY <2>3, <2>4, <2>5 DEF GoesTo, Leaves, Writes, Val, Given
  <2>7. Holds(250, 0, 1)'
    BY <2>5, <2>6, Areas, OneMore
  <2>8. Given'
    BY <2>4, <2>5 DEF Given
  <2>. QED
    BY <2>4, <2>7, <2>8 DEF CopyAt, Stored, Upwards
<1>3. CASE pc = 3
  <2>1. I = R("STS", 25)
    BY <1>3, CopyProgram DEF I, Running
  <2>2. 251 \in Store /\ pm[pc + 1] = Data(251)
    BY <1>3, CopyProgram, StoredCells DEF Running
  <2>3. GoesTo(pc + 2, {251}) /\ dm'[251] = dm[25]
    BY <2>1, <2>2, StsRuns
  <2>4. /\ pc' = 5 /\ Running' /\ UNCHANGED <<sp, fn, arg, ul, uh, vl, vh>>
        /\ dm'[22] = dm[22] /\ dm'[23] = dm[23] /\ dm'[24] = dm[24] /\ dm'[25] = dm[25]
    BY <1>3, <2>3, SameArguments DEF GoesTo, Leaves
  <2>5. Given /\ Holds(250, 0, 1)
    BY <1>3 DEF CopyAt, Stored
  <2>6. Writes(250 + 1) /\ dm'[250 + 1] = Val(1)
    BY <2>3, <2>4, <2>5 DEF GoesTo, Leaves, Writes, Val, Given
  <2>7. Holds(250, 0, 2)'
    BY <2>5, <2>6, Areas, OneMore
  <2>8. Given'
    BY <2>4, <2>5 DEF Given
  <2>. QED
    BY <2>4, <2>7, <2>8 DEF CopyAt, Stored, Upwards
<1>5. CASE pc = 5
  <2>1. I = R("STS", 22)
    BY <1>5, CopyProgram DEF I, Running
  <2>2. 252 \in Store /\ pm[pc + 1] = Data(252)
    BY <1>5, CopyProgram, StoredCells DEF Running
  <2>3. GoesTo(pc + 2, {252}) /\ dm'[252] = dm[22]
    BY <2>1, <2>2, StsRuns
  <2>4. /\ pc' = 7 /\ Running' /\ UNCHANGED <<sp, fn, arg, ul, uh, vl, vh>>
        /\ dm'[22] = dm[22] /\ dm'[23] = dm[23] /\ dm'[24] = dm[24] /\ dm'[25] = dm[25]
    BY <1>5, <2>3, SameArguments DEF GoesTo, Leaves
  <2>5. Given /\ Holds(250, 0, 2)
    BY <1>5 DEF CopyAt, Stored
  <2>6. Writes(250 + 2) /\ dm'[250 + 2] = Val(2)
    BY <2>3, <2>4, <2>5 DEF GoesTo, Leaves, Writes, Val, Given
  <2>7. Holds(250, 0, 3)'
    BY <2>5, <2>6, Areas, OneMore
  <2>8. Given'
    BY <2>4, <2>5 DEF Given
  <2>. QED
    BY <2>4, <2>7, <2>8 DEF CopyAt, Stored, Upwards
<1>7. CASE pc = 7
  <2>1. I = R("STS", 23)
    BY <1>7, CopyProgram DEF I, Running
  <2>2. 253 \in Store /\ pm[pc + 1] = Data(253)
    BY <1>7, CopyProgram, StoredCells DEF Running
  <2>3. GoesTo(pc + 2, {253}) /\ dm'[253] = dm[23]
    BY <2>1, <2>2, StsRuns
  <2>4. /\ pc' = 9 /\ Running' /\ UNCHANGED <<sp, fn, arg, ul, uh, vl, vh>>
        /\ dm'[22] = dm[22] /\ dm'[23] = dm[23] /\ dm'[24] = dm[24] /\ dm'[25] = dm[25]
    BY <1>7, <2>3, SameArguments DEF GoesTo, Leaves
  <2>5. Given /\ Holds(250, 0, 3)
    BY <1>7 DEF CopyAt, Stored
  <2>6. Writes(250 + 3) /\ dm'[250 + 3] = Val(3)
    BY <2>3, <2>4, <2>5 DEF GoesTo, Leaves, Writes, Val, Given
  <2>7. Holds(250, 0, 4)'
    BY <2>5, <2>6, Areas, OneMore
  <2>8. Given'
    BY <2>4, <2>5 DEF Given
  <2>9. Holds(254, 0, 0)'
    BY DEF Holds
  <2>. QED
    BY <2>4, <2>7, <2>8, <2>9 DEF CopyAt, Stored, Upwards
<1>9. CASE pc = 9
  <2>1. I = RI("LDI", 26, 250)
    BY <1>9, CopyProgram DEF I, Running
  <2>2. Goes({26}) /\ dm'[26] = 250
    BY <2>1, ByteNumbers, MoveRuns
  <2>3. pc' = 10 /\ Running' /\ UNCHANGED <<sp, fn, arg, ul, uh, vl, vh>>
    BY <1>9, <2>2, SameArguments DEF Goes
  <2>4. Writes(0)
    BY <2>2, WritesNone
  <2>5. Holds(250, 0, 4) /\ Holds(254, 0, 0)
    BY <1>9 DEF CopyAt, Upwards, Downwards
  <2>6. Holds(250, 0, 4)' /\ Holds(254, 0, 0)'
    BY <2>4, <2>5, Areas, HeldStays
  <2>. QED
    BY <2>2, <2>3, <2>5, <2>6 DEF CopyAt, Upwards
<1>10. CASE pc = 10
  <2>1. I = RI("LDI", 27, 0)
    BY <1>10, CopyProgram DEF I, Running
  <2>2. Goes({27}) /\ dm'[27] = 0
    BY <2>1, ByteNumbers, MoveRuns
  <2>3. /\ pc' = 11 /\ Running' /\ UNCHANGED <<sp, fn, arg, ul, uh, vl, vh>>
        /\ dm'[26] = dm[26]
    BY <1>10, <2>2, SameArguments DEF Goes
  <2>4. Writes(0)
    BY <2>2, WritesNone
  <2>5. Holds(250, 0, 4) /\ Holds(254, 0, 0) /\ dm[26] = 250
    BY <1>10 DEF CopyAt, Upwards, Downwards
  <2>6. Holds(250, 0, 4)' /\ Holds(254, 0, 0)'
    BY <2>4, <2>5, Areas, HeldStays
  <2>7. Word(26)' = 250
    BY <2>2, <2>3, <2>5 DEF Word
  <2>. QED
    BY <2>3, <2>6, <2>7 DEF CopyAt, Upwards
<1>11. CASE pc = 11
  <2>1. I = RI("LDI", 30, 254)
    BY <1>11, CopyProgram DEF I, Running
  <2>2. Goes({30}) /\ dm'[30] = 254
    BY <2>1, ByteNumbers, MoveRuns
  <2>3. /\ pc' = 12 /\ Running' /\ UNCHANGED <<sp, fn, arg, ul, uh, vl, vh>>
        /\ dm'[26] = dm[26]
        /\ dm'[27] = dm[27]
    BY <1>11, <2>2, SameArguments DEF Goes
  <2>4. Writes(0)
    BY <2>2, WritesNone
  <2>5. Holds(250, 0, 4) /\ Holds(254, 0, 0) /\ Word(26) = 250
    BY <1>11 DEF CopyAt, Upwards, Downwards
  <2>6. Holds(250, 0, 4)' /\ Holds(254, 0, 0)'
    BY <2>4, <2>5, Areas, HeldStays
  <2>7. Word(26)' = Word(26)
    BY <2>3 DEF Word
  <2>. QED
    BY <2>2, <2>3, <2>5, <2>6, <2>7 DEF CopyAt, Upwards
<1>12. CASE pc = 12
  <2>1. I = RI("LDI", 31, 0)
    BY <1>12, CopyProgram DEF I, Running
  <2>2. Goes({31}) /\ dm'[31] = 0
    BY <2>1, ByteNumbers, MoveRuns
  <2>3. /\ pc' = 13 /\ Running' /\ UNCHANGED <<sp, fn, arg, ul, uh, vl, vh>>
        /\ dm'[26] = dm[26]
        /\ dm'[27] = dm[27]
        /\ dm'[30] = dm[30]
    BY <1>12, <2>2, SameArguments DEF Goes
  <2>4. Writes(0)
    BY <2>2, WritesNone
  <2>5. Holds(250, 0, 4) /\ Holds(254, 0, 0) /\ Word(26) = 250 /\ dm[30] = 254
    BY <1>12 DEF CopyAt, Upwards, Downwards
  <2>6. Holds(250, 0, 4)' /\ Holds(254, 0, 0)'
    BY <2>4, <2>5, Areas, HeldStays
  <2>7. Word(30)' = 254
    BY <2>2, <2>3, <2>5 DEF Word
  <2>8. Word(26)' = Word(26)
    BY <2>3 DEF Word
  <2>. QED
    BY <2>3, <2>5, <2>6, <2>7, <2>8 DEF CopyAt, Upwards
<1>13. CASE pc = 13
  <2>1. I = RI("LDI", 20, 4)
    BY <1>13, CopyProgram DEF I, Running
  <2>2. Goes({20}) /\ dm'[20] = 4
    BY <2>1, ByteNumbers, MoveRuns
  <2>3. /\ pc' = 14 /\ Running' /\ UNCHANGED <<sp, fn, arg, ul, uh, vl, vh>>
        /\ dm'[26] = dm[26]
        /\ dm'[27] = dm[27]
        /\ dm'[30] = dm[30]
        /\ dm'[31] = dm[31]
    BY <1>13, <2>2, SameArguments DEF Goes
  <2>4. Writes(0)
    BY <2>2, WritesNone
  <2>5. Holds(250, 0, 4) /\ Holds(254, 0, 0) /\ Word(26) = 250 /\ Word(30) = 254
    BY <1>13 DEF CopyAt, Upwards, Downwards
  <2>6. Holds(250, 0, 4)' /\ Holds(254, 0, 0)'
    BY <2>4, <2>5, Areas, HeldStays
  <2>7. Word(26)' = Word(26)
    BY <2>3 DEF Word
  <2>8. Word(30)' = Word(30)
    BY <2>3 DEF Word
  <2>9. UpLoop(4)'
    BY <2>2, <2>3, <2>5, <2>6, <2>7, <2>8 DEF UpLoop, Upwards
  <2>. QED
    BY <2>3, <2>9 DEF CopyAt
<1>18. CASE pc = 18
  <2>1. I = RI("LDI", 28, 6)
    BY <1>18, CopyProgram DEF I, Running
  <2>2. Goes({28}) /\ dm'[28] = 6
    BY <2>1, ByteNumbers, MoveRuns
  <2>3. /\ pc' = 19 /\ Running' /\ UNCHANGED <<sp, fn, arg, ul, uh, vl, vh>>
        /\ dm'[30] = dm[30]
        /\ dm'[31] = dm[31]
    BY <1>18, <2>2, SameArguments DEF Goes
  <2>4. Writes(0)
    BY <2>2, WritesNone
  <2>5. Holds(254, 0, 4) /\ Holds(258, 4, 4) /\ Word(30) = 258
    BY <1>18 DEF CopyAt, Upwards, Downwards
  <2>6. Holds(254, 0, 4)' /\ Holds(258, 4, 4)'
    BY <2>4, <2>5, Areas, HeldStays
  <2>7. Word(30)' = Word(30)
    BY <2>3 DEF Word
  <2>. QED
    BY <2>2, <2>3, <2>5, <2>6, <2>7 DEF CopyAt, Downwards
<1>19. CASE pc = 19
  <2>1. I = RI("LDI", 29, 1)
    BY <1>19, CopyProgram DEF I, Running
  <2>2. Goes({29}) /\ dm'[29] = 1
    BY <2>1, ByteNumbers, MoveRuns
  <2>3. /\ pc' = 20 /\ Running' /\ UNCHANGED <<sp, fn, arg, ul, uh, vl, vh>>
        /\ dm'[28] = dm[28]
        /\ dm'[30] = dm[30]
        /\ dm'[31] = dm[31]
    BY <1>19, <2>2, SameArguments DEF Goes
  <2>4. Writes(0)
    BY <2>2, WritesNone
  <2>5. Holds(254, 0, 4) /\ Holds(258, 4, 4) /\ Word(30) = 258 /\ dm[28] = 6
    BY <1>19 DEF CopyAt, Upwards, Downwards
  <2>6. Holds(254, 0, 4)' /\ Holds(258, 4, 4)'
    BY <2>4, <2>5, Areas, HeldStays
  <2>7. Word(28)' = 262
    BY <2>2, <2>3, <2>5 DEF Word
  <2>8. Word(30)' = Word(30)
    BY <2>3 DEF Word
  <2>. QED
    BY <2>3, <2>5, <2>6, <2>7, <2>8 DEF CopyAt, Downwards
<1>20. CASE pc = 20
  <2>1. I = RI("LDI", 20, 4)
    BY <1>20, CopyProgram DEF I, Running
  <2>2. Goes({20}) /\ dm'[20] = 4
    BY <2>1, ByteNumbers, MoveRuns
  <2>3. /\ pc' = 21 /\ Running' /\ UNCHANGED <<sp, fn, arg, ul, uh, vl, vh>>
        /\ dm'[28] = dm[28]
        /\ dm'[29] = dm[29]
        /\ dm'[30] = dm[30]
        /\ dm'[31] = dm[31]
    BY <1>20, <2>2, SameArguments DEF Goes
  <2>4. Writes(0)
    BY <2>2, WritesNone
  <2>5. Holds(254, 0, 4) /\ Holds(258, 4, 4) /\ Word(30) = 258 /\ Word(28) = 262
    BY <1>20 DEF CopyAt, Upwards, Downwards
  <2>6. Holds(254, 0, 4)' /\ Holds(258, 4, 4)'
    BY <2>4, <2>5, Areas, HeldStays
  <2>7. Word(28)' = Word(28)
    BY <2>3 DEF Word
  <2>8. Word(30)' = Word(30)
    BY <2>3 DEF Word
  <2>9. DownLoop(4)'
    BY <2>2, <2>3, <2>5, <2>6, <2>7, <2>8 DEF DownLoop, Downwards
  <2>. QED
    BY <2>3, <2>9 DEF CopyAt
<1>14. CASE pc = 14
  <2>1. I = RR("LDP", 0, 26)
    BY <1>14, CopyProgram DEF I, Running
  <2>2. PICK j \in 0..4 : UpLoop(j)
    BY <1>14 DEF CopyAt
  <2>3. j \in 1..4 /\ dm[20] = j /\ Holds(250, 0, 4) /\ Holds(254, 0, 4 - j)
        /\ Word(26) = 254 - j /\ Word(30) = 258 - j
    BY <1>14, <2>2 DEF UpLoop, Upwards, Sets
  <2>0. /\ 254 - j \in Locs /\ 254 - j = Word(26) /\ 254 - j = 250 + (4 - j)
        /\ 4 - j \in 0..3 /\ 254 - j + 1 = 255 - j /\ 0 \notin {26, 26 + 1}
    BY <2>3, StoredCells
  <2>. DEFINE a == 254 - j
              d == 0
              p == 26
  <2>10. /\ a \in Locs /\ a = Word(p) /\ d \in Reg /\ Pair(p) /\ d \notin {p, p + 1}
         /\ I = RR("LDP", d, p)
    BY <2>0, <2>1
  <2>. HIDE DEF a, d, p
  <2>11. Goes({d, p, p + 1}) /\ dm'[d] = dm[a] /\ Word(p)' = a + 1
    BY <2>10, LdpRuns
  <2>4. Goes({0, 26, 26 + 1}) /\ dm'[0] = dm[254 - j] /\ Word(26)' = 255 - j
    BY <2>0, <2>11 DEF a, d, p
  <2>5. /\ pc' = 15 /\ Running' /\ UNCHANGED <<sp, fn, arg, ul, uh, vl, vh>>
        /\ dm'[20] = dm[20] /\ dm'[30] = dm[30] /\ dm'[31] = dm[31]
    BY <1>14, <2>3, <2>4, SameArguments DEF Goes
  <2>6. Writes(0)
    BY <2>4, WritesOne
  <2>7. Word(30)' = Word(30)
    BY <2>5 DEF Word
  <2>8. Holds(250, 0, 4)' /\ Holds(254, 0, 4 - j)' /\ dm'[0] = Val(4 - j)'
    <3>1. dm[250 + (4 - j)] = Val(4 - j)
      BY <2>0, <2>3, HeldAt
    <3>2. Val(4 - j)' = Val(4 - j)
      BY <2>0, <2>5, SameVal
    <3>3. Holds(250, 0, 4)' /\ Holds(254, 0, 4 - j)'
      BY <2>3, <2>6, Areas, HeldStays
    <3>. QED
      BY <2>0, <2>4, <3>1, <3>2, <3>3
  <2>9. UpLoop(j)'
    BY <2>3, <2>4, <2>5, <2>7, <2>8 DEF UpLoop, Upwards
  <2>. QED
    BY <2>3, <2>5, <2>9 DEF CopyAt
<1>15. CASE pc = 15
  <2>1. I = RR("STP", 0, 30)
    BY <1>15, CopyProgram DEF I, Running
  <2>2. PICK j \in 0..4 : UpLoop(j)
    BY <1>15 DEF CopyAt
  <2>3. j \in 1..4 /\ dm[20] = j /\ dm[0] = Val(4 - j) /\ Holds(250, 0, 4)
        /\ Holds(254, 0, 4 - j) /\ Word(26) = 255 - j /\ Word(30) = 258 - j
    BY <1>15, <2>2 DEF UpLoop, Upwards, Sets
  <2>0. /\ 258 - j \in Store /\ 258 - j = Word(30) /\ 258 - j = 254 + (4 - j) /\ 4 - j \in 0..3
        /\ 253 < 258 - j /\ 0 # 258 - j /\ 20 # 258 - j /\ 26 # 258 - j /\ 27 # 258 - j
    BY <2>3, StoredCells
  <2>4. Goes({258 - j, 30, 30 + 1}) /\ dm'[258 - j] = dm[0] /\ Word(30)' = 259 - j
    BY <2>0, <2>1, StpRuns
  <2>5. /\ pc' = 16 /\ Running' /\ UNCHANGED <<sp, fn, arg, ul, uh, vl, vh>>
        /\ dm'[20] = dm[20] /\ dm'[26] = dm[26] /\ dm'[27] = dm[27]
    BY <1>15, <2>3, <2>4, SameArguments DEF Goes
  <2>6. Writes(258 - j)
    BY <2>4, WritesOne
  <2>7. Word(26)' = Word(26)
    BY <2>5 DEF Word
  <2>8. Holds(250, 0, 4)' /\ Holds(254, 0, 5 - j)'
    <3>1. Holds(250, 0, 4)'
      BY <2>0, <2>3, <2>6, Areas, HeldStays
    <3>2. Writes(254 + (4 - j)) /\ dm'[254 + (4 - j)] = Val(4 - j)
      BY <2>0, <2>3, <2>4, <2>6
    <3>3. Holds(254, 0, (4 - j) + 1)'
      BY <2>0, <2>3, <3>2, Areas, OneMore
    <3>4. (4 - j) + 1 = 5 - j
      BY <2>3
    <3>. QED
      BY <3>1, <3>3, <3>4
  <2>9. UpLoop(j)'
    BY <2>3, <2>4, <2>5, <2>7, <2>8 DEF UpLoop, Upwards
  <2>. QED
    BY <2>3, <2>5, <2>9 DEF CopyAt
<1>21. CASE pc = 21
  <2>1. I = RR("LDM", 0, 30)
    BY <1>21, CopyProgram DEF I, Running
  <2>2. PICK j \in 0..4 : DownLoop(j)
    BY <1>21 DEF CopyAt
  <2>3. j \in 1..4 /\ dm[20] = j /\ Holds(254, 0, 4) /\ Holds(258, j, 4)
        /\ Word(30) = 254 + j /\ Word(28) = 258 + j
    BY <1>21, <2>2 DEF DownLoop, Downwards, Sets
  <2>0. /\ 253 + j \in Store /\ Word(30) = 253 + j + 1 /\ 253 + j = 254 + (j - 1)
        /\ j - 1 \in 0..3
    BY <2>3, StoredCells
  <2>4. Goes({0, 30, 30 + 1}) /\ dm'[0] = dm[253 + j] /\ Word(30)' = 253 + j
    BY <2>0, <2>1, LdmRuns
  <2>5. /\ pc' = 22 /\ Running' /\ UNCHANGED <<sp, fn, arg, ul, uh, vl, vh>>
        /\ dm'[20] = dm[20] /\ dm'[28] = dm[28] /\ dm'[29] = dm[29]
    BY <1>21, <2>3, <2>4, SameArguments DEF Goes
  <2>6. Writes(0)
    BY <2>4, WritesOne
  <2>7. Word(28)' = Word(28)
    BY <2>5 DEF Word
  <2>8. Holds(254, 0, 4)' /\ Holds(258, j, 4)' /\ dm'[0] = Val(j - 1)'
    <3>1. dm[254 + (j - 1)] = Val(j - 1)
      BY <2>0, <2>3, HeldAt
    <3>2. Val(j - 1)' = Val(j - 1)
      BY <2>0, <2>5, SameVal
    <3>3. Holds(254, 0, 4)' /\ Holds(258, j, 4)'
      BY <2>3, <2>6, Areas, HeldStays
    <3>. QED
      BY <2>0, <2>4, <3>1, <3>2, <3>3
  <2>9. DownLoop(j)'
    BY <2>3, <2>4, <2>5, <2>7, <2>8 DEF DownLoop, Downwards
  <2>. QED
    BY <2>3, <2>5, <2>9 DEF CopyAt
<1>22. CASE pc = 22
  <2>1. I = RR("STM", 0, 28)
    BY <1>22, CopyProgram DEF I, Running
  <2>2. PICK j \in 0..4 : DownLoop(j)
    BY <1>22 DEF CopyAt
  <2>3. j \in 1..4 /\ dm[20] = j /\ dm[0] = Val(j - 1) /\ Holds(254, 0, 4)
        /\ Holds(258, j, 4) /\ Word(30) = 253 + j /\ Word(28) = 258 + j
    BY <1>22, <2>2 DEF DownLoop, Downwards, Sets
  <2>0. /\ 257 + j \in Store /\ Word(28) = 257 + j + 1 /\ 257 + j = 258 + (j - 1)
        /\ j - 1 \in 0..3 /\ 257 < 257 + j /\ 0 \notin {28, 28 + 1}
        /\ 0 # 257 + j /\ 20 # 257 + j /\ 30 # 257 + j /\ 31 # 257 + j
    BY <2>3, StoredCells
  <2>. DEFINE a == 257 + j
  <2>10. a \in Store /\ Word(28) = a + 1 /\ 0 \notin {28, 28 + 1}
    BY <2>0
  <2>. HIDE DEF a
  <2>11. Goes({a, 28, 28 + 1}) /\ dm'[a] = dm[0] /\ Word(28)' = a
    BY <2>1, <2>10, StmRuns
  <2>4. Goes({257 + j, 28, 28 + 1}) /\ dm'[257 + j] = dm[0] /\ Word(28)' = 257 + j
    BY <2>11 DEF a
  <2>5. /\ pc' = 23 /\ Running' /\ UNCHANGED <<sp, fn, arg, ul, uh, vl, vh>>
        /\ dm'[20] = dm[20] /\ dm'[30] = dm[30] /\ dm'[31] = dm[31]
    BY <1>22, <2>3, <2>4, SameArguments DEF Goes
  <2>6. Writes(257 + j)
    BY <2>4, WritesOne
  <2>7. Word(30)' = Word(30)
    BY <2>5 DEF Word
  <2>8. Holds(254, 0, 4)' /\ Holds(258, j - 1, 4)'
    <3>1. Holds(254, 0, 4)'
      BY <2>0, <2>3, <2>6, Areas, HeldStays
    <3>2. Writes(258 + (j - 1)) /\ dm'[258 + (j - 1)] = Val(j - 1)
      BY <2>0, <2>3, <2>4, <2>6
    <3>3. Holds(258, (j - 1) + 1, 4)
      BY <2>3
    <3>4. Holds(258, j - 1, 4)'
      BY <2>0, <3>2, <3>3, Areas, OneMore
    <3>. QED
      BY <3>1, <3>4
  <2>9. DownLoop(j)'
    BY <2>3, <2>4, <2>5, <2>7, <2>8 DEF DownLoop, Downwards
  <2>. QED
    BY <2>3, <2>5, <2>9 DEF CopyAt
<1>16. CASE pc = 16
  <2>1. I = R("DEC", 20)
    BY <1>16, CopyProgram DEF I, Running
  <2>2. PICK j \in 0..4 : UpLoop(j)
    BY <1>16 DEF CopyAt
  <2>3. j \in 1..4 /\ dm[20] = j /\ Holds(250, 0, 4) /\ Holds(254, 0, 5 - j)
          /\ Word(26) = 255 - j /\ Word(30) = 259 - j
    BY <1>16, <2>2 DEF UpLoop, Upwards, Sets
  <2>4. /\ Goes({20}) /\ dm'[20] = (IF dm[20] = 0 THEN 255 ELSE dm[20] - 1)
        /\ ZERO \in sreg' <=> dm'[20] = 0
    BY <2>1, DecRuns
  <2>5. /\ pc' = 17 /\ Running' /\ UNCHANGED <<sp, fn, arg, ul, uh, vl, vh>>
        /\ dm'[26] = dm[26] /\ dm'[26 + 1] = dm[26 + 1]
        /\ dm'[30] = dm[30] /\ dm'[30 + 1] = dm[30 + 1]
    BY <1>16, <2>4, SameArguments DEF Goes
  <2>6. Writes(0)
    BY <2>4, WritesNone
  <2>7. Word(26)' = Word(26) /\ Word(30)' = Word(30)
    BY <2>5 DEF Word
  <2>8. Holds(250, 0, 4)' /\ Holds(254, 0, 5 - j)'
    BY <2>3, <2>6, Areas, HeldStays
  <2>0. PICK i \in 0..3 : i = j - 1
    BY <2>3
  <2>10. dm'[20] = i /\ Sets(ZERO, i = 0)'
    BY <2>0, <2>3, <2>4 DEF Sets
  <2>11. Word(26)' = 254 - i /\ Word(30)' = 258 - i /\ 5 - j = 4 - i
    BY <2>0, <2>3, <2>7
  <2>12. Holds(254, 0, 4 - i)'
    BY <2>0, <2>3, <2>8
  <2>9. UpLoop(i)'
    BY <2>5, <2>8, <2>10, <2>11, <2>12 DEF UpLoop, Upwards
  <2>. QED
    BY <2>5, <2>9 DEF CopyAt
<1>23. CASE pc = 23
  <2>1. I = R("DEC", 20)
    BY <1>23, CopyProgram DEF I, Running
  <2>2. PICK j \in 0..4 : DownLoop(j)
    BY <1>23 DEF CopyAt
  <2>3. j \in 1..4 /\ dm[20] = j /\ Holds(254, 0, 4) /\ Holds(258, j - 1, 4)
          /\ Word(30) = 253 + j /\ Word(28) = 257 + j
    BY <1>23, <2>2 DEF DownLoop, Downwards, Sets
  <2>4. /\ Goes({20}) /\ dm'[20] = (IF dm[20] = 0 THEN 255 ELSE dm[20] - 1)
        /\ ZERO \in sreg' <=> dm'[20] = 0
    BY <2>1, DecRuns
  <2>5. /\ pc' = 24 /\ Running' /\ UNCHANGED <<sp, fn, arg, ul, uh, vl, vh>>
        /\ dm'[28] = dm[28] /\ dm'[28 + 1] = dm[28 + 1]
        /\ dm'[30] = dm[30] /\ dm'[30 + 1] = dm[30 + 1]
    BY <1>23, <2>4, SameArguments DEF Goes
  <2>6. Writes(0)
    BY <2>4, WritesNone
  <2>7. Word(28)' = Word(28) /\ Word(30)' = Word(30)
    BY <2>5 DEF Word
  <2>8. Holds(254, 0, 4)' /\ Holds(258, j - 1, 4)'
    BY <2>3, <2>6, Areas, HeldStays
  <2>0. PICK i \in 0..3 : i = j - 1
    BY <2>3
  <2>10. dm'[20] = i /\ Sets(ZERO, i = 0)'
    BY <2>0, <2>3, <2>4 DEF Sets
  <2>11. Word(30)' = 254 + i /\ Word(28)' = 258 + i
    BY <2>0, <2>3, <2>7
  <2>12. Holds(258, i, 4)'
    BY <2>0, <2>3, <2>8
  <2>9. DownLoop(i)'
    BY <2>5, <2>8, <2>10, <2>11, <2>12 DEF DownLoop, Downwards
  <2>. QED
    BY <2>5, <2>9 DEF CopyAt
<1>17. CASE pc = 17
  <2>1. I = Br("BRBC", ZERO, -4)
    BY <1>17, CopyProgram DEF I, Running
  <2>2. PICK j \in 0..4 : UpLoop(j)
    BY <1>17 DEF CopyAt
  <2>3. dm[20] = j /\ (ZERO \in sreg <=> j = 0) /\ Holds(250, 0, 4) /\ Holds(254, 0, 4 - j)
          /\ Word(26) = 254 - j /\ Word(30) = 258 - j
    BY <1>17, <2>2 DEF UpLoop, Upwards, Sets
  <2>4. Jumps(IF ZERO \in sreg THEN 18 ELSE 14)
    BY <1>17, <2>1, BranchRuns
  <2>5. /\ Running' /\ UNCHANGED <<sp, fn, arg, ul, uh, vl, vh>> /\ dm' = dm
        /\ pc' = IF ZERO \in sreg THEN 18 ELSE 14
    BY <2>4, SameArguments DEF Jumps
  <2>6. Writes(0)
    BY <2>5 DEF Writes
  <2>7. Word(28)' = Word(28) /\ Word(30)' = Word(30) /\ Word(26)' = Word(26)
    BY <2>5 DEF Word
  <2>8. Holds(250, 0, 4)' /\ Holds(254, 0, 4 - j)'
    BY <2>3, <2>6, Areas, HeldStays
  <2>9. CASE j = 0
    <3>1. pc' = 18
      BY <2>3, <2>5, <2>9
    <3>2. Downwards(4)' /\ Word(30)' = 258
      BY <2>3, <2>7, <2>8, <2>9, NoneHeld DEF Downwards, Holds
    <3>. QED
      BY <2>5, <3>1, <3>2 DEF CopyAt
  <2>10. CASE j # 0
    <3>1. pc' = 14
      BY <2>3, <2>5, <2>10
    <3>2. UpLoop(j)'
      BY <2>3, <2>5, <2>7, <2>8, <2>10, <3>1 DEF UpLoop, Upwards
    <3>. QED
      BY <2>5, <3>1, <3>2 DEF CopyAt
  <2>. QED
    BY <2>9, <2>10
<1>24. CASE pc = 24
  <2>1. I = Br("BRBC", ZERO, -4)
    BY <1>24, CopyProgram DEF I, Running
  <2>2. PICK j \in 0..4 : DownLoop(j)
    BY <1>24 DEF CopyAt
  <2>3. dm[20] = j /\ (ZERO \in sreg <=> j = 0) /\ Holds(254, 0, 4) /\ Holds(258, j, 4)
          /\ Word(30) = 254 + j /\ Word(28) = 258 + j
    BY <1>24, <2>2 DEF DownLoop, Downwards, Sets
  <2>4. Jumps(IF ZERO \in sreg THEN 25 ELSE 21)
    BY <1>24, <2>1, BranchRuns
  <2>5. /\ Running' /\ UNCHANGED <<sp, fn, arg, ul, uh, vl, vh>> /\ dm' = dm
        /\ pc' = IF ZERO \in sreg THEN 25 ELSE 21
    BY <2>4, SameArguments DEF Jumps
  <2>6. Writes(0)
    BY <2>5 DEF Writes
  <2>7. Word(28)' = Word(28) /\ Word(30)' = Word(30) /\ Word(26)' = Word(26)
    BY <2>5 DEF Word
  <2>8. Holds(254, 0, 4)' /\ Holds(258, j, 4)'
    BY <2>3, <2>6, Areas, HeldStays
  <2>9. CASE j = 0
    <3>1. pc' = 25
      BY <2>3, <2>5, <2>9
    <3>2. Downwards(0)' /\ Word(28)' = 258
      BY <2>3, <2>7, <2>8, <2>9, NoneHeld DEF Downwards
    <3>. QED
      BY <2>5, <3>1, <3>2 DEF CopyAt
  <2>10. CASE j # 0
    <3>1. pc' = 21
      BY <2>3, <2>5, <2>10
    <3>2. DownLoop(j)'
      BY <2>3, <2>5, <2>7, <2>8, <2>10, <3>1 DEF DownLoop, Downwards
    <3>. QED
      BY <2>5, <3>1, <3>2 DEF CopyAt
  <2>. QED
    BY <2>9, <2>10
<1>25. CASE pc = 25
  <2>1. I = A("LD", 16, 28, 0)
    BY <1>25, CopyProgram DEF I, Running
  <2>2. Holds(254, 0, 4) /\ Holds(258, 0, 4) /\ Word(28) = 258
    BY <1>25 DEF CopyAt, Downwards
  <2>. DEFINE a == 258
  <2>3. a \in Locs /\ a = Word(28) + 0
    BY <1>25, <2>2, StoredCells
  <2>. HIDE DEF a
  <2>4. Goes({16}) /\ dm'[16] = dm[a]
    <3>1. 16 \in Reg
      OBVIOUS
    <3>. HIDE CopyRegisters
    <3>. QED
      BY <2>1, <2>3, <3>1, LdRuns, SMTT(60)
  <2>5. /\ pc' = 26 /\ Running' /\ UNCHANGED <<sp, fn, arg, ul, uh, vl, vh>>
        /\ dm'[28] = dm[28]
        /\ dm'[29] = dm[29]
    BY <1>25, <2>4, SameArguments DEF Goes, GoesTo, Leaves
  <2>6. dm[a] = Val(0)
    <3>1. dm[258 + 0] = Val(0)
      BY <2>2, HeldAt
    <3>. QED
      BY <3>1 DEF a
  <2>7. dm'[16] = ul
    BY <2>4, <2>6 DEF Val
  <2>8. Writes(0)
    BY <2>4, WritesNone
  <2>9. Holds(254, 0, 4)' /\ Holds(258, 0, 4)'
    BY <2>2, <2>8, Areas, HeldStays
  <2>. QED
    BY <2>2, <2>5, <2>7, <2>9 DEF CopyAt, Downwards, Word
<1>26. CASE pc = 26
  <2>1. I = A("LD", 17, 28, 1)
    BY <1>26, CopyProgram DEF I, Running
  <2>2. Holds(254, 0, 4) /\ Holds(258, 0, 4) /\ Word(28) = 258 /\ dm[16] = ul
    BY <1>26 DEF CopyAt, Downwards
  <2>. DEFINE a == 259
  <2>3. a \in Locs /\ a = Word(28) + 1
    BY <1>26, <2>2, StoredCells
  <2>. HIDE DEF a
  <2>4. Goes({17}) /\ dm'[17] = dm[a]
    <3>1. 17 \in Reg
      OBVIOUS
    <3>. HIDE CopyRegisters
    <3>. QED
      BY <2>1, <2>3, <3>1, LdRuns, SMTT(60)
  <2>5. /\ pc' = 27 /\ Running' /\ UNCHANGED <<sp, fn, arg, ul, uh, vl, vh>>
        /\ dm'[16] = dm[16]
        /\ dm'[28] = dm[28]
        /\ dm'[29] = dm[29]
    BY <1>26, <2>4, SameArguments DEF Goes, GoesTo, Leaves
  <2>6. dm[a] = Val(1)
    <3>1. dm[258 + 1] = Val(1)
      BY <2>2, HeldAt
    <3>. QED
      BY <3>1 DEF a
  <2>7. dm'[17] = uh
    BY <2>4, <2>6 DEF Val
  <2>8. Writes(0)
    BY <2>4, WritesNone
  <2>9. Holds(254, 0, 4)' /\ Holds(258, 0, 4)'
    BY <2>2, <2>8, Areas, HeldStays
  <2>. QED
    BY <2>2, <2>5, <2>7, <2>9 DEF CopyAt, Downwards, Word
<1>27. CASE pc = 27
  <2>1. I = A("LD", 18, 28, 2)
    BY <1>27, CopyProgram DEF I, Running
  <2>2. Holds(254, 0, 4) /\ Holds(258, 0, 4) /\ Word(28) = 258 /\ dm[16] = ul /\ dm[17] = uh
    BY <1>27 DEF CopyAt, Downwards
  <2>. DEFINE a == 260
  <2>3. a \in Locs /\ a = Word(28) + 2
    BY <1>27, <2>2, StoredCells
  <2>. HIDE DEF a
  <2>4. Goes({18}) /\ dm'[18] = dm[a]
    <3>1. 18 \in Reg
      OBVIOUS
    <3>. HIDE CopyRegisters
    <3>. QED
      BY <2>1, <2>3, <3>1, LdRuns, SMTT(60)
  <2>5. /\ pc' = 28 /\ Running' /\ UNCHANGED <<sp, fn, arg, ul, uh, vl, vh>>
        /\ dm'[16] = dm[16]
        /\ dm'[17] = dm[17]
    BY <1>27, <2>4, SameArguments DEF Goes, GoesTo, Leaves
  <2>6. dm[a] = Val(2)
    <3>1. dm[258 + 2] = Val(2)
      BY <2>2, HeldAt
    <3>. QED
      BY <3>1 DEF a
  <2>7. dm'[18] = vl
    BY <2>4, <2>6 DEF Val
  <2>8. Writes(0)
    BY <2>4, WritesNone
  <2>9. Holds(254, 0, 4)' /\ Holds(258, 0, 4)'
    BY <2>2, <2>8, Areas, HeldStays
  <2>. QED
    BY <2>2, <2>5, <2>7, <2>9 DEF CopyAt, Downwards, Word
<1>28. CASE pc = 28
  <2>1. I = R("LDS", 19)
    BY <1>28, CopyProgram DEF I, Running
  <2>2. Holds(254, 0, 4) /\ Holds(258, 0, 4) /\ dm[16] = ul /\ dm[17] = uh /\ dm[18] = vl
    BY <1>28 DEF CopyAt, Downwards
  <2>. DEFINE a == 261
  <2>3. a \in Locs /\ pm[pc + 1] = Data(a)
    BY <1>28, <2>2, StoredCells, CopyProgram DEF Running
  <2>. HIDE DEF a
  <2>4. GoesTo(pc + 2, {19}) /\ dm'[19] = dm[a]
    BY <2>1, <2>3, LdsRuns
  <2>5. /\ pc' = 30 /\ Running' /\ UNCHANGED <<sp, fn, arg, ul, uh, vl, vh>>
        /\ dm'[16] = dm[16]
        /\ dm'[17] = dm[17]
        /\ dm'[18] = dm[18]
    BY <1>28, <2>4, SameArguments DEF Goes, GoesTo, Leaves
  <2>6. dm[a] = Val(3)
    <3>1. dm[258 + 3] = Val(3)
      BY <2>2, HeldAt
    <3>. QED
      BY <3>1 DEF a
  <2>7. dm'[19] = vh
    BY <2>4, <2>6 DEF Val
  <2>8. Word(16)' = ul + 256 * uh /\ Word(18)' = vl + 256 * vh
    BY <2>2, <2>5, <2>7 DEF Word
  <2>9. u' = ul + 256 * uh /\ v' = vl + 256 * vh
    BY <2>5, Arguments DEF u, v
  <2>. QED
    BY <2>5, <2>8, <2>9 DEF CopyAt, CopyExact
<1>30. CASE pc = 30
  <2>1. I = Ret
    BY <1>30, CopyProgram DEF I, Running
  <2>2. Returns /\ UNCHANGED <<dm, sreg, pm, fn, arg>>
    BY <2>1, RetRuns
  <2>3. CopyExact
    BY <1>30 DEF CopyAt
  <2>4. CopyExact'
    BY <2>2, <2>3 DEF CopyExact, Word, u, v
  <2>. QED
    BY <2>2, <2>4
<1>31. \/ pc \in {1, 3, 5, 7} \cup 9..13 \/ pc \in 14..17
       \/ pc \in 18..24 \/ pc \in 25..28 \cup {30}
  BY SMTT(60) DEF CopyAt
<1>32. CASE pc \in {1, 3, 5, 7} \cup 9..13
  BY <1>32, <1>1, <1>3, <1>5, <1>7, <1>9, <1>10, <1>11, <1>12, <1>13
<1>33. CASE pc \in 14..17
  BY <1>33, <1>14, <1>15, <1>16, <1>17
<1>34. CASE pc \in 18..24
  BY <1>34, <1>18, <1>19, <1>20, <1>21, <1>22, <1>23, <1>24
<1>35. CASE pc \in 25..28 \cup {30}
  BY <1>35, <1>25, <1>26, <1>27, <1>28, <1>30
<1>. QED
  BY <1>31, <1>32, <1>33, <1>34, <1>35

-----------------------------------------------------------------------------
\* muls: numbers equal but for multiples of 2^32.
More(x, y, c, k) ==
  /\ x \in Int /\ y \in Int /\ c \in Int /\ k \in Int
  /\ y = x + c + 65536 * (65536 * k)
\* A sum, and the multiple of 2^32 by which it is more.
LEMMA SameMore ==
  ASSUME NEW x, NEW y, NEW a \in Int, NEW c, NEW k, NEW b, More(x, y, c, k), Same32(x, a),
         b = a + c
  PROVE  Same32(y, b)
<1>1. PICK j \in Int : x = a + 65536 * (65536 * j)
  BY DEF Same32
<1>2. y = b + 65536 * (65536 * (j + k)) /\ j + k \in Int
  BY <1>1 DEF More
<1>. QED
  BY <1>2 DEF Same32

\* The bytes and the sign of a product of a signed and an unsigned byte.
Short(n) == n \in Int /\ -32768 <= n /\ n <= 32767
\* A negative number as a word is 65536 more, and the top bit is its sign.
LEMMA SignedWord ==
  ASSUME NEW n, Short(n)
  PROVE  /\ Low(n) + 256 * High(n) = IF n < 0 THEN n + 65536 ELSE n
         /\ Top15(n) <=> n < 0
<1>1. n \in Int /\ -32768 <= n /\ n <= 32767
  BY DEF Short
<1>2. (n % 256) + 256 * ((n \div 256) % 256) = IF n < 0 THEN n + 65536 ELSE n
  <2>1. n = (n % 256) + 256 * (n \div 256)
    BY <1>1
  <2>2. (n \div 256) % 256 = IF n < 0 THEN (n \div 256) + 256 ELSE n \div 256
    BY <1>1
  <2>. QED
    BY <1>1, <2>1, <2>2
<1>3. (n \div 32768) % 2 = 1 <=> n < 0
  BY <1>1
<1>4. 2^15 = 32768
  OBVIOUS
<1>. QED
  BY <1>1, <1>2, <1>3, <1>4 DEF Low, High, Top15, Bit

\* The high bytes of the arguments as signed numbers.
LEMMA SignedTypes ==
  ASSUME Running
  PROVE  /\ Signed(uh) \in Int /\ -128 <= Signed(uh) /\ Signed(uh) <= 127
         /\ Signed(vh) \in Int /\ -128 <= Signed(vh) /\ Signed(vh) <= 127
BY Arguments DEF Signed

\* The signed products fit in 16 bits.
LEMMA SignedProducts ==
  ASSUME Running
  PROVE  /\ Short(SCross1) /\ Short(SCross2) /\ Short(Upper)
         /\ -16384 <= Upper /\ Upper <= 16384 /\ Straight \in Int
<1>1. \A x, y \in Int : -128 <= x /\ x <= 127 /\ 0 <= y /\ y < 256 => Short(x * y)
  <2>. SUFFICES ASSUME NEW x \in Int, NEW y \in Int, -128 <= x, x <= 127, 0 <= y, y < 256
                PROVE  Short(x * y)
    OBVIOUS
  <2>1. -128 * y <= x * y /\ x * y <= 127 * y
    BY SMT
  <2>2. x * y \in Int
    BY SMT
  <2>. QED
    BY <2>1, <2>2, SMT DEF Short
<1>2. \A x, y \in Int : -128 <= x /\ x <= 127 /\ -128 <= y /\ y <= 127
                          => x * y \in Int /\ -16384 <= x * y /\ x * y <= 16384
  <2>. SUFFICES ASSUME NEW x \in Int, NEW y \in Int, -128 <= x, x <= 127, -128 <= y, y <= 127
                PROVE  x * y \in Int /\ -16384 <= x * y /\ x * y <= 16384
    OBVIOUS
  <2>0. x * y \in Int
    BY SMT
  <2>1. CASE y >= 0
    <3>1. -128 * y <= x * y /\ x * y <= 127 * y
      BY <2>1, SMT
    <3>. QED
      BY <2>0, <2>1, <3>1, SMT
  <2>2. CASE y < 0
    <3>1. 127 * y <= x * y /\ x * y <= -128 * y
      BY <2>2, SMT
    <3>. QED
      BY <2>0, <2>2, <3>1, SMT
  <2>. QED
    BY <2>1, <2>2
<1>3. Short(Signed(uh) * vl) /\ Short(Signed(vh) * ul)
  BY <1>1, Arguments, SignedTypes
<1>4. Upper \in Int /\ -16384 <= Upper /\ Upper <= 16384
  BY <1>2, SignedTypes DEF Upper
<1>. QED
  BY <1>3, <1>4, Products DEF SCross1, SCross2, Straight, Short

\* The three products that are taken.
LEMMA SameProducts ==
  ASSUME UNCHANGED <<ul, uh, vl, vh>>
  PROVE  UNCHANGED <<LowProduct, Upper, Straight, SCross1, SCross2>>
BY DEF LowProduct, Upper, Straight, SCross1, SCross2

\* The low product and the upper one side by side.
LEMMA SideBySide ==
  ASSUME NEW l \in Int, 0 <= l, l < 65536, NEW m, Short(m), NEW q,
         q = Low(l) + 256 * High(l) + 65536 * (Low(m) + 256 * High(m))
  PROVE  Same32(q, l + 65536 * m)
<1>1. l = Low(l) + 256 * High(l) /\ Low(l) \in Int /\ High(l) \in Int
  BY BytesOfWord DEF Byte
<1>2. m \in Int
  BY DEF Short
<1>3. PICK j \in {0, 1} : Low(m) + 256 * High(m) = m + 65536 * j
  BY <1>2, SignedWord, SMT
<1>. DEFINE e == Low(l) + 256 * High(l)
            g == Low(m) + 256 * High(m)
<1>4. q = e + 65536 * g /\ e = l /\ g = m + 65536 * j
  BY <1>1, <1>3
<1>. HIDE DEF e, g
<1>5. q = (l + 65536 * m) + 65536 * (65536 * j) /\ j \in Int
  BY <1>2, <1>4
<1>. QED
  BY <1>5 DEF Same32

\* What the registers of the sum hold, as a number.
LEMMA QuadType ==
  ASSUME Running
  PROVE  /\ Quad \in Int /\ Carry \in {0, 1} /\ dm[0] \in Int /\ dm[1] \in Int
         /\ dm[16] \in Int /\ dm[17] \in Int /\ dm[18] \in Int /\ dm[19] \in Int
<1>1. \A l \in {0, 1, 16, 17, 18, 19} : dm[l] \in Int
  BY Registers, MoreRegisters, RegisterTypes
<1>. QED
  BY <1>1, RegisterTypes DEF Quad

\* SBC takes the sign of n from the upper byte, for the bits that n does not have.
LEMMA SignExtends ==
  ASSUME Running, Next, dm[2] = 0, I = RR("SBC", 19, 2),
         NEW a \in Int, NEW n, Short(n), NEW b, b = a + 256 * n, Sum0(a, n)
  PROVE  Goes({19}) /\ Sum1(b)'
<1>. USE Registers, MoreRegisters
<1>1. Goes({19}) /\ dm'[19] - 256 * Carry' = dm[19] - dm[2] - Carry
  BY SbcRuns
<1>2. /\ dm'[0] = dm[0] /\ dm'[1] = dm[1] /\ dm'[16] = dm[16] /\ dm'[17] = dm[17]
      /\ dm'[18] = dm[18] /\ Running'
  BY <1>1 DEF Goes
<1>3. Carry' \in {0, 1} /\ dm'[19] \in Int
  BY <1>1, GoesTypes
<1>4. dm[0] + 256 * dm[1] = n + 65536 * Carry
  <2>1. (n < 0 => Carry = 1) /\ (~(n < 0) => Carry = 0)
    BY DEF Sum0, Sets, Carry
  <2>. QED
    BY <2>1, SignedWord DEF Sum0, Short
<1>. DEFINE x == Quad
            y == (Quad + 256 * (dm[0] + 256 * dm[1]))'
            c == 256 * n
            k == Carry'
<1>5. x \in Int /\ c \in Int /\ k \in Int /\ n \in Int
  BY <1>3, QuadType DEF Short
<1>6. y = x + c + 65536 * (65536 * k) /\ y \in Int
  <2>6. dm[16] \in Int /\ dm[17] \in Int /\ dm[18] \in Int /\ dm[19] \in Int /\ Carry \in Int
    BY QuadType
  <2>0. PICK q16, q17, q18, q19, f \in Int :
             q16 = dm[16] /\ q17 = dm[17] /\ q18 = dm[18] /\ q19 = dm[19] /\ f = Carry
    BY <2>6, Zenon
  <2>1. PICK r, e \in Int : r = dm'[19] /\ e = Carry'
    BY <1>3
  <2>2. y = q16 + 256 * q17 + 65536 * (q18 + 256 * r) + 256 * (n + 65536 * f)
    BY <1>2, <1>4, <2>0, <2>1 DEF Quad
  <2>3. x = q16 + 256 * q17 + 65536 * (q18 + 256 * q19)
    BY <2>0 DEF Quad
  <2>4. r = q19 - f + 256 * e
    BY <1>1, <2>0, <2>1
  <2>5. k = e /\ c = 256 * n
    BY <2>1
  <2>. HIDE DEF x, y, c, k
  <2>. QED
    BY <1>5, <2>2, <2>3, <2>4, <2>5
<1>7. Same32(x, a)
  BY DEF Sum0
<1>. HIDE DEF x, y, c, k
<1>8. More(x, y, c, k)
  BY <1>5, <1>6 DEF More
<1>9. b = a + c
  BY DEF c
<1>10. Same32(y, b)
  BY <1>7, <1>8, <1>9, SameMore
<1>. QED
  BY <1>1, <1>10 DEF y, Sum1

\* Three additions bring the carry from byte to byte.
LEMMA CarryMoves ==
  ASSUME Running, Next, NEW b \in Int, dm[2] = 0
  PROVE  /\ I = RR("ADD", 17, 0) /\ Sum1(b) => Goes({17}) /\ Sum2(b)'
         /\ I = RR("ADC", 18, 1) /\ Sum2(b) => Goes({18}) /\ Sum3(b)'
         /\ I = RR("ADC", 19, 2) /\ Sum3(b) => Goes({19}) /\ Sum4(b)'
<1>11. /\ dm[0] \in Int /\ dm[1] \in Int /\ dm[16] \in Int /\ dm[17] \in Int /\ dm[18] \in Int
       /\ dm[19] \in Int /\ Carry \in Int
  BY QuadType
<1>0. PICK q0, q1, q16, q17, q18, q19, f \in Int :
           /\ q0 = dm[0] /\ q1 = dm[1] /\ q16 = dm[16] /\ q17 = dm[17] /\ q18 = dm[18]
           /\ q19 = dm[19] /\ f = Carry
  BY <1>11, Zenon
<1>. USE Registers, MoreRegisters
<1>10. Quad = q16 + 256 * q17 + 65536 * (q18 + 256 * q19)
  BY <1>0 DEF Quad
<1>1. ASSUME I = RR("ADD", 17, 0), Sum1(b)
      PROVE  Goes({17}) /\ Sum2(b)'
  <2>1. Goes({17}) /\ dm'[17] + 256 * Carry' = dm[17] + dm[0]
    BY <1>1, AddRuns
  <2>2. /\ dm'[0] = dm[0] /\ dm'[1] = dm[1] /\ dm'[16] = dm[16] /\ dm'[18] = dm[18]
        /\ dm'[19] = dm[19]
    BY <2>1 DEF Goes
  <2>3. Carry' \in {0, 1} /\ dm'[17] \in Int
    BY <2>1, GoesTypes
  <2>. DEFINE y == (Quad + 65536 * (dm[1] + Carry))'
  <2>4. y = Quad + 256 * (dm[0] + 256 * dm[1])
    <3>0. PICK r, e \in Int : r = dm'[17] /\ e = Carry'
      BY <2>3
    <3>1. y = q16 + 256 * r + 65536 * (q18 + 256 * q19) + 65536 * (q1 + e)
      BY <1>0, <2>2, <3>0 DEF Quad
    <3>2. r + 256 * e = q17 + q0
      BY <1>0, <2>1, <3>0
    <3>. HIDE DEF y
    <3>3. y = q16 + 256 * q17 + 65536 * (q18 + 256 * q19) + 256 * (q0 + 256 * q1)
      BY <3>1, <3>2
    <3>. QED
      BY <1>0, <1>10, <3>3
  <2>. QED
    BY <1>1, <2>1, <2>4, SMT DEF Sum1, Sum2
<1>2. ASSUME I = RR("ADC", 18, 1), Sum2(b)
      PROVE  Goes({18}) /\ Sum3(b)'
  <2>1. Goes({18}) /\ dm'[18] + 256 * Carry' = dm[18] + dm[1] + Carry
    BY <1>2, AdcRuns
  <2>2. dm'[16] = dm[16] /\ dm'[17] = dm[17] /\ dm'[19] = dm[19]
    BY <2>1 DEF Goes
  <2>3. Carry' \in {0, 1} /\ dm'[18] \in Int
    BY <2>1, GoesTypes
  <2>. DEFINE y == (Quad + 16777216 * Carry)'
  <2>4. y = Quad + 65536 * (dm[1] + Carry)
    <3>0. PICK r, e \in Int : r = dm'[18] /\ e = Carry'
      BY <2>3
    <3>1. y = q16 + 256 * q17 + 65536 * (r + 256 * q19) + 16777216 * e
      BY <1>0, <2>2, <3>0, SMT DEF Quad
    <3>2. r + 256 * e = q18 + q1 + f
      BY <1>0, <2>1, <3>0
    <3>. HIDE DEF y
    <3>3. y = q16 + 256 * q17 + 65536 * (q18 + 256 * q19) + 65536 * (q1 + f)
      BY <3>1, <3>2, SMT
    <3>. QED
      BY <1>0, <1>10, <3>3
  <2>. QED
    BY <1>2, <2>1, <2>4, SMT DEF Sum2, Sum3
<1>3. ASSUME I = RR("ADC", 19, 2), Sum3(b)
      PROVE  Goes({19}) /\ Sum4(b)'
  <2>1. Goes({19}) /\ dm'[19] + 256 * Carry' = dm[19] + dm[2] + Carry
    BY <1>3, AdcRuns
  <2>2. dm'[16] = dm[16] /\ dm'[17] = dm[17] /\ dm'[18] = dm[18]
    BY <2>1 DEF Goes
  <2>3. Carry' \in {0, 1} /\ dm'[19] \in Int
    BY <2>1, GoesTypes
  <2>. DEFINE x == Quad + 16777216 * Carry
              y == Quad'
              k == -Carry'
  <2>4. x \in Int /\ k \in Int /\ y \in Int /\ y = x + 0 + 65536 * (65536 * k)
    <3>0. PICK r, e \in Int : r = dm'[19] /\ e = Carry'
      BY <2>3
    <3>1. y = q16 + 256 * q17 + 65536 * (q18 + 256 * r)
      BY <1>0, <2>2, <3>0 DEF Quad
    <3>2. r + 256 * e = q19 + 0 + f
      BY <1>0, <2>1, <3>0
    <3>3. x = q16 + 256 * q17 + 65536 * (q18 + 256 * q19) + 16777216 * f
      BY <1>0, <1>10, SMT
    <3>4. k = -e
      BY <3>0
    <3>. HIDE DEF x, y, k
    <3>. QED
      BY <3>1, <3>2, <3>3, <3>4, SMT
  <2>5. Same32(x, b)
    BY <1>3, SMT DEF Sum3
  <2>. HIDE DEF x, y, k
  <2>6. More(x, y, 0, k)
    BY <2>4 DEF More
  <2>7. b = b + 0
    OBVIOUS
  <2>8. Same32(y, b)
    BY <2>5, <2>6, <2>7, SameMore
  <2>. QED
    BY <2>1, <2>8 DEF y, Sum4
<1>. QED
  BY <1>1, <1>2, <1>3

\* The four of them in a row.
LEMMA AddingRuns ==
  ASSUME Running, Next, dm[2] = 0, NEW p \in Int, NEW a \in Int, NEW n, Short(n), NEW b \in Int,
         b = a + 256 * n, Adding(p, a, n, b), pc \in p..(p + 3),
         pm[p] = RR("SBC", 19, 2), pm[p + 1] = RR("ADD", 17, 0),
         pm[p + 2] = RR("ADC", 18, 1), pm[p + 3] = RR("ADC", 19, 2)
  PROVE  Goes({17, 18, 19}) /\ Adding(p, a, n, b)'
<1>0. \A D : D \subseteq {17, 18, 19} /\ Goes(D) => Goes({17, 18, 19})
  BY DEF Goes
<1>1. CASE pc = p
  <2>1. Goes({19}) /\ Sum1(b)'
    BY <1>1, SignExtends DEF Adding, I
  <2>2. pc' = p + 1
    BY <1>1, <2>1 DEF Goes
  <2>. QED
    BY <1>0, <2>1, <2>2 DEF Adding
<1>2. CASE pc = p + 1
  <2>1. Goes({17}) /\ Sum2(b)'
    BY <1>2, CarryMoves DEF Adding, I
  <2>2. pc' = p + 2
    BY <1>2, <2>1 DEF Goes
  <2>. QED
    BY <1>0, <2>1, <2>2 DEF Adding
<1>3. CASE pc = p + 2
  <2>1. Goes({18}) /\ Sum3(b)'
    BY <1>3, CarryMoves DEF Adding, I
  <2>2. pc' = p + 3
    BY <1>3, <2>1 DEF Goes
  <2>. QED
    BY <1>0, <2>1, <2>2 DEF Adding
<1>4. CASE pc = p + 3
  <2>1. Goes({19}) /\ Sum4(b)'
    BY <1>4, CarryMoves DEF Adding, I
  <2>2. pc' = p + 4
    BY <1>4, <2>1 DEF Goes
  <2>. QED
    BY <1>0, <2>1, <2>2 DEF Adding
<1>. QED
  BY <1>1, <1>2, <1>3, <1>4

\* A signed product of 32 bits, and the words of what equals it.
Within(n) == -1100000000 <= n /\ n <= 1100000000
\* The words of a 32-bit number that equals p but for multiples of 2^32.
LEMMA SignedHalves ==
  ASSUME NEW p \in Int, Within(p),
         NEW w \in Int, 0 <= w, w < 65536, NEW h \in Int, 0 <= h, h < 65536,
         Same32(w + 65536 * h, p)
  PROVE  w = p % 65536 /\ Signed16(h) = p \div 65536
<1>1. PICK k \in Int : w + 65536 * h = p + 65536 * (65536 * k)
  BY DEF Same32
<1>. DEFINE q == h - 65536 * k
<1>2. q \in Int /\ p = w + 65536 * q
  BY <1>1, SMT
<1>. HIDE DEF q
<1>3. w = p % 65536 /\ q = p \div 65536
  BY <1>2, SMT
<1>4. -16800 <= q /\ q <= 16800
  BY <1>2, SMT DEF Within
<1>5. (h > 32767 => k = 1) /\ (~(h > 32767) => k = 0)
  BY <1>4, SMT DEF q
<1>. QED
  BY <1>3, <1>5, SMT DEF q, Signed16

\* The product of two signed words, from those of their bytes.
LEMMA SignedProduct ==
  ASSUME Running
  PROVE  /\ Signed16(u) * Signed16(v) = Straight + 256 * SCross1 + 256 * SCross2
         /\ Signed16(u) * Signed16(v) \in Int
         /\ Within(Signed16(u) * Signed16(v))
<1>1. \A a, b, c, d \in Int : (a + 256 * b) * (c + 256 * d)
                                = a * c + 65536 * (b * d) + 256 * (b * c) + 256 * (d * a)
  BY SMT
<1>2. Signed16(u) * Signed16(v) = LowProduct + 65536 * Upper + 256 * SCross1 + 256 * SCross2
  BY <1>1, SignedArguments, Arguments DEF LowProduct, Upper, SCross1, SCross2
<1>. DEFINE p == Signed16(u) * Signed16(v)
<1>. HIDE DEF p
<1>3. p = LowProduct + 65536 * Upper + 256 * SCross1 + 256 * SCross2
  BY <1>2 DEF p
<1>4. p \in Int /\ Within(p)
  BY <1>3, Products, SignedProducts, SMT DEF Short, Within
<1>. QED
  BY <1>2, <1>4 DEF p, Straight

\* muls: the straight products side by side, and the crossed products added with their signs.
LEMMA MulsHolds ==
  ASSUME Running, Level, fn = "muls", MulsAt, Next
  PROVE  \/ Running' /\ MulsAt' /\ UNCHANGED <<sp, fn, arg>>
         \/ Returns /\ MulsExact' /\ UNCHANGED <<pm, fn, arg>>
<1>. USE Registers, MoreRegisters
<1>1. CASE pc = 1
  <2>1. I = RR("MOVW", 20, 24)
    BY <1>1, MulsProgram DEF I, Running
  <2>2. Goes({20, 20 + 1}) /\ dm'[20] = dm[24] /\ dm'[20 + 1] = dm[24 + 1]
    BY <2>1, MovwRuns, SMTT(60)
  <2>3. /\ pc' = 2 /\ Running' /\ UNCHANGED <<sp, fn, arg, ul, uh, vl, vh>>
        /\ dm'[22] = dm[22] /\ dm'[23] = dm[23]
    BY <1>1, <2>2, SameArguments DEF Goes
  <2>4. Given
    BY <1>1 DEF MulsAt, Quartet
  <2>. QED
    BY <2>2, <2>3, <2>4 DEF MulsAt, Quartet, Given
<1>2. CASE pc = 2
  <2>1. I = RR("EOR", 2, 2)
    BY <1>2, MulsProgram DEF I, Running
  <2>2. Goes({2}) /\ dm'[2] = 0
    BY <2>1, ClearRuns
  <2>3. /\ pc' = 3 /\ Running' /\ UNCHANGED <<sp, fn, arg, ul, uh, vl, vh>>
        /\ dm'[20] = dm[20] /\ dm'[21] = dm[21] /\ dm'[22] = dm[22] /\ dm'[23] = dm[23]
    BY <1>2, <2>2, SameArguments DEF Goes
  <2>4. Quartet
    BY <1>2 DEF MulsAt, Quartet
  <2>. QED
    BY <2>2, <2>3, <2>4 DEF MulsAt, Quartet
<1>3. CASE pc = 3
  <2>1. I = RR("MULS", 21, 23)
    BY <1>3, MulsProgram DEF I, Running
  <2>. DEFINE p == Upper
              op == "MULS"
  <2>0. p = Factors(op, dm[21], dm[23]) /\ p \in Int /\ op \in {"MUL", "MULS", "MULSU"}
          /\ I = RR(op, 21, 23)
    BY <1>3, <2>1, Products, SignedProducts DEF MulsAt, Quartet, Factors, Upper, Short
  <2>. HIDE DEF p, op
  <2>2. /\ Goes({0, 1}) /\ dm'[0] = Low(p) /\ dm'[1] = High(p)
        /\ CARRY \in sreg' <=> Top15(p)
    BY <2>1, <2>0, MulRuns
  <2>3. /\ pc' = 4 /\ Running' /\ UNCHANGED <<sp, fn, arg, ul, uh, vl, vh>>
        /\ dm'[20] = dm[20] /\ dm'[21] = dm[21] /\ dm'[22] = dm[22] /\ dm'[23] = dm[23]
        /\ dm'[2] = dm[2]
    BY <1>3, <2>2, SameArguments DEF Goes
  <2>4. Quartet /\ dm[2] = 0
    BY <1>3 DEF MulsAt, Quartet
  <2>5. UNCHANGED <<LowProduct, Upper, Straight, SCross1, SCross2>>
    BY <2>3, SameProducts
  <2>6. dm'[0] = Low(Upper)' /\ dm'[1] = High(Upper)'
    BY <2>2, <2>5 DEF p
  <2>. QED
    BY <2>2, <2>3, <2>4, <2>5, <2>6 DEF MulsAt, Quartet
<1>4. CASE pc = 4
  <2>1. I = RR("MOVW", 18, 0)
    BY <1>4, MulsProgram DEF I, Running
  <2>2. Goes({18, 18 + 1}) /\ dm'[18] = dm[0] /\ dm'[18 + 1] = dm[0 + 1]
    BY <2>1, MovwRuns
  <2>3. /\ pc' = 5 /\ Running' /\ UNCHANGED <<sp, fn, arg, ul, uh, vl, vh>>
        /\ dm'[20] = dm[20] /\ dm'[21] = dm[21] /\ dm'[22] = dm[22] /\ dm'[23] = dm[23]
        /\ dm'[2] = dm[2]
    BY <1>4, <2>2, SameArguments DEF Goes
  <2>4. Quartet /\ dm[2] = 0 /\ dm[0] = Low(Upper) /\ dm[1] = High(Upper)
    BY <1>4 DEF MulsAt, Quartet
  <2>5. UNCHANGED <<LowProduct, Upper, Straight, SCross1, SCross2>>
    BY <2>3, SameProducts
  <2>. QED
    BY <2>2, <2>3, <2>4, <2>5 DEF MulsAt, Quartet
<1>5. CASE pc = 5
  <2>1. I = RR("MUL", 20, 22)
    BY <1>5, MulsProgram DEF I, Running
  <2>. DEFINE p == LowProduct
              op == "MUL"
  <2>0. p = Factors(op, dm[20], dm[22]) /\ p \in Int /\ op \in {"MUL", "MULS", "MULSU"}
          /\ I = RR(op, 20, 22)
    BY <1>5, <2>1, Products, SignedProducts DEF MulsAt, Quartet, Factors, LowProduct, Short
  <2>. HIDE DEF p, op
  <2>2. /\ Goes({0, 1}) /\ dm'[0] = Low(p) /\ dm'[1] = High(p)
        /\ CARRY \in sreg' <=> Top15(p)
    BY <2>1, <2>0, MulRuns
  <2>3. /\ pc' = 6 /\ Running' /\ UNCHANGED <<sp, fn, arg, ul, uh, vl, vh>>
        /\ dm'[20] = dm[20] /\ dm'[21] = dm[21] /\ dm'[22] = dm[22] /\ dm'[23] = dm[23]
        /\ dm'[2] = dm[2] /\ dm'[18] = dm[18] /\ dm'[19] = dm[19]
    BY <1>5, <2>2, SameArguments DEF Goes
  <2>4. Quartet /\ dm[2] = 0 /\ dm[18] = Low(Upper) /\ dm[19] = High(Upper)
    BY <1>5 DEF MulsAt, Quartet
  <2>5. UNCHANGED <<LowProduct, Upper, Straight, SCross1, SCross2>>
    BY <2>3, SameProducts
  <2>6. dm'[0] = Low(LowProduct)' /\ dm'[1] = High(LowProduct)'
    BY <2>2, <2>5 DEF p
  <2>. QED
    BY <2>2, <2>3, <2>4, <2>5, <2>6 DEF MulsAt, Quartet
<1>6. CASE pc = 6
  <2>1. I = RR("MOVW", 16, 0)
    BY <1>6, MulsProgram DEF I, Running
  <2>2. Goes({16, 16 + 1}) /\ dm'[16] = dm[0] /\ dm'[16 + 1] = dm[0 + 1]
    BY <2>1, MovwRuns
  <2>3. /\ pc' = 7 /\ Running' /\ UNCHANGED <<sp, fn, arg, ul, uh, vl, vh>>
        /\ dm'[20] = dm[20] /\ dm'[21] = dm[21] /\ dm'[22] = dm[22] /\ dm'[23] = dm[23]
        /\ dm'[2] = dm[2] /\ dm'[18] = dm[18] /\ dm'[19] = dm[19]
    BY <1>6, <2>2, SameArguments DEF Goes
  <2>4. /\ Quartet /\ dm[2] = 0 /\ dm[18] = Low(Upper) /\ dm[19] = High(Upper)
        /\ dm[0] = Low(LowProduct) /\ dm[1] = High(LowProduct)
    BY <1>6 DEF MulsAt, Quartet
  <2>5. UNCHANGED <<LowProduct, Upper, Straight, SCross1, SCross2>>
    BY <2>3, SameProducts
  <2>. QED
    BY <2>2, <2>3, <2>4, <2>5 DEF MulsAt, Quartet
<1>7. CASE pc = 7
  <2>1. I = RR("MULSU", 21, 22)
    BY <1>7, MulsProgram DEF I, Running
  <2>2. /\ Quartet /\ dm[2] = 0 /\ dm[18] = Low(Upper) /\ dm[19] = High(Upper)
        /\ dm[16] = Low(LowProduct) /\ dm[17] = High(LowProduct)
    BY <1>7 DEF MulsAt
  <2>0. PICK p : p = SCross1
    OBVIOUS
  <2>. DEFINE op == "MULSU"
  <2>3. /\ p = Factors(op, dm[21], dm[22]) /\ p \in Int /\ op \in {"MUL", "MULS", "MULSU"}
        /\ I = RR(op, 21, 22) /\ Short(p)
    BY <2>0, <2>1, <2>2, SignedProducts DEF Quartet, Factors, SCross1, Short
  <2>. HIDE DEF op
  <2>4. /\ Goes({0, 1}) /\ dm'[0] = Low(p) /\ dm'[1] = High(p)
        /\ CARRY \in sreg' <=> Top15(p)
    BY <2>3, MulRuns
  <2>5. Top15(p) <=> p < 0
    BY <2>3, SignedWord
  <2>6. /\ pc' = 8 /\ Running' /\ UNCHANGED <<sp, fn, arg, ul, uh, vl, vh>>
        /\ dm'[2] = dm[2] /\ dm'[16] = dm[16] /\ dm'[17] = dm[17] /\ dm'[18] = dm[18]
        /\ dm'[19] = dm[19]
        /\ dm'[20] = dm[20] /\ dm'[21] = dm[21] /\ dm'[22] = dm[22] /\ dm'[23] = dm[23]
    BY <1>7, <2>4, SameArguments DEF Goes
  <2>7. UNCHANGED <<LowProduct, Upper, Straight, SCross1, SCross2>>
    BY <2>6, SameProducts
  <2>8. Quad' = Quad
    BY <2>6 DEF Quad
  <2>9. PICK a \in Int : Same32(Quad, a) /\ a = Straight
    <3>1. Quad = Low(LowProduct) + 256 * High(LowProduct) + 65536 * (Low(Upper) + 256 * High(Upper))
      BY <2>2 DEF Quad
    <3>2. Same32(Quad, LowProduct + 65536 * Upper)
      BY <3>1, Products, SignedProducts, SideBySide
    <3>. QED
      BY <3>2, SignedProducts DEF Straight
  <2>. DEFINE b == a + 256 * p
  <2>10. Sum0(a, p)'
    BY <2>4, <2>5, <2>8, <2>9 DEF Sum0, Sets
  <2>11. p \in Int /\ b \in Int /\ b = a + 256 * p
    BY <2>3, <2>9
  <2>. HIDE DEF b
  <2>13. CrossOne(a, p, b)'
    BY <2>0, <2>7, <2>9, <2>11 DEF CrossOne
  <2>14. Adding(8, a, p, b)'
    BY <2>6, <2>10 DEF Adding
  <2>12. (\E x, y, z \in Int : CrossOne(x, y, z) /\ Adding(8, x, y, z))'
    BY <2>9, <2>11, <2>13, <2>14
  <2>. QED
    BY <2>2, <2>6, <2>12 DEF MulsAt, Quartet
<1>12. CASE pc = 12
  <2>1. I = RR("MULSU", 23, 20)
    BY <1>12, MulsProgram DEF I, Running
  <2>2. /\ Quartet /\ dm[2] = 0
        /\ \E a, n, b \in Int : CrossOne(a, n, b) /\ Sum4(b)
    BY <1>12 DEF MulsAt, Adding
  <2>0. PICK p : p = SCross2
    OBVIOUS
  <2>. DEFINE op == "MULSU"
  <2>3. /\ p = Factors(op, dm[23], dm[20]) /\ p \in Int /\ op \in {"MUL", "MULS", "MULSU"}
        /\ I = RR(op, 23, 20) /\ Short(p)
    BY <2>0, <2>1, <2>2, SignedProducts DEF Quartet, Factors, SCross2, Short
  <2>. HIDE DEF op
  <2>4. /\ Goes({0, 1}) /\ dm'[0] = Low(p) /\ dm'[1] = High(p)
        /\ CARRY \in sreg' <=> Top15(p)
    BY <2>3, MulRuns
  <2>5. Top15(p) <=> p < 0
    BY <2>3, SignedWord
  <2>6. /\ pc' = 13 /\ Running' /\ UNCHANGED <<sp, fn, arg, ul, uh, vl, vh>>
        /\ dm'[2] = dm[2] /\ dm'[16] = dm[16] /\ dm'[17] = dm[17] /\ dm'[18] = dm[18]
        /\ dm'[19] = dm[19]
    BY <1>12, <2>4, SameArguments DEF Goes
  <2>7. UNCHANGED <<LowProduct, Upper, Straight, SCross1, SCross2>>
    BY <2>6, SameProducts
  <2>8. Quad' = Quad
    BY <2>6 DEF Quad
  <2>9. PICK a \in Int : Same32(Quad, a) /\ a = Straight + 256 * SCross1
    BY <2>2 DEF CrossOne, Sum4
  <2>. DEFINE b == a + 256 * p
  <2>10. Sum0(a, p)'
    BY <2>4, <2>5, <2>8, <2>9 DEF Sum0, Sets
  <2>11. p \in Int /\ b \in Int /\ b = a + 256 * p
    BY <2>3, <2>9
  <2>. HIDE DEF b
  <2>13. CrossTwo(a, p, b)'
    BY <2>0, <2>7, <2>9, <2>11 DEF CrossTwo
  <2>14. Adding(13, a, p, b)'
    BY <2>6, <2>10 DEF Adding
  <2>12. (\E x, y, z \in Int : CrossTwo(x, y, z) /\ Adding(13, x, y, z))'
    BY <2>9, <2>11, <2>13, <2>14
  <2>. QED
    BY <2>2, <2>6, <2>12 DEF MulsAt
<1>8. CASE pc \in 8..11
  <2>1. PICK a, n, b \in Int : CrossOne(a, n, b) /\ Adding(8, a, n, b)
    BY <1>8 DEF MulsAt
  <2>2. Quartet /\ dm[2] = 0
    BY <1>8 DEF MulsAt
  <2>3. Short(n) /\ b = a + 256 * n
    BY <2>1, SignedProducts DEF CrossOne
  <2>. DEFINE p == 8
  <2>4. /\ pm[p] = RR("SBC", 19, 2) /\ pm[p + 1] = RR("ADD", 17, 0)
        /\ pm[p + 2] = RR("ADC", 18, 1) /\ pm[p + 3] = RR("ADC", 19, 2)
        /\ p \in Int /\ pc \in p..(p + 3) /\ Adding(p, a, n, b)
    BY <1>8, <2>1, MulsProgram DEF Running
  <2>. HIDE DEF p
  <2>5. Goes({17, 18, 19}) /\ Adding(p, a, n, b)'
    BY <2>1, <2>2, <2>3, <2>4, AddingRuns
  <2>6. /\ pc' = pc + 1 /\ Running' /\ UNCHANGED <<sp, fn, arg, ul, uh, vl, vh>>
        /\ dm'[2] = dm[2]
        /\ dm'[20] = dm[20] /\ dm'[21] = dm[21] /\ dm'[22] = dm[22] /\ dm'[23] = dm[23]
    BY <2>5, SameArguments DEF Goes
  <2>7. CrossOne(a, n, b)'
    BY <2>1, <2>6, SameProducts DEF CrossOne
  <2>8. Adding(8, a, n, b)'
    BY <2>5 DEF p
  <2>9. pc' \in 9..12
    BY <1>8, <2>6
  <2>. QED
    BY <2>1, <2>2, <2>6, <2>7, <2>8, <2>9 DEF MulsAt, Quartet
<1>13. CASE pc \in 13..16
  <2>1. PICK a, n, b \in Int : CrossTwo(a, n, b) /\ Adding(13, a, n, b)
    BY <1>13 DEF MulsAt
  <2>2. dm[2] = 0
    BY <1>13 DEF MulsAt
  <2>3. Short(n) /\ b = a + 256 * n
    BY <2>1, SignedProducts DEF CrossTwo
  <2>. DEFINE p == 13
  <2>4. /\ pm[p] = RR("SBC", 19, 2) /\ pm[p + 1] = RR("ADD", 17, 0)
        /\ pm[p + 2] = RR("ADC", 18, 1) /\ pm[p + 3] = RR("ADC", 19, 2)
        /\ p \in Int /\ pc \in p..(p + 3) /\ Adding(p, a, n, b)
    BY <1>13, <2>1, MulsProgram DEF Running
  <2>. HIDE DEF p
  <2>5. Goes({17, 18, 19}) /\ Adding(p, a, n, b)'
    BY <2>1, <2>2, <2>3, <2>4, AddingRuns
  <2>6. /\ pc' = pc + 1 /\ Running' /\ UNCHANGED <<sp, fn, arg, ul, uh, vl, vh>>
        /\ dm'[2] = dm[2]
    BY <2>5, SameArguments DEF Goes
  <2>7. CrossTwo(a, n, b)'
    BY <2>1, <2>6, SameProducts DEF CrossTwo
  <2>8. Adding(13, a, n, b)'
    BY <2>5 DEF p
  <2>9. pc' \in 14..17
    BY <1>13, <2>6
  <2>. QED
    BY <2>1, <2>2, <2>6, <2>7, <2>8, <2>9 DEF MulsAt
<1>17. CASE pc = 17
  <2>1. I = RR("EOR", 1, 1)
    BY <1>17, MulsProgram DEF I, Running
  <2>2. Goes({1})
    BY <2>1, ClearRuns
  <2>3. /\ pc' = 18 /\ Running' /\ UNCHANGED <<sp, fn, arg>>
        /\ dm'[16] = dm[16] /\ dm'[17] = dm[17] /\ dm'[18] = dm[18] /\ dm'[19] = dm[19]
    BY <1>17, <2>2 DEF Goes
  <2>4. PICK a, n, b \in Int : CrossTwo(a, n, b) /\ Sum4(b)
    BY <1>17 DEF MulsAt, Adding
  <2>5. PICK q \in Int : q = Signed16(u) * Signed16(v)
    BY SignedProduct
  <2>6. b = q /\ Within(q)
    BY <2>4, <2>5, SignedProduct DEF CrossTwo
  <2>. DEFINE w == Word(16)
              h == Word(18)
  <2>7. /\ w \in Int /\ 0 <= w /\ w < 65536 /\ h \in Int /\ 0 <= h /\ h < 65536
        /\ Quad = w + 65536 * h
    <3>1. w \in Int /\ 0 <= w /\ w <= 65535 /\ h \in Int /\ 0 <= h /\ h <= 65535
      BY WordOf
    <3>. QED
      BY <3>1 DEF Quad, Word
  <2>. HIDE DEF w, h
  <2>8. Same32(w + 65536 * h, q)
    BY <2>4, <2>6, <2>7 DEF Sum4
  <2>9. w = q % 65536 /\ Signed16(h) = q \div 65536
    BY <2>6, <2>7, <2>8, SignedHalves
  <2>10. MulsExact
    BY <2>5, <2>9 DEF MulsExact, w, h
  <2>11. MulsExact'
    BY <2>3, <2>10 DEF MulsExact, Word, u, v
  <2>. QED
    BY <2>3, <2>11 DEF MulsAt
<1>18. CASE pc = 18
  <2>1. I = Ret
    BY <1>18, MulsProgram DEF I, Running
  <2>2. Returns /\ UNCHANGED <<dm, sreg, pm, fn, arg>>
    BY <2>1, RetRuns
  <2>3. MulsExact
    BY <1>18 DEF MulsAt
  <2>4. MulsExact'
    BY <2>2, <2>3 DEF MulsExact, Word, u, v
  <2>. QED
    BY <2>2, <2>4
<1>. QED
  BY <1>1, <1>2, <1>3, <1>4, <1>5, <1>6, <1>7, <1>8, <1>12, <1>13, <1>17, <1>18 DEF MulsAt

-----------------------------------------------------------------------------
(* The invariant. *)

\* Inside a routine, the assertion that belongs to its next instruction.
Asserted ==
  /\ fn \notin {"isr", "calls", "skip"} => Level
  /\ fn = "add" => AddAt
  /\ fn = "sub" => SubAt
  /\ fn = "subi" => SubiAt
  /\ fn = "neg" => NegAt
  /\ fn = "adiw" => AdiwAt
  /\ fn = "sbiw" => SbiwAt
  /\ fn = "lsl" => LslAt
  /\ fn = "lsr" => LsrAt
  /\ fn = "asr" => AsrAt
  /\ fn = "rotate" => RotateAt
  /\ fn = "cmp" => CmpAt
  /\ fn = "cpi" => CpiAt
  /\ fn = "logic" => LogicAt
  /\ fn = "bits" => BitsAt
  /\ fn = "mul" => MulAt
  /\ fn = "muls" => MulsAt
  /\ fn = "fmul" => FmulAt
  /\ fn = "copy" => CopyAt
  /\ fn = "modify" => ModifyAt
  /\ fn = "lpm" => LpmAt
  /\ fn = "io" => IoAt
  /\ fn = "poll" => PollAt
  /\ fn = "isr" => IsrAt
  /\ fn = "calls" => CallsAt
  /\ fn = "skip" => SkipAt
\* Back at the caller, what the routine promises.
Promised ==
  /\ fn = "add" => AddExact
  /\ fn = "sub" => SubExact
  /\ fn = "subi" => SubiExact
  /\ fn = "neg" => NegExact
  /\ fn = "adiw" => AdiwExact
  /\ fn = "sbiw" => SbiwExact
  /\ fn = "lsl" => LslExact
  /\ fn = "lsr" => LsrExact
  /\ fn = "asr" => AsrExact
  /\ fn = "rotate" => RotateExact
  /\ fn = "cmp" => CmpExact
  /\ fn = "cpi" => CpiExact
  /\ fn = "logic" => dm[19] = 1
  /\ fn = "bits" => BitsExact
  /\ fn = "mul" => MulExact
  /\ fn = "muls" => MulsExact
  /\ fn = "copy" => CopyExact
  /\ fn = "modify" => ModifyExact
  /\ fn = "lpm" => LpmExact
  /\ fn = "io" => IoExact
  /\ fn = "isr" => IsrExact
  /\ fn = "calls" => res = u
  /\ fn = "skip" => SkipExact
\* The caller waits with its stack as it was, or the routine runs.
FirmwareInv ==
  /\ Loaded
  /\ \/ pc = 0 /\ sp = StackTop /\ Promised
     \/ Running /\ Asserted

\* One step of a routine: to the assertion of its next instruction, or home with the promise.
LEMMA RoutineStep ==
  ASSUME Running, Asserted, Next
  PROVE  \/ Running' /\ Asserted'
         \/ Loaded' /\ pc' = 0 /\ sp' = StackTop /\ Promised'
<1>0. fn \in RoutineNames
  BY FirmwareSetup, Zenon DEF FirmwareSetup, Running, Loaded
<1>100. ASSUME Returns, UNCHANGED <<pm, fn, arg>>
        PROVE  Loaded' /\ pc' = 0 /\ sp' = StackTop
  BY <1>100 DEF Returns, Running, Loaded
<1>101. ASSUME Level, UNCHANGED sp
        PROVE  Level'
  BY <1>101 DEF Level, Floor, PcBytes
<1>1. CASE fn = "add"
  <2>1. Level /\ AddAt
    BY <1>1 DEF Asserted
  <2>2. fn' = "add" /\ ((Running' /\ Level' /\ AddAt')
          \/ (Returns /\ UNCHANGED <<pm, fn, arg>> /\ AddExact'))
    BY <1>1, <1>101, <2>1, AddHolds
  <2>. QED
    BY <1>100, <2>2 DEF Asserted, Promised
<1>2. CASE fn = "sub"
  <2>1. Level /\ SubAt
    BY <1>2 DEF Asserted
  <2>2. fn' = "sub" /\ ((Running' /\ Level' /\ SubAt')
          \/ (Returns /\ UNCHANGED <<pm, fn, arg>> /\ SubExact'))
    BY <1>2, <1>101, <2>1, SubHolds
  <2>. QED
    BY <1>100, <2>2 DEF Asserted, Promised
<1>3. CASE fn = "subi"
  <2>1. Level /\ SubiAt
    BY <1>3 DEF Asserted
  <2>2. fn' = "subi" /\ ((Running' /\ Level' /\ SubiAt')
          \/ (Returns /\ UNCHANGED <<pm, fn, arg>> /\ SubiExact'))
    BY <1>3, <1>101, <2>1, SubiHolds
  <2>. QED
    BY <1>100, <2>2 DEF Asserted, Promised
<1>4. CASE fn = "neg"
  <2>1. Level /\ NegAt
    BY <1>4 DEF Asserted
  <2>2. fn' = "neg" /\ ((Running' /\ Level' /\ NegAt')
          \/ (Returns /\ UNCHANGED <<pm, fn, arg>> /\ NegExact'))
    BY <1>4, <1>101, <2>1, NegHolds
  <2>. QED
    BY <1>100, <2>2 DEF Asserted, Promised
<1>5. CASE fn = "adiw"
  <2>1. Level /\ AdiwAt
    BY <1>5 DEF Asserted
  <2>2. fn' = "adiw" /\ ((Running' /\ Level' /\ AdiwAt')
          \/ (Returns /\ UNCHANGED <<pm, fn, arg>> /\ AdiwExact'))
    BY <1>5, <1>101, <2>1, AdiwHolds
  <2>. QED
    BY <1>100, <2>2 DEF Asserted, Promised
<1>6. CASE fn = "sbiw"
  <2>1. Level /\ SbiwAt
    BY <1>6 DEF Asserted
  <2>2. fn' = "sbiw" /\ ((Running' /\ Level' /\ SbiwAt')
          \/ (Returns /\ UNCHANGED <<pm, fn, arg>> /\ SbiwExact'))
    BY <1>6, <1>101, <2>1, SbiwHolds
  <2>. QED
    BY <1>100, <2>2 DEF Asserted, Promised
<1>7. CASE fn = "lsl"
  <2>1. Level /\ LslAt
    BY <1>7 DEF Asserted
  <2>2. fn' = "lsl" /\ ((Running' /\ Level' /\ LslAt')
          \/ (Returns /\ UNCHANGED <<pm, fn, arg>> /\ LslExact'))
    BY <1>7, <1>101, <2>1, LslHolds
  <2>. QED
    BY <1>100, <2>2 DEF Asserted, Promised
<1>8. CASE fn = "lsr"
  <2>1. Level /\ LsrAt
    BY <1>8 DEF Asserted
  <2>2. fn' = "lsr" /\ ((Running' /\ Level' /\ LsrAt')
          \/ (Returns /\ UNCHANGED <<pm, fn, arg>> /\ LsrExact'))
    BY <1>8, <1>101, <2>1, LsrHolds
  <2>. QED
    BY <1>100, <2>2 DEF Asserted, Promised
<1>9. CASE fn = "asr"
  <2>1. Level /\ AsrAt
    BY <1>9 DEF Asserted
  <2>2. fn' = "asr" /\ ((Running' /\ Level' /\ AsrAt')
          \/ (Returns /\ UNCHANGED <<pm, fn, arg>> /\ AsrExact'))
    BY <1>9, <1>101, <2>1, AsrHolds
  <2>. QED
    BY <1>100, <2>2 DEF Asserted, Promised
<1>10. CASE fn = "rotate"
  <2>1. Level /\ RotateAt
    BY <1>10 DEF Asserted
  <2>2. fn' = "rotate" /\ ((Running' /\ Level' /\ RotateAt')
          \/ (Returns /\ UNCHANGED <<pm, fn, arg>> /\ RotateExact'))
    BY <1>10, <1>101, <2>1, RotateHolds
  <2>. QED
    BY <1>100, <2>2 DEF Asserted, Promised
<1>11. CASE fn = "cmp"
  <2>1. Level /\ CmpAt
    BY <1>11 DEF Asserted
  <2>2. fn' = "cmp" /\ ((Running' /\ Level' /\ CmpAt')
          \/ (Returns /\ UNCHANGED <<pm, fn, arg>> /\ CmpExact'))
    BY <1>11, <1>101, <2>1, CmpHolds
  <2>. QED
    BY <1>100, <2>2 DEF Asserted, Promised
<1>12. CASE fn = "cpi"
  <2>1. Level /\ CpiAt
    BY <1>12 DEF Asserted
  <2>2. fn' = "cpi" /\ ((Running' /\ Level' /\ CpiAt')
          \/ (Returns /\ UNCHANGED <<pm, fn, arg>> /\ CpiExact'))
    BY <1>12, <1>101, <2>1, CpiHolds
  <2>. QED
    BY <1>100, <2>2 DEF Asserted, Promised
<1>13. CASE fn = "logic"
  <2>1. Level /\ LogicAt
    BY <1>13 DEF Asserted
  <2>2. fn' = "logic" /\ ((Running' /\ Level' /\ LogicAt')
          \/ (Returns /\ UNCHANGED <<pm, fn, arg>> /\ (dm[19] = 1)'))
    BY <1>13, <1>101, <2>1, LogicHolds
  <2>. QED
    BY <1>100, <2>2 DEF Asserted, Promised
<1>14. CASE fn = "bits"
  <2>1. Level /\ BitsAt
    BY <1>14 DEF Asserted
  <2>2. fn' = "bits" /\ ((Running' /\ Level' /\ BitsAt')
          \/ (Returns /\ UNCHANGED <<pm, fn, arg>> /\ BitsExact'))
    BY <1>14, <1>101, <2>1, BitsHolds
  <2>. QED
    BY <1>100, <2>2 DEF Asserted, Promised
<1>15. CASE fn = "mul"
  <2>1. Level /\ MulAt
    BY <1>15 DEF Asserted
  <2>2. fn' = "mul" /\ ((Running' /\ Level' /\ MulAt')
          \/ (Returns /\ UNCHANGED <<pm, fn, arg>> /\ MulExact'))
    BY <1>15, <1>101, <2>1, MulHolds
  <2>. QED
    BY <1>100, <2>2 DEF Asserted, Promised
<1>16. CASE fn = "muls"
  <2>1. Level /\ MulsAt
    BY <1>16 DEF Asserted
  <2>2. fn' = "muls" /\ ((Running' /\ Level' /\ MulsAt')
          \/ (Returns /\ UNCHANGED <<pm, fn, arg>> /\ MulsExact'))
    BY <1>16, <1>101, <2>1, MulsHolds
  <2>. QED
    BY <1>100, <2>2 DEF Asserted, Promised
<1>17. CASE fn = "fmul"
  <2>1. Level /\ FmulAt
    BY <1>17 DEF Asserted
  <2>2. fn' = "fmul" /\ ((Running' /\ Level' /\ FmulAt') \/ (Returns /\ UNCHANGED <<pm, fn, arg>>))
    BY <1>17, <1>101, <2>1, FmulHolds
  <2>. QED
    BY <1>100, <2>2 DEF Asserted, Promised
<1>18. CASE fn = "copy"
  <2>1. Level /\ CopyAt
    BY <1>18 DEF Asserted
  <2>2. fn' = "copy" /\ ((Running' /\ Level' /\ CopyAt')
          \/ (Returns /\ UNCHANGED <<pm, fn, arg>> /\ CopyExact'))
    BY <1>18, <1>101, <2>1, CopyHolds
  <2>. QED
    BY <1>100, <2>2 DEF Asserted, Promised
<1>19. CASE fn = "modify"
  <2>1. Level /\ ModifyAt
    BY <1>19 DEF Asserted
  <2>2. fn' = "modify" /\ ((Running' /\ Level' /\ ModifyAt')
          \/ (Returns /\ UNCHANGED <<pm, fn, arg>> /\ ModifyExact'))
    BY <1>19, <1>101, <2>1, ModifyHolds
  <2>. QED
    BY <1>100, <2>2 DEF Asserted, Promised
<1>20. CASE fn = "lpm"
  <2>1. Level /\ LpmAt
    BY <1>20 DEF Asserted
  <2>2. fn' = "lpm" /\ ((Running' /\ Level' /\ LpmAt')
          \/ (Returns /\ UNCHANGED <<pm, fn, arg>> /\ LpmExact'))
    BY <1>20, <1>101, <2>1, LpmHolds
  <2>. QED
    BY <1>100, <2>2 DEF Asserted, Promised
<1>21. CASE fn = "io"
  <2>1. Level /\ IoAt
    BY <1>21 DEF Asserted
  <2>2. fn' = "io" /\ ((Running' /\ Level' /\ IoAt')
          \/ (Returns /\ UNCHANGED <<pm, fn, arg>> /\ IoExact'))
    BY <1>21, <1>101, <2>1, IoHolds
  <2>. QED
    BY <1>100, <2>2 DEF Asserted, Promised
<1>22. CASE fn = "poll"
  <2>1. Level /\ PollAt
    BY <1>22 DEF Asserted
  <2>2. fn' = "poll" /\ ((Running' /\ Level' /\ PollAt') \/ (Returns /\ UNCHANGED <<pm, fn, arg>>))
    BY <1>22, <1>101, <2>1, PollHolds
  <2>. QED
    BY <1>100, <2>2 DEF Asserted, Promised
<1>23. CASE fn = "isr"
  <2>1. IsrAt
    BY <1>23 DEF Asserted
  <2>2. fn' = "isr" /\ ((Running' /\ IsrAt') \/ (Returns /\ UNCHANGED <<pm, fn, arg>> /\ IsrExact'))
    BY <1>23, <1>101, <2>1, IsrHolds
  <2>. QED
    BY <1>100, <2>2 DEF Asserted, Promised
<1>24. CASE fn = "calls"
  <2>1. CallsAt
    BY <1>24 DEF Asserted
  <2>2. fn' = "calls" /\ ((Running' /\ CallsAt')
          \/ (Returns /\ UNCHANGED <<pm, fn, arg>> /\ (res = u)'))
    BY <1>24, <1>101, <2>1, CallsHolds
  <2>. QED
    BY <1>100, <2>2 DEF Asserted, Promised
<1>25. CASE fn = "skip"
  <2>1. SkipAt
    BY <1>25 DEF Asserted
  <2>2. fn' = "skip" /\ ((Running' /\ SkipAt')
          \/ (Returns /\ UNCHANGED <<pm, fn, arg>> /\ SkipExact'))
    BY <1>25, <1>101, <2>1, SkipHolds
  <2>. QED
    BY <1>100, <2>2 DEF Asserted, Promised
<1>. QED
  BY <1>0, <1>1, <1>2, <1>3, <1>4, <1>5, <1>6, <1>7, <1>8, <1>9, <1>10, <1>11, <1>12, <1>13, <1>14,
     <1>15, <1>16, <1>17, <1>18, <1>19, <1>20, <1>21, <1>22, <1>23, <1>24, <1>25 DEF RoutineNames

\* The caller waits in a loop of one instruction.
LEMMA CallerWaits ==
  ASSUME Loaded
  PROVE  pm[0] = RI("RJMP", 0, -1)
<1>0. fn \in RoutineNames
  BY FirmwareSetup, Zenon DEF FirmwareSetup, Loaded
<1>. QED
  BY <1>0, AddProgram, SubProgram, SubiProgram, NegProgram, AdiwProgram, SbiwProgram, LslProgram,
     LsrProgram, AsrProgram, RotateProgram, CmpProgram, CpiProgram, LogicProgram, BitsProgram,
     MulProgram, MulsProgram, FmulProgram, CopyProgram, ModifyProgram, LpmProgram, IoProgram,
     PollProgram, IsrProgram, CallsProgram, SkipProgram DEF RoutineNames

\* The jump to itself changes nothing.
LEMMA HomeStep ==
  ASSUME Loaded, pc = 0, Next
  PROVE  UNCHANGED vars
<1>1. pm[0] = RI("RJMP", 0, -1)
  BY CallerWaits
<1>2. I.op = "RJMP" /\ I.k = -1
  BY <1>1 DEF I, RI, A
<1>3. ExecJump
  BY <1>2, Dispatch
<1>4. UNCHANGED <<dm, sreg, sp, pm, fn, arg>> /\ pc' = 0 + (-1) + 1
  BY <1>2, <1>3 DEF ExecJump, NoResult, Keeps
<1>. QED
  BY <1>4 DEF vars

\* The address 0 pushed on the stack leaves the registers and the I/O registers.
LEMMA StackOfCaller ==
  ASSUME NEW m \in [Locs -> Byte], NEW p, p = PushPc(m, StackTop, Home)
  PROVE  /\ p \in [Locs -> Byte]
         /\ \A i \in 1..PcBytes : p[Floor + i] = 0
         /\ \A l \in Locs : l < 248 => p[l] = m[l]
<1>. DEFINE S == (StackTop - PcBytes + 1)..StackTop
<1>1. \A l \in S : (Home \div 256^(StackTop - l)) % 256 = 0
  <2>1. \A l \in S : StackTop - l \in 0..2
    BY Places DEF Floor
  <2>2. Home = 0 /\ 0 \in Byte
    BY FirmwareSetup DEF FirmwareSetup, Byte
  <2>. DEFINE e(i) == 256^i
  <2>5. \A a \in Byte : \A i \in 0..2 : (a \div e(i)) % 256 = IF i = 0 THEN a ELSE 0
    BY SmallAddress, Zenon
  <2>. HIDE DEF e
  <2>3. \A i \in 0..2 : (0 \div e(i)) % 256 = 0
    BY <2>2, <2>5
  <2>4. \A l \in S : (Home \div e(StackTop - l)) % 256 = 0
    BY <2>1, <2>2, <2>3
  <2>. QED
    BY <2>4 DEF e
<1>2. p = [l \in Locs |-> IF l \in S THEN (Home \div 256^(StackTop - l)) % 256 ELSE m[l]]
  BY DEF PushPc
<1>3. \A i \in 1..PcBytes : Floor + i \in S /\ Floor + i \in Locs
  BY Places DEF Floor
<1>4. \A l \in S : ~(l < 248)
  BY Places DEF Floor
<1>5. p = [l \in Locs |-> IF l \in S THEN 0 ELSE m[l]]
  BY <1>1, <1>2
<1>6. 0 \in Byte
  BY DEF Byte
<1>. HIDE DEF S
<1>. QED
  BY <1>3, <1>4, <1>5, <1>6

\* A routine that is called runs, with its arguments in registers.
LEMMA CallRuns ==
  ASSUME Init
  PROVE  /\ Running /\ Level /\ Given /\ pc = 1 /\ sreg = arg[3]
         /\ dm[0] = 0 /\ dm[1] = 0 /\ dm[Ctrl] = 0 /\ dm[Port] = 0
<1>1. /\ Programs = FirmwarePrograms /\ Home = 0 /\ Entry = 1
      /\ Args \subseteq Unsigned16 \X Unsigned16 \X SUBSET (0..7)
  BY FirmwareSetup, Zenon DEF FirmwareSetup
<1>2. Loaded /\ pc = 1 /\ sreg = arg[3]
  BY <1>1, Zenon DEF Init, Loaded, FirmwarePrograms
<1>3. sreg \subseteq 0..7
  <2>1. arg \in Unsigned16 \X Unsigned16 \X SUBSET (0..7)
    BY <1>1, Zenon DEF Init
  <2>. QED
    BY <2>1 DEF Init
<1>. DEFINE m == [l \in Locs |-> CASE l = 24 -> ul [] l = 25 -> uh [] l = 22 -> vl [] l = 23 -> vh
                                  [] OTHER -> 0]
<1>4. dm = PushPc(m, StackTop, Home)
  BY DEF Init, Called, ul, uh, vl, vh, u, v
<1>5. m \in [Locs -> Byte]
  <2>1. ul \in Byte /\ uh \in Byte /\ vl \in Byte /\ vh \in Byte /\ 0 \in Byte
    BY <1>2, Words16 DEF Byte
  <2>. QED
    BY <2>1
<1>6. 0 \in Locs /\ 84 \in Locs /\ 56 \in Locs /\ 1 \in Locs /\ 22 \in Locs /\ 23 \in Locs /\ 24 \in Locs
        /\ 25 \in Locs
  BY Registers, MoreRegisters
<1>7. m[24] = ul /\ m[25] = uh /\ m[22] = vl /\ m[23] = vh /\ m[1] = 0 /\ m[0] = 0 /\ m[84] = 0
      /\ m[56] = 0
  BY <1>6
<1>. HIDE DEF m
<1>8. /\ dm \in [Locs -> Byte] /\ \A l \in Locs : l < 248 => dm[l] = m[l]
      /\ \A i \in 1..PcBytes : dm[Floor + i] = 0
  BY <1>4, <1>5, StackOfCaller
<1>9. Given /\ dm[1] = 0 /\ dm[0] = 0 /\ dm[84] = 0 /\ dm[56] = 0
  BY <1>6, <1>7, <1>8 DEF Given
<1>10. Running /\ Level
  BY <1>2, <1>3, <1>8, Places DEF Init, Running, Regs, Level, Floor
<1>. QED
  BY <1>2, <1>9, <1>10 DEF Ctrl, Port

\* The first assertion holds when the routine is called.
LEMMA InitAsserted ==
  ASSUME Init
  PROVE  FirmwareInv
<1>1. /\ Running /\ Level /\ Given /\ pc = 1 /\ sreg = arg[3]
      /\ dm[0] = 0 /\ dm[1] = 0 /\ dm[Ctrl] = 0 /\ dm[Port] = 0
  BY CallRuns
<1>2. AddAt
  BY <1>1 DEF AddAt
<1>3. SubAt
  BY <1>1 DEF SubAt
<1>4. SubiAt
  BY <1>1 DEF SubiAt
<1>5. NegAt
  BY <1>1 DEF NegAt
<1>6. AdiwAt
  BY <1>1 DEF AdiwAt
<1>7. SbiwAt
  BY <1>1 DEF SbiwAt
<1>8. LslAt
  BY <1>1 DEF LslAt
<1>9. LsrAt
  BY <1>1 DEF LsrAt
<1>10. AsrAt
  BY <1>1 DEF AsrAt
<1>11. RotateAt
  BY <1>1 DEF RotateAt
<1>12. CmpAt
  BY <1>1 DEF CmpAt
<1>13. CpiAt
  BY <1>1 DEF CpiAt
<1>14. LogicAt
  BY <1>1 DEF LogicAt
<1>15. BitsAt
  BY <1>1 DEF BitsAt
<1>16. MulAt
  BY <1>1 DEF MulAt, Factored, Given
<1>17. MulsAt
  BY <1>1 DEF MulsAt
<1>18. FmulAt
  BY <1>1 DEF FmulAt
<1>19. CopyAt
  BY <1>1 DEF CopyAt, Stored, Holds
<1>20. ModifyAt
  BY <1>1 DEF ModifyAt
<1>21. LpmAt
  BY <1>1 DEF LpmAt
<1>22. IoAt
  BY <1>1 DEF IoAt
<1>23. PollAt
  BY <1>1 DEF PollAt
<1>24. IsrAt
  BY <1>1 DEF IsrAt, KeptReg, Level, Given
<1>25. CallsAt
  BY <1>1 DEF CallsAt
<1>26. SkipAt
  BY <1>1 DEF SkipAt, PortClear, Port
<1>27. Asserted
  BY <1>1, <1>2, <1>3, <1>4, <1>5, <1>6, <1>7, <1>8, <1>9, <1>10, <1>11, <1>12, <1>13, <1>14, <1>15,
     <1>16, <1>17, <1>18, <1>19, <1>20, <1>21, <1>22, <1>23, <1>24, <1>25, <1>26 DEF Asserted
<1>. QED
  BY <1>1, <1>27 DEF FirmwareInv, Running

\* The variables stay, and what is said of them.
LEMMA SameState ==
  ASSUME UNCHANGED vars
  PROVE  /\ UNCHANGED <<pm, dm, pc, sp, sreg, fn, arg>> /\ UNCHANGED <<u, v, ul, uh, vl, vh>>
         /\ UNCHANGED <<res, Carry, Floor>> /\ \A d : Word(d)' = Word(d)
         /\ (Loaded => Loaded') /\ (Running => Running') /\ (Given => Given') /\ (Level => Level')
         /\ \A a, s : CalledFrom(a, s) => CalledFrom(a, s)'
<1>1. /\ UNCHANGED <<pm, dm, pc, sp, sreg, fn, arg>> /\ UNCHANGED <<u, v, ul, uh, vl, vh>>
  BY SameArguments DEF vars
<1>2. UNCHANGED <<res, Carry, Floor, PcBytes>> /\ \A d : Word(d)' = Word(d)
  BY <1>1 DEF res, Word, Carry, Floor, PcBytes
<1>3. (Loaded => Loaded') /\ (Given => Given') /\ (Level => Level')
  BY <1>1, <1>2 DEF Loaded, Given, Level
<1>4. Running => Running'
  BY <1>1, <1>2, <1>3 DEF Running, Regs
<1>5. \A a, s : CalledFrom(a, s) => CalledFrom(a, s)'
  BY <1>1, <1>2 DEF CalledFrom
<1>. QED
  BY <1>1, <1>2, <1>3, <1>4, <1>5

\* A range of copied bytes, and the number that muls adds up.
LEMMA SameRange ==
  ASSUME UNCHANGED vars
  PROVE  /\ \A n : (Stored(n) => Stored(n)') /\ (Upwards(n) => Upwards(n)')
                   /\ (Downwards(n) => Downwards(n)')
         /\ \A j : (UpLoop(j) => UpLoop(j)') /\ (DownLoop(j) => DownLoop(j)')
<1>1. \A b, n, m : Holds(b, n, m) => Holds(b, n, m)'
  BY SameState, SameVal DEF Holds
<1>2. \A n : (Stored(n) => Stored(n)') /\ (Upwards(n) => Upwards(n)')
              /\ (Downwards(n) => Downwards(n)')
  BY <1>1, SameState DEF Stored, Upwards, Downwards
<1>3. \A j : Val(j)' = Val(j)
  BY SameState DEF Val
<1>4. \A j : (UpLoop(j) => UpLoop(j)') /\ (DownLoop(j) => DownLoop(j)')
  BY <1>2, <1>3, SameState DEF UpLoop, DownLoop, Sets
<1>. QED
  BY <1>2, <1>4

\* The sums of muls, with the same variables.
LEMMA SameSums ==
  ASSUME UNCHANGED vars
  PROVE  /\ UNCHANGED <<LowProduct, Upper, Straight, SCross1, SCross2, Quad>>
         /\ (Quartet => Quartet')
         /\ \A p, a, n, b : Adding(p, a, n, b) => Adding(p, a, n, b)'
         /\ \A a, n, b : (CrossOne(a, n, b) => CrossOne(a, n, b)')
                         /\ (CrossTwo(a, n, b) => CrossTwo(a, n, b)')
<1>1. UNCHANGED <<LowProduct, Upper, Straight, SCross1, SCross2, Quad>> /\ (Quartet => Quartet')
  BY SameState, SameProducts DEF Quad, Quartet
<1>2. \A a, n, b : /\ (CrossOne(a, n, b) => CrossOne(a, n, b)')
                    /\ (CrossTwo(a, n, b) => CrossTwo(a, n, b)')
  BY <1>1 DEF CrossOne, CrossTwo
<1>3. /\ \A a, n : Sum0(a, n) => Sum0(a, n)'
      /\ \A b : /\ (Sum1(b) => Sum1(b)') /\ (Sum2(b) => Sum2(b)') /\ (Sum3(b) => Sum3(b)')
                 /\ (Sum4(b) => Sum4(b)')
  BY <1>1, SameState DEF Sum0, Sum1, Sum2, Sum3, Sum4, Sets
<1>4. \A p, a, n, b : Adding(p, a, n, b) => Adding(p, a, n, b)'
  BY <1>3, SameState DEF Adding
<1>. QED
  BY <1>1, <1>2, <1>4

\* The assertions and the promises are about the variables.
LEMMA SamePromises ==
  ASSUME UNCHANGED vars
  PROVE  Promised => Promised'
<1>. USE SameState
<1>1. AddExact => AddExact'
  BY DEF AddExact, Sets
<1>2. SubExact => SubExact'
  BY DEF SubExact, Sets
<1>3. SubiExact => SubiExact'
  BY DEF SubiExact, Sets
<1>4. NegExact => NegExact'
  BY DEF NegExact, Sets
<1>5. AdiwExact => AdiwExact'
  BY DEF AdiwExact, Sets
<1>6. SbiwExact => SbiwExact'
  BY DEF SbiwExact, Sets
<1>7. LslExact => LslExact'
  BY DEF LslExact, Sets
<1>8. LsrExact => LsrExact'
  BY DEF LsrExact, Sets
<1>9. AsrExact => AsrExact'
  BY DEF AsrExact, Sets
<1>10. RotateExact => RotateExact'
  BY DEF RotateExact, Sets
<1>11. CmpExact => CmpExact'
  BY DEF CmpExact
<1>12. CpiExact => CpiExact'
  BY DEF CpiExact
<1>13. BitsExact => BitsExact'
  BY DEF BitsExact
<1>14. MulExact => MulExact'
  BY DEF MulExact
<1>15. MulsExact => MulsExact'
  BY DEF MulsExact
<1>16. CopyExact => CopyExact'
  BY DEF CopyExact
<1>17. ModifyExact => ModifyExact'
  BY DEF ModifyExact
<1>18. LpmExact => LpmExact'
  BY DEF LpmExact
<1>19. IoExact => IoExact'
  BY DEF IoExact
<1>20. IsrExact => IsrExact'
  BY DEF IsrExact
<1>21. SkipExact => SkipExact'
  BY DEF SkipExact
<1>. QED
  BY <1>1, <1>2, <1>3, <1>4, <1>5, <1>6, <1>7, <1>8, <1>9, <1>10, <1>11, <1>12, <1>13, <1>14,
     <1>15, <1>16, <1>17, <1>18, <1>19, <1>20, <1>21 DEF Promised

\* The assertions, with the same variables.
LEMMA SameAssertions ==
  ASSUME UNCHANGED vars
  PROVE  Asserted => Asserted'
<1>. USE SameState
<1>1. AddAt => AddAt'
  BY DEF AddAt, AddExact, Sets
<1>2. SubAt => SubAt'
  BY DEF SubAt, SubExact, Sets
<1>3. SubiAt => SubiAt'
  BY DEF SubiAt, SubiExact, Sets
<1>4. NegAt => NegAt'
  BY DEF NegAt, NegExact, Sets
<1>5. AdiwAt => AdiwAt'
  BY DEF AdiwAt, AdiwExact, Sets
<1>6. SbiwAt => SbiwAt'
  BY DEF SbiwAt, SbiwExact, Sets
<1>7. LslAt => LslAt'
  BY DEF LslAt, LslExact, Sets
<1>8. LsrAt => LsrAt'
  BY DEF LsrAt, LsrExact, Sets
<1>9. AsrAt => AsrAt'
  BY DEF AsrAt, AsrExact, Sets
<1>10. RotateAt => RotateAt'
  BY SameTurned DEF RotateAt, RotateExact, Sets, Turning
<1>11. CmpAt => CmpAt'
  BY SameOrder DEF CmpAt, CmpExact, Sets
<1>12. CpiAt => CpiAt'
  BY DEF CpiAt, CpiExact, Sets
<1>13. LogicAt => LogicAt'
  BY DEF LogicAt, Sets
<1>14. BitsAt => BitsAt'
  BY DEF BitsAt, BitsExact, Sets, Exchanged
<1>15. MulAt => MulAt'
  BY DEF MulAt, MulExact, Factored, LowProduct, Cross1, Cross2
<1>16. MulsAt => MulsAt'
  BY SameSums DEF MulsAt, MulsExact
<1>17. FmulAt => FmulAt'
  BY DEF FmulAt
<1>18. CopyAt => CopyAt'
  BY SameRange DEF CopyAt, CopyExact
<1>19. ModifyAt => ModifyAt'
  BY DEF ModifyAt, ModifyExact
<1>20. LpmAt => LpmAt'
  BY DEF LpmAt, LpmExact, Word
<1>21. IoAt => IoAt'
  BY DEF IoAt, IoExact
<1>22. PollAt => PollAt'
  BY DEF PollAt
<1>23. IsrAt => IsrAt'
  BY DEF IsrAt, IsrExact, Kept0, KeptReg, KeptSr
<1>24. CallsAt => CallsAt'
  BY DEF CallsAt, Saved
<1>25. SkipAt => SkipAt'
  BY SameCounts DEF SkipAt, SkipExact, PortClear, PortSet
<1>. QED
  BY <1>1, <1>2, <1>3, <1>4, <1>5, <1>6, <1>7, <1>8, <1>9, <1>10, <1>11, <1>12, <1>13, <1>14,
     <1>15, <1>16, <1>17, <1>18, <1>19, <1>20, <1>21, <1>22, <1>23, <1>24, <1>25 DEF Asserted

\* Every step keeps the invariant.
LEMMA StepAsserted ==
  ASSUME FirmwareInv, [Next]_vars
  PROVE  FirmwareInv'
<1>1. ASSUME UNCHANGED vars
      PROVE  FirmwareInv'
  BY <1>1, SameState, SamePromises, SameAssertions DEF FirmwareInv
<1>2. CASE Next /\ pc = 0 /\ sp = StackTop /\ Promised
  BY <1>1, <1>2, HomeStep DEF FirmwareInv
<1>3. CASE Next /\ Running /\ Asserted
  BY <1>3, RoutineStep DEF FirmwareInv, Running
<1>. QED
  BY <1>1, <1>2, <1>3 DEF FirmwareInv

\* No assertion belongs to the caller, or to the second word of an instruction.
LEMMA AtInstruction ==
  ASSUME Running, Asserted
  PROVE  pc # 0 /\ pm[pc].op # "data"
<1>0. fn \in RoutineNames /\ Loaded
  BY FirmwareSetup, Zenon DEF FirmwareSetup, Running, Loaded
<1>1. CASE fn = "add"
  <2>1. AddAt
    BY <1>1 DEF Asserted
  <2>2. pc \in 1..3
    BY <2>1 DEF AddAt
  <2>. QED
    BY <1>0, <1>1, <2>2, AddProgram DEF RR, RI, R, N, Br, A, Ret
<1>2. CASE fn = "sub"
  <2>1. SubAt
    BY <1>2 DEF Asserted
  <2>2. pc \in 1..3
    BY <2>1 DEF SubAt
  <2>. QED
    BY <1>0, <1>2, <2>2, SubProgram DEF RR, RI, R, N, Br, A, Ret
<1>3. CASE fn = "subi"
  <2>1. SubiAt
    BY <1>3 DEF Asserted
  <2>2. pc \in 1..3
    BY <2>1 DEF SubiAt
  <2>. QED
    BY <1>0, <1>3, <2>2, SubiProgram DEF RR, RI, R, N, Br, A, Ret
<1>4. CASE fn = "neg"
  <2>1. NegAt
    BY <1>4 DEF Asserted
  <2>2. pc \in 1..4
    BY <2>1 DEF NegAt
  <2>. QED
    BY <1>0, <1>4, <2>2, NegProgram DEF RR, RI, R, N, Br, A, Ret
<1>5. CASE fn = "adiw"
  <2>1. AdiwAt
    BY <1>5 DEF Asserted
  <2>2. pc \in 1..2
    BY <2>1 DEF AdiwAt
  <2>. QED
    BY <1>0, <1>5, <2>2, AdiwProgram DEF RR, RI, R, N, Br, A, Ret
<1>6. CASE fn = "sbiw"
  <2>1. SbiwAt
    BY <1>6 DEF Asserted
  <2>2. pc \in 1..2
    BY <2>1 DEF SbiwAt
  <2>. QED
    BY <1>0, <1>6, <2>2, SbiwProgram DEF RR, RI, R, N, Br, A, Ret
<1>7. CASE fn = "lsl"
  <2>1. LslAt
    BY <1>7 DEF Asserted
  <2>2. pc \in 1..3
    BY <2>1 DEF LslAt
  <2>. QED
    BY <1>0, <1>7, <2>2, LslProgram DEF RR, RI, R, N, Br, A, Ret
<1>8. CASE fn = "lsr"
  <2>1. LsrAt
    BY <1>8 DEF Asserted
  <2>2. pc \in 1..3
    BY <2>1 DEF LsrAt
  <2>. QED
    BY <1>0, <1>8, <2>2, LsrProgram DEF RR, RI, R, N, Br, A, Ret
<1>9. CASE fn = "asr"
  <2>1. AsrAt
    BY <1>9 DEF Asserted
  <2>2. pc \in 1..3
    BY <2>1 DEF AsrAt
  <2>. QED
    BY <1>0, <1>9, <2>2, AsrProgram DEF RR, RI, R, N, Br, A, Ret
<1>10. CASE fn = "rotate"
  <2>1. RotateAt
    BY <1>10 DEF Asserted
  <2>2. pc \in 1..7
    BY <2>1 DEF RotateAt
  <2>. QED
    BY <1>0, <1>10, <2>2, RotateProgram DEF RR, RI, R, N, Br, A, Ret
<1>11. CASE fn = "cmp"
  <2>1. CmpAt
    BY <1>11 DEF Asserted
  <2>2. pc \in 1..13
    BY <2>1 DEF CmpAt
  <2>. QED
    BY <1>0, <1>11, <2>2, CmpProgram DEF RR, RI, R, N, Br, A, Ret
<1>12. CASE fn = "cpi"
  <2>1. CpiAt
    BY <1>12 DEF Asserted
  <2>2. pc \in 1..7
    BY <2>1 DEF CpiAt
  <2>. QED
    BY <1>0, <1>12, <2>2, CpiProgram DEF RR, RI, R, N, Br, A, Ret
<1>13. CASE fn = "logic"
  <2>1. LogicAt
    BY <1>13 DEF Asserted
  <2>2. pc \in 1..10
    BY <2>1 DEF LogicAt
  <2>. QED
    BY <1>0, <1>13, <2>2, LogicProgram DEF RR, RI, R, N, Br, A, Ret
<1>14. CASE fn = "bits"
  <2>1. BitsAt
    BY <1>14 DEF Asserted
  <2>2. pc \in 1..11
    BY <2>1 DEF BitsAt
  <2>. QED
    BY <1>0, <1>14, <2>2, BitsProgram DEF RR, RI, R, N, Br, A, Ret
<1>15. CASE fn = "mul"
  <2>1. MulAt
    BY <1>15 DEF Asserted
  <2>2. pc \in 1..9
    BY <2>1 DEF MulAt
  <2>. QED
    BY <1>0, <1>15, <2>2, MulProgram DEF RR, RI, R, N, Br, A, Ret
<1>16. CASE fn = "muls"
  <2>1. MulsAt
    BY <1>16 DEF Asserted
  <2>2. pc \in 1..18
    BY <2>1 DEF MulsAt
  <2>. QED
    BY <1>0, <1>16, <2>2, MulsProgram DEF RR, RI, R, N, Br, A, Ret
<1>17. CASE fn = "fmul"
  <2>1. FmulAt
    BY <1>17 DEF Asserted
  <2>2. pc \in 1..3
    BY <2>1 DEF FmulAt
  <2>. QED
    BY <1>0, <1>17, <2>2, FmulProgram DEF RR, RI, R, N, Br, A, Ret
<1>18. CASE fn = "copy"
  <2>1. CopyAt
    BY <1>18 DEF Asserted
  <2>2. pc \in {1, 3, 5, 7, 9, 10, 11, 12, 13, 14, 15, 16, 17, 18, 19, 20, 21, 22, 23, 24, 25, 26,
                 27, 28, 30}
    BY <2>1 DEF CopyAt
  <2>. QED
    BY <1>0, <1>18, <2>2, CopyProgram DEF RR, RI, R, N, Br, A, Ret
<1>19. CASE fn = "modify"
  <2>1. ModifyAt
    BY <1>19 DEF Asserted
  <2>2. pc \in 1..11
    BY <2>1 DEF ModifyAt
  <2>. QED
    BY <1>0, <1>19, <2>2, ModifyProgram DEF RR, RI, R, N, Br, A, Ret
<1>20. CASE fn = "lpm"
  <2>1. LpmAt
    BY <1>20 DEF Asserted
  <2>2. pc \in 1..7
    BY <2>1 DEF LpmAt
  <2>. QED
    BY <1>0, <1>20, <2>2, LpmProgram DEF RR, RI, R, N, Br, A, Ret
<1>21. CASE fn = "io"
  <2>1. IoAt
    BY <1>21 DEF Asserted
  <2>2. pc \in 1..7
    BY <2>1 DEF IoAt
  <2>. QED
    BY <1>0, <1>21, <2>2, IoProgram DEF RR, RI, R, N, Br, A, Ret
<1>22. CASE fn = "poll"
  <2>1. PollAt
    BY <1>22 DEF Asserted
  <2>2. pc \in {1, 2, 3, 5, 7}
    BY <2>1 DEF PollAt
  <2>. QED
    BY <1>0, <1>22, <2>2, PollProgram DEF RR, RI, R, N, Br, A, Ret
<1>23. CASE fn = "isr"
  <2>1. IsrAt
    BY <1>23 DEF Asserted
  <2>2. pc \in 1..12
    BY <2>1 DEF IsrAt
  <2>. QED
    BY <1>0, <1>23, <2>2, IsrProgram DEF RR, RI, R, N, Br, A, Ret
<1>24. CASE fn = "calls"
  <2>1. CallsAt
    BY <1>24 DEF Asserted
  <2>2. pc \in {1, 2, 3, 4, 6, 7, 8, 9, 10, 11, 14, 15, 16, 17, 18, 19, 21}
    BY <2>1 DEF CallsAt
  <2>. QED
    BY <1>0, <1>24, <2>2, CallsProgram DEF RR, RI, R, N, Br, A, Ret
<1>25. CASE fn = "skip"
  <2>1. SkipAt
    BY <1>25 DEF Asserted
  <2>2. pc \in {1, 2, 3, 5, 6, 7, 8, 10, 13, 15, 16, 19, 21, 22, 23}
    BY <2>1 DEF SkipAt
  <2>. QED
    BY <1>0, <1>25, <2>2, SkipProgram DEF RR, RI, R, N, Br, A, Ret
<1>. QED
  BY <1>0, <1>1, <1>2, <1>3, <1>4, <1>5, <1>6, <1>7, <1>8, <1>9, <1>10, <1>11, <1>12, <1>13, <1>14,
     <1>15, <1>16, <1>17, <1>18, <1>19, <1>20, <1>21, <1>22, <1>23, <1>24, <1>25 DEF RoutineNames

\* At the caller the promise holds.
LEMMA AtHome ==
  ASSUME FirmwareInv, pc = Home
  PROVE  sp = StackTop /\ Promised
<1>1. pc = 0
  BY FirmwareSetup DEF FirmwareSetup
<1>. QED
  BY <1>1, AtInstruction DEF FirmwareInv

\* The routines of this module, called with any two words and any flags, keep the invariant.
THEOREM FirmwareRuns == Spec => []FirmwareInv
<1>1. Init => FirmwareInv
  BY InitAsserted
<1>2. FirmwareInv /\ [Next]_vars => FirmwareInv'
  BY StepAsserted
<1>. QED
  BY <1>1, <1>2, PTL DEF Spec

\* The routines on words return what the arithmetic of words says, in their result and in SREG.
THEOREM ArithmeticCorrect == Spec => []ArithmeticExact
<1>1. FirmwareInv => ArithmeticExact
  BY AtHome DEF Promised, ArithmeticExact, Returned, CpiExact
<1>. QED
  BY <1>1, FirmwareRuns, PTL

\* The products of the bytes, added up with their carries and signs, are those of the words.
THEOREM ProductsCorrect == Spec => []ProductsExact
<1>1. FirmwareInv => ProductsExact
  BY AtHome DEF Promised, ProductsExact, Returned
<1>. QED
  BY <1>1, FirmwareRuns, PTL

\* Loads, stores, reads of the program memory and of I/O registers hand over the bytes they are
\* about.
THEOREM MemoryCorrect == Spec => []MemoryCopied
<1>1. FirmwareInv => MemoryCopied
  BY AtHome DEF Promised, MemoryCopied, Returned
<1>. QED
  BY <1>1, FirmwareRuns, PTL

\* Every routine returns to its caller with the stack as it was.
THEOREM CallsCorrect == Spec => []CallsReturn
<1>1. FirmwareInv => CallsReturn
  BY AtHome DEF Promised, CallsReturn, Returned
<1>. QED
  BY <1>1, FirmwareRuns, PTL

\* What is skipped is a whole instruction.
THEOREM SkipsCorrect == Spec => []SkipsWhole
<1>1. FirmwareInv => SkipsWhole
  <2>1. ASSUME FirmwareInv
        PROVE  pm[pc].op # "data"
    <3>1. CASE pc = 0
      BY <2>1, <3>1, CallerWaits DEF FirmwareInv, RI, A
    <3>2. CASE pc # 0
      BY <2>1, <3>2, AtInstruction DEF FirmwareInv
    <3>. QED
      BY <3>1, <3>2
  <2>. QED
    BY <2>1, AtHome DEF Promised, SkipsWhole, Returned
<1>. QED
  BY <1>1, FirmwareRuns, PTL
=============================================================================
