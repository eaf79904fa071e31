----------------------------- MODULE ProgMemProofs ---------------------------
(***************************************************************************)
(* Matchpoints, writes and restarts lose no program, and a saved file      *)
(* loads what was saved, for every size of the memory, of a page and of a  *)
(* record, every firmware and every number of operations.                  *)
(*                                                                         *)
(* FlashRecoverable is not inductive: it says nothing of what a removal    *)
(* will read.  MatchpointInv adds that a matchpoint that nothing got in    *)
(* the way of stands alone in its words, that its BREAK is in the program  *)
(* memory, and that the saved bytes tell how many words it was put into.   *)
(***************************************************************************)
EXTENDS ProgMem, FiniteSetTheorems, SequenceTheorems, WellFoundedInduction, TLAPS

File == Seq([address : Nat, data : Seq(Word)])

MemTypeOK ==
  /\ pm \in [Index -> Word] /\ mpm \in [Index -> 0..255] /\ pmp \in [Index -> Word]
  /\ view \in [Index -> Word]
  /\ bps \subseteq [at : Addresses, words : SUBSET Index]
  /\ torn \subseteq Index /\ lost \subseteq Index

-----------------------------------------------------------------------------
(* Bytes, words and addresses. *)

LEMMA LoOfByte ==
  ASSUME NEW w \in Int
  PROVE  Lo(w) \in 0..255 /\ Lo(Lo(w)) = Lo(w)
  BY DEF Lo

LEMMA WordsAndBytes ==
  /\ \A w \in Word : w \in Int
  /\ \A w \in 0..255 : w \in Word /\ Lo(w) = w /\ Lo(w) \in Word
<1>1. \A w \in Word : w \in Int
  BY DEF Word
<1>2. \A w \in 0..255 : w \in Word
  BY DEF Word
<1>3. \A w \in 0..255 : Lo(w) = w
  BY DEF Lo
<1>. QED
  BY <1>1, <1>2, <1>3

LEMMA BreakBytes == Lo(BREAK_LOW) + (256 * Lo(BREAK_HIGH)) = BREAK
  BY DEF Lo, BREAK, BREAK_LOW, BREAK_HIGH

\* Four words from an address on are in the memory.
LEMMA SpanInIndex ==
  ASSUME NEW a \in Addresses, NEW inst
  PROVE  /\ a..(a + 3) \subseteq Index /\ a..(a + 1) \subseteq Index
         /\ Span(a, inst) \subseteq Index
         /\ a \in Span(a, inst) /\ a + 1 \in Span(a, inst)
         /\ a \in Index /\ a + 1 \in Index
  BY SizesAssumption DEF Addresses, Span, Index

-----------------------------------------------------------------------------
(* Files. *)

\* A set of positions in a file has a last one.
LEMMA LastPosition ==
  ASSUME NEW l \in Nat, NEW rs \in SUBSET (1..l), rs # {}
  PROVE  \E n \in rs : \A k \in rs : k <= n
<1>. DEFINE T == {l - n : n \in rs}
<1>0. \A n \in rs : n \in 1..l /\ l - n \in Nat
  OBVIOUS
<1>1. T \subseteq Nat /\ T # {}
  BY <1>0, Zenon
<1>2. PICK x \in T : \A y \in T : ~ (<<y, x>> \in OpToRel(<, Nat))
  BY <1>1, NatLessThanWellFounded, WFMin, Zenon
<1>3. \A y \in T : ~ (y < x)
  BY <1>1, <1>2 DEF OpToRel
<1>4. PICK n \in rs : x = l - n
  OBVIOUS
<1>5. \A k \in rs : k <= n
  BY <1>3, <1>4
<1>. QED
  BY <1>5

LEMMA LastRecord ==
  ASSUME NEW f \in File, NEW i \in Index,
         NEW k \in 1..Len(f), Covers(f[k], i)
  PROVE  \E n \in 1..Len(f) : Covers(f[n], i) /\ LoadedWord(f, i) = DataAt(f[n], i)
<1>. DEFINE rs == {n \in 1..Len(f) : Covers(f[n], i)}
<1>1. Len(f) \in Nat
  BY DEF File
<1>2. rs # {} /\ rs \in SUBSET (1..Len(f))
  OBVIOUS
<1>3. \E n \in rs : \A j \in rs : j <= n
  BY <1>1, <1>2, LastPosition
<1>4. (CHOOSE n \in rs : \A j \in rs : j <= n) \in rs
  BY <1>3
<1>. QED
  BY <1>2, <1>4 DEF LoadedWord

LEMMA DataIsWord ==
  ASSUME NEW r \in [address : Nat, data : Seq(Word)], NEW i \in Index, Covers(r, i)
  PROVE  DataAt(r, i) \in Word
<1>1. r.data \in Seq(Word) /\ Len(r.data) \in Nat
  OBVIOUS
<1>2. i - (r.address \div 2) + 1 \in 1..Len(r.data)
  BY <1>1 DEF Covers, Index
<1>. QED
  BY <1>1, <1>2 DEF DataAt

LEMMA LoadedType ==
  ASSUME NEW f \in File
  PROVE  Loaded(f) \in [Index -> Word]
<1>. SUFFICES ASSUME NEW i \in Index PROVE LoadedWord(f, i) \in Word
  BY DEF Loaded
<1>1. CASE \E k \in 1..Len(f) : Covers(f[k], i)
  <2>1. PICK n \in 1..Len(f) : Covers(f[n], i) /\ LoadedWord(f, i) = DataAt(f[n], i)
    BY <1>1, LastRecord
  <2>2. f[n] \in [address : Nat, data : Seq(Word)]
    BY ElementOfSeq DEF File
  <2>. QED
    BY <2>1, <2>2, DataIsWord
<1>2. CASE ~ \E k \in 1..Len(f) : Covers(f[k], i)
  <2>1. {n \in 1..Len(f) : Covers(f[n], i)} = {}
    BY <1>2, Zenon
  <2>2. LoadedWord(f, i) = 0
    BY <2>1 DEF LoadedWord
  <2>. QED
    BY <2>2 DEF Word
<1>. QED
  BY <1>1, <1>2

LEMMA QuotientBounds ==
  ASSUME NEW n \in Nat, NEW d \in Nat, d > 0
  PROVE  /\ n \div d \in Nat
         /\ d * (n \div d) <= n
         /\ n < d * (n \div d) + d
<1>1. n = (d * (n \div d)) + (n % d) /\ n % d \in 0..(d - 1)
  OBVIOUS
<1>2. n \div d \in Int
  OBVIOUS
<1>3. n \div d >= 0
  OBVIOUS
<1>. QED
  BY <1>1, <1>2, <1>3

LEMMA WordsCounted ==
  /\ Words = 0..((flashend + 1) \div 2 - 1)
  /\ Cardinality(Words) = (flashend + 1) \div 2
  /\ Cardinality(Words) \in Nat
<1>. DEFINE b == (flashend + 1) \div 2 - 1
<1>1. b \in Int /\ b >= -1 /\ b + 1 = (flashend + 1) \div 2
  BY SizesAssumption
<1>2. Words = 0..b
  BY DEF Words
<1>. HIDE DEF b
<1>3. Cardinality(0..b) = IF 0 > b THEN 0 ELSE b - 0 + 1
  BY <1>1, FS_Interval
<1>4. Cardinality(Words) = b + 1
  BY <1>1, <1>2, <1>3
<1>. QED
  BY <1>1, <1>2, <1>4 DEF b

LEMMA RecordsType ==
  /\ Records \in Nat
  /\ RecordWords * Records > Cardinality(Words) - 1
<1>1. RecordWords \in Nat /\ RecordWords > 0
  BY SizesAssumption
<1>. DEFINE n == Cardinality(Words) + RecordWords - 1
<1>2. n \in Nat
  BY <1>1, WordsCounted
<1>3. n \div RecordWords \in Nat /\ n < RecordWords * (n \div RecordWords) + RecordWords
  BY <1>1, <1>2, QuotientBounds
<1>. QED
  BY <1>1, <1>3, WordsCounted DEF Records

\* What is saved of a memory of words is a file, of records of words.
LEMMA RecordInMemory ==
  ASSUME NEW r \in 1..Records, NEW j \in 1..RecordWords
  PROVE  RecordWords * (r - 1) + (j - 1) \in Index
<1>1. RecordWords \in Nat /\ RecordWords > 0 /\ PmSize \in Nat /\ Records \in Int
  BY SizesAssumption, RecordsType
<1>2. RecordWords * (r - 1) + RecordWords = RecordWords * r
  BY <1>1
<1>3. RecordWords * r <= RecordWords * Records
  BY <1>1
<1>4. RecordWords * (r - 1) >= 0
  BY <1>1
<1>. QED
  BY <1>1, <1>2, <1>3, <1>4, RecordsAssumption DEF Index

\* A record of a saved file covers RecordWords words, and has what they hold.
LEMMA SavedRecord ==
  ASSUME NEW m \in [Index -> Word], NEW r \in 1..Records
  PROVE  /\ ImageOf(m)[r] \in [address : Nat, data : Seq(Word)]
         /\ \A i \in Index :
              /\ Covers(ImageOf(m)[r], i) <=>
                   RecordWords * (r - 1) <= i /\ i < RecordWords * (r - 1) + RecordWords
              /\ Covers(ImageOf(m)[r], i) => DataAt(ImageOf(m)[r], i) = m[i]
<1>. DEFINE first == RecordWords * (r - 1)
            data  == [j \in 1..RecordWords |-> m[first + (j - 1)]]
<1>1. RecordWords \in Nat /\ Records \in Nat /\ first \in Nat
  <2>1. RecordWords \in Nat /\ Records \in Nat
    BY SizesAssumption, RecordsType
  <2>. QED
    BY <2>1
<1>2. ImageOf(m)[r] = [address |-> 2 * RecordWords * (r - 1), data |-> data]
  BY DEF ImageOf
<1>3. \A j \in 1..RecordWords : first + (j - 1) \in Index
  BY RecordInMemory
<1>4. data \in [1..RecordWords -> Word]
  BY <1>3
<1>5. data \in Seq(Word) /\ Len(data) = RecordWords
  BY <1>1, <1>4
<1>6. 2 * RecordWords * (r - 1) = 2 * first
  BY <1>1
<1>7. (2 * first) \div 2 = first /\ 2 * first \in Nat
  BY <1>1
<1>8. ImageOf(m)[r].address = 2 * first /\ ImageOf(m)[r].data = data
  BY <1>2, <1>6
<1>9. \A i \in Index : data[i - first + 1] = m[i] \/ i - first + 1 \notin 1..RecordWords
  BY <1>1 DEF Index
<1>. HIDE DEF data, first
<1>10. ImageOf(m)[r] \in [address : Nat, data : Seq(Word)]
  BY <1>2, <1>5, <1>6, <1>7
<1>11. \A i \in Index :
         /\ Covers(ImageOf(m)[r], i) <=> first <= i /\ i < first + RecordWords
         /\ Covers(ImageOf(m)[r], i) => DataAt(ImageOf(m)[r], i) = m[i]
  <2>. TAKE i \in Index
  <2>1. Covers(ImageOf(m)[r], i) <=> i - first \in 0..(RecordWords - 1)
    BY <1>5, <1>7, <1>8 DEF Covers
  <2>2. DataAt(ImageOf(m)[r], i) = data[i - first + 1]
    BY <1>7, <1>8 DEF DataAt
  <2>3. i \in Int
    BY DEF Index
  <2>. QED
    BY <1>1, <1>9, <2>1, <2>2, <2>3
<1>. QED
  BY <1>10, <1>11 DEF first

\* The record, as it is written.
LEMMA RecordOfImage ==
  ASSUME NEW m \in [Index -> Word], NEW r \in 1..Records
  PROVE  /\ ImageOf(m)[r].address \div 2 = RecordWords * (r - 1)
         /\ Len(ImageOf(m)[r].data) = RecordWords
         /\ ImageOf(m)[r].data = [j \in 1..RecordWords |-> m[RecordWords * (r - 1) + (j - 1)]]
<1>. DEFINE first == RecordWords * (r - 1)
            data  == [j \in 1..RecordWords |-> m[first + (j - 1)]]
<1>1. RecordWords \in Nat /\ first \in Nat
  <2>1. RecordWords \in Nat /\ Records \in Nat
    BY SizesAssumption, RecordsType
  <2>. QED
    BY <2>1
<1>2. ImageOf(m)[r] = [address |-> 2 * RecordWords * (r - 1), data |-> data]
  BY DEF ImageOf
<1>3. 2 * RecordWords * (r - 1) = 2 * first
  BY <1>1
<1>4. (2 * first) \div 2 = first
  BY <1>1
<1>5. data \in Seq(Word) /\ Len(data) = RecordWords
  <2>1. \A j \in 1..RecordWords : first + (j - 1) \in Index
    BY RecordInMemory
  <2>2. data \in [1..RecordWords -> Word]
    BY <2>1
  <2>. QED
    BY <1>1, <2>2
<1>6. ImageOf(m)[r].address = 2 * first /\ ImageOf(m)[r].data = data
  BY <1>2, <1>3
<1>. HIDE DEF data
<1>7. Len(ImageOf(m)[r].data) = RecordWords /\ ImageOf(m)[r].address \div 2 = first
  BY <1>4, <1>5, <1>6
<1>. QED
  BY <1>6, <1>7 DEF data

LEMMA ImageIsFile ==
  ASSUME NEW m \in [Index -> Word]
  PROVE  /\ ImageOf(m) \in File /\ Len(ImageOf(m)) = Records
         /\ \A n \in 0..Records : SubSeq(ImageOf(m), 1, n) \in File
<1>1. Records \in Nat
  BY RecordsType
<1>2. ImageOf(m) \in [1..Records -> [address : Nat, data : Seq(Word)]]
  BY SavedRecord DEF ImageOf
<1>3. ImageOf(m) \in File /\ Len(ImageOf(m)) = Records
  <2>1. ImageOf(m) \in File
    BY <1>1, <1>2, IsASeq DEF File, ImageOf
  <2>2. DOMAIN ImageOf(m) = 1..Records
    BY <1>2
  <2>. QED
    BY <1>1, <2>1, <2>2, LenProperties DEF File
<1>4. \A n \in 0..Records : SubSeq(ImageOf(m), 1, n) \in File
  <2>. TAKE n \in 0..Records
  <2>1. \A i \in 1..n : ImageOf(m)[i] \in [address : Nat, data : Seq(Word)]
    BY <1>1, <1>2
  <2>. QED
    BY <1>1, <2>1, SubSeqProperties DEF File
<1>. QED
  BY <1>3, <1>4

\* Every word of the flash is in a record.
LEMMA EveryWordSaved ==
  ASSUME NEW w \in Words
  PROVE  /\ w \in Index
         /\ \E r \in 1..Records : RecordWords * (r - 1) <= w /\ w < RecordWords * (r - 1) + RecordWords
<1>1. RecordWords \in Nat /\ RecordWords > 0 /\ Records \in Nat
  BY SizesAssumption, RecordsType
<1>2. w \in Nat /\ w <= Cardinality(Words) - 1 /\ Cardinality(Words) \in Nat
  <2>1. w \in 0..((flashend + 1) \div 2 - 1)
    BY WordsCounted
  <2>. QED
    BY <2>1, WordsCounted
<1>. DEFINE q == w \div RecordWords
<1>3. q \in Nat /\ RecordWords * q <= w /\ w < RecordWords * q + RecordWords
  BY <1>1, <1>2, QuotientBounds
<1>. HIDE DEF q
<1>4. RecordWords * q < RecordWords * Records
  BY <1>1, <1>2, <1>3, RecordsType
<1>5. q < Records
  <2>1. SUFFICES ASSUME Records <= q PROVE FALSE
    BY <1>1, <1>3
  <2>2. RecordWords * Records <= RecordWords * q
    BY <1>1, <1>3, <2>1
  <2>. QED
    BY <1>1, <1>3, <1>4, <2>2
<1>6. q + 1 \in 1..Records /\ (q + 1) - 1 = q
  BY <1>1, <1>3, <1>5
<1>7. w \in Index
  BY <1>1, <1>2, <1>3, <1>4, RecordsType, SizesAssumption DEF Words, Index
<1>. QED
  BY <1>3, <1>6, <1>7

-----------------------------------------------------------------------------
(* Matchpoints. *)

Clean(b) == b.words \cap lost = {}

Alone(b) == \A c \in bps : c # b => b.words \cap c.words = {}

InPlace(b) ==
  /\ b.words = Span(b.at, Inst(mpm, b.at))
  /\ pm[b.at] = BREAK_LOW /\ pm[b.at + 1] = BREAK_HIGH
  /\ b.words \subseteq torn

\* A matchpoint is given up as a whole, or it is as it was inserted.
Kept(b) == Clean(b) /\ Alone(b) /\ InPlace(b)
MatchpointInv == \A b \in bps : b.at \in b.words /\ (b.words \subseteq lost \/ Kept(b))

Recoverable(w) ==
  /\ Lo(IF Covered(w) THEN mpm[w] ELSE pm[w]) = Lo(view[w])
  /\ w \notin torn => pm[w] = view[w]

FlashInv ==
  /\ MemTypeOK
  /\ MatchpointInv
  /\ \A w \in Index \ lost : Recoverable(w)

\* The file is always one that can be read, and behind an end the one of the memory.
FileInv ==
  /\ file \in File
  /\ up = "exited" => file = ImageOf(pm)

-----------------------------------------------------------------------------
(* Every step keeps the memory recoverable. *)

\* A matchpoint that stays as it was when nothing touches its words.
LEMMA StaysInPlace ==
  ASSUME MemTypeOK, NEW b \in bps, InPlace(b),
         \A w \in b.words : pm'[w] = pm[w] /\ mpm'[w] = mpm[w],
         b.words \subseteq torn'
  PROVE  InPlace(b)'
<1>1. b.at \in Addresses
  BY DEF MemTypeOK
<1>2. b.at \in b.words /\ b.at + 1 \in b.words
  BY <1>1, SpanInIndex DEF InPlace
<1>3. Inst(mpm, b.at)' = Inst(mpm, b.at)
  BY <1>2 DEF Inst
<1>. QED
  BY <1>2, <1>3 DEF InPlace

\* Matchpoints in the way of some words, and only those, are given up with them.
LEMMA GivenUp ==
  ASSUME MatchpointInv, NEW ws, NEW c \in bps
  PROVE  /\ c.words \cap ws # {} => c.words \subseteq InTheWay(ws)
         /\ Kept(c) /\ c.words \cap ws = {} => c.words \cap InTheWay(ws) = {}
         /\ c.words # {}
<1>1. ASSUME c.words \cap ws # {} PROVE c.words \subseteq InTheWay(ws)
  BY <1>1 DEF InTheWay
<1>2. ASSUME Kept(c), c.words \cap ws = {} PROVE c.words \cap InTheWay(ws) = {}
  <2>1. SUFFICES ASSUME NEW w \in c.words, w \in InTheWay(ws) PROVE FALSE
    OBVIOUS
  <2>2. PICK d \in bps : d.words \cap ws # {} /\ w \in d.words
    BY <2>1 DEF InTheWay
  <2>. QED
    BY <1>2, <2>1, <2>2 DEF Kept, Alone
<1>. QED
  BY <1>1, <1>2 DEF MatchpointInv

LEMMA InsertBreakKeeps ==
  ASSUME FlashInv, NEW a \in Addresses, InsertMatchpoint(a), Inst(pm, a) = BREAK,
         \A b \in bps : b.at # a
  PROVE  FlashInv'
<1>. DEFINE ws == a..(a + 3)
            b  == [at |-> a, words |-> a..(a + 1)]
<1>1. MemTypeOK /\ MatchpointInv /\ \A w \in Index \ lost : Recoverable(w)
  BY DEF FlashInv
<1>2. /\ bps' = bps \cup {b} /\ lost' = lost \cup ws \cup InTheWay(ws)
      /\ pm' = pm /\ mpm' = mpm /\ torn' = torn /\ pmp' = pmp /\ view' = view
  BY DEF InsertMatchpoint
<1>3. /\ ws \subseteq Index /\ a..(a + 1) \subseteq ws
      /\ a \in a..(a + 1) /\ a \in Addresses
  BY SpanInIndex DEF Addresses
<1>4. b \in [at : Addresses, words : SUBSET Index] /\ b.words \subseteq lost' /\ b.at \in b.words
  BY <1>2, <1>3
<1>5. InTheWay(ws) \subseteq Index
  BY <1>1 DEF InTheWay, MemTypeOK
<1>. HIDE DEF ws, b
<1>6. MemTypeOK'
  BY <1>1, <1>2, <1>3, <1>4, <1>5 DEF MemTypeOK
<1>7. \A c \in bps : c.words \subseteq lost' \/ Kept(c)'
  <2>. SUFFICES ASSUME NEW c \in bps, ~ (c.words \subseteq lost') PROVE Kept(c)'
    OBVIOUS
  <2>1. Kept(c) /\ c.words \cap ws = {} /\ c.words \cap InTheWay(ws) = {}
    BY <1>1, <1>2, GivenUp DEF MatchpointInv
  <2>2. Clean(c)'
    BY <1>2, <2>1 DEF Kept, Clean
  <2>3. Alone(c)'
    BY <1>2, <1>3, <2>1 DEF Kept, Alone, b
  <2>4. InPlace(c)'
    BY <1>2, <2>1 DEF Kept, InPlace, Inst
  <2>. QED
    BY <2>2, <2>3, <2>4 DEF Kept
<1>8. MatchpointInv'
  BY <1>1, <1>2, <1>4, <1>7 DEF MatchpointInv
<1>9. \A w \in Index \ lost' : Recoverable(w)'
  <2>. TAKE w \in Index \ lost'
  <2>1. Recoverable(w) /\ w \notin b.words
    BY <1>1, <1>2, <1>4
  <2>2. Covered(w)' <=> Covered(w)
    BY <1>2, <2>1 DEF Covered
  <2>. QED
    BY <1>2, <2>1, <2>2 DEF Recoverable
<1>. QED
  BY <1>6, <1>8, <1>9 DEF FlashInv

LEMMA InsertOverKeeps ==
  ASSUME FlashInv, NEW a \in Addresses, InsertMatchpoint(a), Inst(pm, a) # BREAK
  PROVE  FlashInv'
<1>. DEFINE ws   == Span(a, Inst(pm, a))
            free == InTheWay(ws) = {} /\ ws \cap lost = {}
<1>0. PICK b : b = [at |-> a, words |-> ws]
  OBVIOUS
<1>1. MemTypeOK /\ MatchpointInv /\ \A w \in Index \ lost : Recoverable(w)
  BY DEF FlashInv
<1>2. /\ pm' = [i \in Index |-> IF i = a THEN BREAK_LOW
                                ELSE IF i = a + 1 THEN BREAK_HIGH
                                ELSE IF i \in ws THEN 0 ELSE pm[i]]
      /\ mpm' = [i \in Index |-> IF i \in ws THEN Lo(pm[i]) ELSE mpm[i]]
      /\ bps' = bps \cup {b} /\ torn' = torn \cup ws
      /\ lost' = IF free THEN lost ELSE lost \cup ws \cup InTheWay(ws)
      /\ pmp' = pmp /\ view' = view
  BY <1>0 DEF InsertMatchpoint, Saved
<1>3. /\ ws \subseteq Index /\ a \in ws /\ a + 1 \in ws
      /\ a \in Addresses /\ a \in Index /\ a + 1 \in Index /\ a # a + 1
  BY SpanInIndex DEF Addresses
<1>4. \A w \in Index : pm[w] \in Int /\ Lo(pm[w]) \in 0..255 /\ Lo(Lo(pm[w])) = Lo(pm[w])
  <2>. SUFFICES ASSUME NEW w \in Index PROVE pm[w] \in Int
    BY LoOfByte
  <2>1. pm[w] \in Word
    BY <1>1 DEF MemTypeOK
  <2>. QED
    BY <2>1, WordsAndBytes
<1>5. /\ Inst(mpm, a)' = Inst(pm, a)
      /\ \A w \in ws : mpm'[w] = Lo(pm[w])
      /\ \A w \in Index \ ws : pm'[w] = pm[w] /\ mpm'[w] = mpm[w]
      /\ pm'[a] = BREAK_LOW /\ pm'[a + 1] = BREAK_HIGH
  BY <1>2, <1>3, <1>4 DEF Inst
<1>6. b.at = a /\ b.words = ws
  BY <1>0
<1>7. InTheWay(ws) \subseteq Index /\ lost \subseteq lost'
  BY <1>1, <1>2 DEF InTheWay, MemTypeOK
<1>8. b \in [at : Addresses, words : SUBSET Index]
  BY <1>0, <1>3
<1>9. pm' \in [Index -> Word] /\ mpm' \in [Index -> 0..255]
  <2>1. \A w \in Index : pm[w] \in Word /\ mpm[w] \in 0..255 /\ Lo(pm[w]) \in 0..255
    BY <1>1, <1>4 DEF MemTypeOK
  <2>2. BREAK_LOW \in Word /\ BREAK_HIGH \in Word /\ 0 \in Word
    BY DEF BREAK_LOW, BREAK_HIGH, Word
  <2>. QED
    BY <1>2, <2>1, <2>2
<1>10. free \/ ws \subseteq lost'
  BY <1>2
<1>11. /\ lost' \subseteq lost \cup ws \cup InTheWay(ws)
       /\ free => lost' = lost
  BY <1>2
<1>12. free => ws \cap lost = {} /\ \A c \in bps : c.words \cap ws = {}
  BY DEF InTheWay
<1>13. bps' = bps \cup {b} /\ torn' = torn \cup ws /\ pmp' = pmp /\ view' = view
  BY <1>2
<1>14. MemTypeOK'
  BY <1>1, <1>3, <1>7, <1>8, <1>9, <1>11, <1>13 DEF MemTypeOK
<1>15. b.words = Span(a, Inst(mpm, a)')
  BY <1>5, <1>6
<1>. HIDE DEF ws, free
<1>16. \A c \in bps : c.words \subseteq lost' \/ (Kept(c)' /\ c.words \cap ws = {})
  <2>. SUFFICES ASSUME NEW c \in bps, ~ (c.words \subseteq lost')
                PROVE  Kept(c)' /\ c.words \cap ws = {}
    OBVIOUS
  <2>1. Kept(c) /\ c \in [at : Addresses, words : SUBSET Index]
    BY <1>1, <1>7 DEF MatchpointInv, MemTypeOK
  <2>2. c.words \cap ws = {}
    <3>1. CASE free
      BY <1>12, <3>1
    <3>2. CASE ~ free
      BY <1>1, <1>2, <2>1, <3>2, GivenUp
    <3>. QED
      BY <3>1, <3>2
  <2>3. Clean(c)'
    <3>1. c.words \cap lost = {} /\ c.words \cap InTheWay(ws) = {}
      BY <1>1, <2>1, <2>2, GivenUp DEF Kept, Clean
    <3>. QED
      BY <1>11, <2>2, <3>1 DEF Clean
  <2>4. Alone(c)'
    BY <1>6, <1>13, <2>1, <2>2 DEF Kept, Alone
  <2>5. InPlace(c)'
    <3>1. \A w \in c.words : pm'[w] = pm[w] /\ mpm'[w] = mpm[w]
      BY <1>5, <2>1, <2>2
    <3>2. c.words \subseteq torn'
      BY <1>13, <2>1 DEF Kept, InPlace
    <3>3. InPlace(c)
      BY <2>1 DEF Kept
    <3>. QED
      BY <1>1, <3>1, <3>2, <3>3, StaysInPlace
  <2>. QED
    BY <2>2, <2>3, <2>4, <2>5 DEF Kept
<1>17. b.words \subseteq lost' \/ Kept(b)'
  <2>. SUFFICES ASSUME free PROVE Kept(b)'
    BY <1>6, <1>10
  <2>1. Clean(b)'
    BY <1>6, <1>11, <1>12 DEF Clean
  <2>2. Alone(b)'
    BY <1>6, <1>12, <1>13 DEF Alone
  <2>3. InPlace(b)'
    BY <1>5, <1>6, <1>13, <1>15 DEF InPlace
  <2>. QED
    BY <2>1, <2>2, <2>3 DEF Kept
<1>18. MatchpointInv'
  <2>1. b.at \in b.words
    BY <1>3, <1>6
  <2>. QED
    BY <1>1, <1>13, <1>16, <1>17, <2>1 DEF MatchpointInv
<1>19. \A w \in Index \ lost' : Recoverable(w)'
  <2>. TAKE w \in Index \ lost'
  <2>1. Recoverable(w)
    BY <1>1, <1>7
  <2>2. CASE w \in ws
    <3>1. free /\ ~ Covered(w)
      BY <1>10, <1>12, <2>2 DEF Covered
    <3>2. Covered(w)' /\ w \in torn'
      BY <1>6, <1>13, <2>2 DEF Covered
    <3>3. Lo(mpm'[w]) = Lo(pm[w])
      BY <1>4, <1>5, <2>2
    <3>. QED
      BY <1>13, <2>1, <3>1, <3>2, <3>3 DEF Recoverable
  <2>3. CASE w \notin ws
    <3>1. Covered(w)' <=> Covered(w)
      BY <1>6, <1>13, <2>3 DEF Covered
    <3>2. pm'[w] = pm[w] /\ mpm'[w] = mpm[w]
      BY <1>5, <2>3
    <3>. QED
      BY <1>13, <2>1, <2>3, <3>1, <3>2 DEF Recoverable
  <2>. QED
    BY <2>2, <2>3
<1>. QED
  BY <1>14, <1>18, <1>19 DEF FlashInv

LEMMA RemoveKeeps ==
  ASSUME FlashInv, NEW b \in bps, RemoveMatchpoint(b)
  PROVE  FlashInv'
<1>. DEFINE ws   == Span(b.at, Inst(mpm, b.at))
            back == Inst(pm, b.at) = BREAK
<1>1. MemTypeOK /\ MatchpointInv /\ \A w \in Index \ lost : Recoverable(w)
  BY DEF FlashInv
<1>2. /\ pm' = IF back THEN [i \in Index |-> IF i \in ws THEN Lo(mpm[i]) ELSE pm[i]] ELSE pm
      /\ torn' = IF back THEN torn \cup ws ELSE torn
      /\ lost' = IF back /\ b.words \cap lost # {} THEN lost \cup ws \cup InTheWay(ws) ELSE lost
  BY DEF RemoveMatchpoint, InTheWay
<1>3. bps' = bps \ {b} /\ mpm' = mpm /\ pmp' = pmp /\ view' = view
  BY DEF RemoveMatchpoint
<1>4. b.at \in Addresses /\ b.at \in b.words /\ b.words \subseteq Index
  BY <1>1 DEF MemTypeOK, MatchpointInv
<1>5. ws \subseteq Index /\ b.at \in ws
  BY <1>4, SpanInIndex
<1>6. \A w \in Index : mpm[w] \in 0..255 /\ Lo(mpm[w]) = mpm[w] /\ pm[w] \in Word
  BY <1>1 DEF MemTypeOK, Lo
<1>7. InTheWay(ws) \subseteq Index
  BY <1>1 DEF InTheWay, MemTypeOK
<1>8. pm' \in [Index -> Word]
  <2>1. \A w \in Index : Lo(mpm[w]) \in Word
    BY <1>6, WordsAndBytes
  <2>2. pm \in [Index -> Word]
    BY <1>1 DEF MemTypeOK
  <2>. QED
    BY <1>2, <1>6, <2>1, <2>2
<1>9. MemTypeOK'
  <2>1. torn' \subseteq Index /\ lost' \subseteq Index
    BY <1>1, <1>2, <1>5, <1>7 DEF MemTypeOK
  <2>. QED
    BY <1>1, <1>3, <1>8, <2>1 DEF MemTypeOK
\* The matchpoint was given up, or its words are those that come back.
<1>10. b.words \subseteq lost \/ (back /\ b.words = ws /\ Kept(b))
  <2>1. SUFFICES ASSUME Kept(b) PROVE back /\ b.words = ws
    BY <1>1 DEF MatchpointInv
  <2>. QED
    BY <2>1, BreakBytes DEF Kept, InPlace, Inst
<1>11. \A w \in Index \ ws : pm'[w] = pm[w]
  BY <1>2
<1>12. \/ pm' = pm /\ lost' = lost /\ torn' = torn /\ b.words \subseteq lost
       \/ /\ lost' = lost /\ b.words = ws /\ Kept(b) /\ torn' = torn \cup ws
          /\ \A w \in ws : pm'[w] = mpm[w]
       \/ lost' = lost \cup ws \cup InTheWay(ws) /\ b.words \subseteq lost
  <2>1. CASE ~ back
    BY <1>2, <1>10, <2>1
  <2>2. CASE back /\ b.words \cap lost # {}
    <3>1. b.words \subseteq lost
      BY <1>10, <2>2 DEF Kept, Clean
    <3>. QED
      BY <1>2, <2>2, <3>1
  <2>3. CASE back /\ b.words \cap lost = {}
    <3>1. b.words = ws /\ Kept(b)
      BY <1>4, <1>10, <2>3
    <3>2. \A w \in ws : pm'[w] = mpm[w]
      BY <1>2, <1>5, <1>6, <2>3
    <3>. QED
      BY <1>2, <2>3, <3>1, <3>2
  <2>. QED
    BY <2>1, <2>2, <2>3
<1>13. torn \subseteq torn' /\ lost \subseteq lost'
  BY <1>2
<1>. HIDE DEF ws, back
\* Words of a matchpoint that stays are not touched.
<1>14. \A c \in bps : \/ c = b \/ c.words \subseteq lost'
                      \/ /\ Kept(c) /\ c.words \cap lost' = {}
                         /\ \A w \in c.words : pm'[w] = pm[w]
  <2>. SUFFICES ASSUME NEW c \in bps, c # b, ~ (c.words \subseteq lost')
                PROVE  Kept(c) /\ c.words \cap lost' = {} /\ \A w \in c.words : pm'[w] = pm[w]
    OBVIOUS
  <2>1. Kept(c) /\ c.words \subseteq Index
    BY <1>1, <1>13 DEF MatchpointInv, MemTypeOK
  <2>2. c.words \cap lost = {}
    BY <2>1 DEF Kept, Clean
  <2>3. CASE pm' = pm /\ lost' = lost
    BY <2>1, <2>2, <2>3
  <2>4. CASE lost' = lost /\ b.words = ws
    <3>1. c.words \cap ws = {}
      BY <2>1, <2>4 DEF Kept, Alone
    <3>. QED
      BY <1>11, <2>1, <2>2, <2>4, <3>1
  <2>5. CASE lost' = lost \cup ws \cup InTheWay(ws)
    <3>1. c.words \cap ws = {} /\ c.words \cap InTheWay(ws) = {}
      BY <1>1, <2>1, <2>5, GivenUp
    <3>. QED
      BY <1>11, <2>1, <2>2, <2>5, <3>1
  <2>. QED
    BY <1>12, <2>3, <2>4, <2>5
<1>15. MatchpointInv'
  <2>. SUFFICES ASSUME NEW c \in bps, c # b, ~ (c.words \subseteq lost')
                PROVE  Kept(c)'
    BY <1>1, <1>3 DEF MatchpointInv
  <2>1. Kept(c) /\ c.words \cap lost' = {} /\ \A w \in c.words : pm'[w] = pm[w]
    BY <1>14
  <2>2. InPlace(c)'
    <3>1. InPlace(c) /\ c.words \subseteq torn'
      BY <1>13, <2>1 DEF Kept, InPlace
    <3>. QED
      BY <1>1, <1>3, <2>1, <3>1, StaysInPlace
  <2>3. Alone(c)' /\ Clean(c)'
    BY <1>3, <2>1 DEF Kept, Alone, Clean
  <2>. QED
    BY <2>2, <2>3 DEF Kept
<1>16. \A w \in Index \ lost' : Recoverable(w)'
  <2>. TAKE w \in Index \ lost'
  <2>1. Recoverable(w) /\ w \notin lost
    BY <1>1, <1>13
  <2>2. CASE w \in b.words
    <3>1. b.words = ws /\ Kept(b) /\ torn' = torn \cup ws /\ pm'[w] = mpm[w]
      BY <1>12, <2>1, <2>2
    <3>2. Covered(w) /\ ~ Covered(w)'
      BY <1>3, <2>2, <3>1 DEF Covered, Kept, Alone
    <3>3. Lo(mpm[w]) = Lo(view[w]) /\ w \in torn'
      BY <2>1, <2>2, <3>1, <3>2 DEF Recoverable
    <3>. QED
      BY <1>3, <3>1, <3>2, <3>3 DEF Recoverable
  <2>3. CASE w \notin b.words
    <3>1. Covered(w)' <=> Covered(w)
      BY <1>3, <2>3 DEF Covered
    <3>2. pm'[w] = pm[w]
      BY <1>11, <1>12, <2>3
    <3>. QED
      BY <1>3, <1>13, <2>1, <3>1, <3>2 DEF Recoverable
  <2>. QED
    BY <2>2, <2>3
<1>. QED
  BY <1>9, <1>15, <1>16 DEF FlashInv

\* A write with words of the right type, to words of the memory.
LEMMA OverwriteKeeps ==
  ASSUME FlashInv, NEW i \in Nat, NEW s, Overwrite(i, s),
         Len(s) \in Nat, i + Len(s) <= PmSize, \A k \in 1..Len(s) : s[k] \in Word,
         UNCHANGED <<mpm, pmp, bps>>
  PROVE  FlashInv'
<1>. DEFINE ws == i..(i + Len(s) - 1)
<1>1. MemTypeOK /\ MatchpointInv /\ \A w \in Index \ lost : Recoverable(w)
  BY DEF FlashInv
<1>2. /\ pm' = [k \in Index |-> IF k \in ws THEN s[k - i + 1] ELSE pm[k]]
      /\ view' = [k \in Index |-> IF k \in ws THEN s[k - i + 1] ELSE view[k]]
      /\ torn' = torn \ (ws \ InTheWay(ws))
      /\ lost' = (lost \ ws) \cup InTheWay(ws)
      /\ mpm' = mpm /\ pmp' = pmp /\ bps' = bps
  BY DEF Overwrite
<1>3. ws \subseteq Index /\ \A k \in ws : s[k - i + 1] \in Word
  <2>1. \A k \in ws : k - i + 1 \in 1..Len(s)
    OBVIOUS
  <2>. QED
    BY <2>1, SizesAssumption DEF Index
<1>4. InTheWay(ws) \subseteq Index
  BY <1>1 DEF InTheWay, MemTypeOK
<1>5. pm' \in [Index -> Word] /\ view' \in [Index -> Word]
  <2>1. pm \in [Index -> Word] /\ view \in [Index -> Word]
    BY <1>1 DEF MemTypeOK
  <2>. QED
    BY <1>2, <1>3, <2>1
<1>6. /\ \A w \in Index \ ws : pm'[w] = pm[w] /\ view'[w] = view[w]
      /\ \A w \in ws : pm'[w] = view'[w]
  BY <1>2, <1>3
<1>. HIDE DEF ws
<1>7. MemTypeOK'
  BY <1>1, <1>2, <1>4, <1>5 DEF MemTypeOK
<1>8. \A c \in bps : \/ c.words \subseteq lost'
                     \/ Kept(c) /\ c.words \cap ws = {} /\ c.words \cap lost' = {}
  <2>. SUFFICES ASSUME NEW c \in bps, ~ (c.words \subseteq lost')
                PROVE  Kept(c) /\ c.words \cap ws = {} /\ c.words \cap lost' = {}
    OBVIOUS
  <2>1. c.words \cap ws = {}
    BY <1>1, <1>2, GivenUp
  <2>2. Kept(c)
    BY <1>1, <1>2, <2>1 DEF MatchpointInv
  <2>3. c.words \cap lost = {} /\ c.words \cap InTheWay(ws) = {}
    BY <1>1, <2>1, <2>2, GivenUp DEF Kept, Clean
  <2>. QED
    BY <1>2, <2>1, <2>2, <2>3
<1>9. MatchpointInv'
  <2>. SUFFICES ASSUME NEW c \in bps, ~ (c.words \subseteq lost') PROVE Kept(c)'
    BY <1>1, <1>2 DEF MatchpointInv
  <2>1. Kept(c) /\ c.words \cap ws = {} /\ c.words \cap lost' = {} /\ c.words \subseteq Index
    BY <1>1, <1>8 DEF MemTypeOK
  <2>2. InPlace(c) /\ c.words \subseteq torn'
    BY <1>2, <2>1 DEF Kept, InPlace
  <2>3. InPlace(c)'
    BY <1>1, <1>2, <1>6, <2>1, <2>2, StaysInPlace
  <2>. QED
    BY <1>2, <2>1, <2>3 DEF Kept, Alone, Clean
<1>10. \A w \in Index \ lost' : Recoverable(w)'
  <2>. TAKE w \in Index \ lost'
  <2>1. Covered(w)' <=> Covered(w)
    BY <1>2 DEF Covered
  <2>2. CASE w \in ws
    <3>1. ~ Covered(w)
      BY <1>2, <2>2 DEF Covered, InTheWay
    <3>. QED
      BY <1>6, <2>1, <2>2, <3>1 DEF Recoverable
  <2>3. CASE w \notin ws
    <3>1. Recoverable(w) /\ (w \in torn' <=> w \in torn)
      BY <1>1, <1>2, <2>3
    <3>. QED
      BY <1>2, <1>6, <2>1, <2>3, <3>1 DEF Recoverable
  <2>. QED
    BY <2>2, <2>3
<1>. QED
  BY <1>7, <1>9, <1>10 DEF FlashInv

\* A memory just loaded has no matchpoints.
LEMMA LoadedKeeps ==
  ASSUME NEW f \in File, Started(f)
  PROVE  FlashInv'
<1>1. pm' = Loaded(f) /\ view' = Loaded(f) /\ mpm' = Zeroed /\ pmp' = Zeroed
  BY DEF Started
<1>2. bps' = {} /\ torn' = {} /\ lost' = {}
  BY DEF Started
<1>3. Loaded(f) \in [Index -> Word] /\ Zeroed \in [Index -> Word] /\ Zeroed \in [Index -> 0..255]
  BY LoadedType, WordsAndBytes DEF Zeroed
<1>4. MemTypeOK'
  BY <1>1, <1>2, <1>3 DEF MemTypeOK
<1>5. MatchpointInv'
  BY <1>2 DEF MatchpointInv
<1>6. \A w \in Index \ lost' : Recoverable(w)'
  BY <1>1, <1>2 DEF Recoverable, Covered
<1>. QED
  BY <1>4, <1>5, <1>6 DEF FlashInv

LEMMA FirmwareIsFile ==
  /\ Firmwares \subseteq File
  /\ NoFile \in File
<1>1. Firmwares \subseteq File
  BY SizesAssumption DEF File
<1>2. [address |-> 0, data |-> <<>>] \in [address : Nat, data : Seq(Word)]
  OBVIOUS
<1>3. \A S, x : x \in S => <<x>> \in Seq(S)
  OBVIOUS
<1>. QED
  BY <1>1, <1>2, <1>3 DEF File, NoFile

LEMMA InitFlash == Init => FlashInv /\ FileInv
<1>. SUFFICES ASSUME Init PROVE FlashInv /\ FileInv
  OBVIOUS
<1>1. PICK f \in Firmwares : pm = Loaded(f) /\ view = Loaded(f)
  BY DEF Init
<1>2. /\ mpm = Zeroed /\ pmp = Zeroed /\ bps = {} /\ torn = {} /\ lost = {}
      /\ file = NoFile /\ up = "running"
  BY DEF Init
<1>3. Loaded(f) \in [Index -> Word] /\ Zeroed \in [Index -> Word] /\ Zeroed \in [Index -> 0..255]
  BY LoadedType, FirmwareIsFile, WordsAndBytes DEF Zeroed
<1>4. MemTypeOK
  BY <1>1, <1>2, <1>3 DEF MemTypeOK
<1>5. MatchpointInv
  BY <1>2 DEF MatchpointInv
<1>6. \A w \in Index \ lost : Recoverable(w)
  BY <1>1, <1>2 DEF Recoverable, Covered
<1>7. FileInv
  BY <1>2, FirmwareIsFile DEF FileInv
<1>. QED
  BY <1>4, <1>5, <1>6, <1>7 DEF FlashInv

LEMMA UnchangedKeeps ==
  ASSUME FlashInv, UNCHANGED <<pm, mpm, bps, view, torn, lost>>, pmp' \in [Index -> Word]
  PROVE  FlashInv'
  BY DEF FlashInv, MemTypeOK, MatchpointInv, Kept, Clean, Alone, InPlace, Recoverable, Covered, Inst

LEMMA WritesFit ==
  ASSUME MemTypeOK, NEW z \in Addresses
  PROVE  /\ z \in Nat /\ PageWords \in Nat /\ z + PageWords <= PmSize
         /\ \A i \in 1..PageWords : pmp[z + (i - 1)] \in Word /\ 65535 \in Word
         /\ \A p \in Payloads :
              /\ z \div 2 \in Nat /\ Len(p) \in Nat /\ (z \div 2) + Len(p) <= PmSize
              /\ \A k \in 1..Len(p) : p[k] \in Word
<1>1. z \in Nat /\ z < flashend
  BY SizesAssumption DEF Addresses
<1>2. PageWords \in Nat /\ PageWords <= PageBytes
  BY SizesAssumption DEF PageWords
<1>3. z + PageWords <= PmSize
  BY <1>1, <1>2, SizesAssumption
<1>4. \A i \in 1..PageWords : z + (i - 1) \in Index
  BY <1>1, <1>2, <1>3, SizesAssumption DEF Index
<1>5. \A i \in 1..PageWords : pmp[z + (i - 1)] \in Word
  BY <1>4 DEF MemTypeOK
<1>6. 65535 \in Word
  BY DEF Word
<1>7. z \div 2 \in Nat /\ z \div 2 <= z
  BY <1>1
<1>8. ASSUME NEW p \in Payloads
      PROVE  Len(p) \in Nat /\ (z \div 2) + Len(p) <= PmSize /\ \A k \in 1..Len(p) : p[k] \in Word
  <2>1. p \in Seq(Word)
    BY SizesAssumption
  <2>2. Len(p) \in Nat /\ flashend + Len(p) < PmSize
    BY <2>1, SizesAssumption
  <2>3. \A k \in 1..Len(p) : p[k] \in Word
    BY <2>1, ElementOfSeq
  <2>. QED
    BY <1>1, <1>7, <2>2, <2>3, SizesAssumption
<1>. QED
  BY <1>1, <1>2, <1>3, <1>5, <1>6, <1>7, <1>8

LEMMA StepKeepsFlash ==
  ASSUME FlashInv, FileInv, [Next]_pmVars
  PROVE  FlashInv'
<1>1. MemTypeOK /\ file \in File
  BY DEF FlashInv, FileInv
<1>2. ASSUME UNCHANGED <<pm, mpm, pmp, bps, view, torn, lost>> PROVE FlashInv'
  BY <1>1, <1>2, UnchangedKeeps DEF MemTypeOK
<1>3. ASSUME NEW a \in Addresses, InsertMatchpoint(a) PROVE FlashInv'
  <2>1. CASE Inst(pm, a) = BREAK /\ \E b \in bps : b.at = a
    BY <1>2, <1>3, <2>1 DEF InsertMatchpoint
  <2>. QED
    BY <1>3, <2>1, InsertBreakKeeps, InsertOverKeeps
<1>4. ASSUME NEW b \in bps, RemoveMatchpoint(b) PROVE FlashInv'
  BY <1>4, RemoveKeeps
<1>5. ASSUME NEW a \in Addresses, Erase(a) PROVE FlashInv'
  <2>. DEFINE s == [i \in 1..PageWords |-> 65535]
  <2>1. Overwrite(a, s) /\ UNCHANGED <<mpm, pmp, bps>>
    BY <1>5 DEF Erase
  <2>2. Len(s) = PageWords /\ \A k \in 1..Len(s) : s[k] \in Word
    BY <1>1, WritesFit
  <2>. HIDE DEF s
  <2>3. a \in Nat /\ Len(s) \in Nat /\ a + Len(s) <= PmSize
    BY <1>1, <2>2, WritesFit
  <2>. QED
    BY <2>1, <2>2, <2>3, OverwriteKeeps
<1>6. ASSUME NEW a \in Addresses, WritePage(a) PROVE FlashInv'
  <2>. DEFINE s == [i \in 1..PageWords |-> pmp[a + (i - 1)]]
  <2>1. Overwrite(a, s) /\ UNCHANGED <<mpm, pmp, bps>>
    BY <1>6 DEF WritePage
  <2>2. Len(s) = PageWords /\ \A k \in 1..Len(s) : s[k] \in Word
    BY <1>1, WritesFit
  <2>. HIDE DEF s
  <2>3. a \in Nat /\ Len(s) \in Nat /\ a + Len(s) <= PmSize
    BY <1>1, <2>2, WritesFit
  <2>. QED
    BY <2>1, <2>2, <2>3, OverwriteKeeps
<1>7. ASSUME NEW a \in Addresses, NEW s \in Payloads, WriteMem(a, s) PROVE FlashInv'
  <2>1. Overwrite(a \div 2, s) /\ UNCHANGED <<mpm, pmp, bps>>
    BY <1>7 DEF WriteMem
  <2>. QED
    BY <1>1, <2>1, WritesFit, OverwriteKeeps
<1>8. ASSUME NEW a \in Addresses, NEW v \in Fills, Fill(a, v) PROVE FlashInv'
  <2>1. UNCHANGED <<pm, mpm, bps, view, torn, lost>> /\ pmp' = [pmp EXCEPT ![a] = v]
    BY <1>8 DEF Fill
  <2>2. v \in Word
    BY SizesAssumption
  <2>3. pmp' \in [Index -> Word]
    BY <1>1, <2>1, <2>2 DEF MemTypeOK
  <2>. QED
    BY <2>1, <2>3, UnchangedKeeps
<1>9. ASSUME Exit \/ Signal \/ Kill PROVE FlashInv'
  BY <1>2, <1>9 DEF Exit, Signal, Kill
<1>10. ASSUME NEW reset_flash \in BOOLEAN, NEW firmware \in Firmwares, Start(reset_flash, firmware)
       PROVE  FlashInv'
  <2>. DEFINE f == Chosen(reset_flash, firmware)
  <2>1. f \in File
    BY <1>1, FirmwareIsFile DEF Chosen
  <2>. HIDE DEF f
  <2>2. Started(f) \/ UNCHANGED <<pm, mpm, pmp, up, bps, view, torn, lost>>
    BY <1>10 DEF Start, f
  <2>. QED
    BY <1>2, <2>1, <2>2, LoadedKeeps
<1>11. CASE UNCHANGED pmVars
  BY <1>2, <1>11 DEF pmVars, flash
<1>12. CASE FlashStep
  BY <1>3, <1>4, <1>5, <1>6, <1>7, <1>8, <1>9, <1>12 DEF FlashStep
<1>. QED
  BY <1>10, <1>11, <1>12 DEF Next

-----------------------------------------------------------------------------
(* The saved file. *)

LEMMA StepKeepsFile ==
  ASSUME FlashInv, FileInv, [Next]_pmVars
  PROVE  FileInv'
<1>1. pm \in [Index -> Word] /\ file \in File /\ (up = "exited" => file = ImageOf(pm))
  BY DEF FlashInv, FileInv, MemTypeOK
<1>2. /\ ImageOf(pm) \in File
      /\ \A n \in 0..Records : SubSeq(ImageOf(pm), 1, n) \in File
  BY <1>1, ImageIsFile
<1>3. ASSUME file' = file, up' = up, up = "running" \/ pm' = pm PROVE FileInv'
  BY <1>1, <1>3 DEF FileInv, ImageOf
<1>4. ASSUME file' = ImageOf(pm), pm' = pm PROVE FileInv'
  BY <1>2, <1>4 DEF FileInv, ImageOf
<1>5. ASSUME file' \in File, up' # "exited" PROVE FileInv'
  BY <1>5 DEF FileInv
<1>6. CASE UNCHANGED pmVars
  BY <1>3, <1>6 DEF pmVars, flash
<1>7. CASE up = "running" /\ FlashStep
  <2>1. ASSUME NEW a \in Addresses, InsertMatchpoint(a) \/ Erase(a) \/ WritePage(a) PROVE FileInv'
    BY <1>3, <1>7, <2>1 DEF InsertMatchpoint, Erase, WritePage
  <2>2. ASSUME NEW b \in bps, RemoveMatchpoint(b) PROVE FileInv'
    BY <1>3, <1>7, <2>2 DEF RemoveMatchpoint
  <2>3. ASSUME NEW a \in Addresses, NEW s, WriteMem(a, s) \/ Fill(a, s) PROVE FileInv'
    BY <1>3, <1>7, <2>3 DEF WriteMem, Fill
  <2>4. ASSUME Exit \/ Signal PROVE FileInv'
    BY <1>4, <2>4 DEF Exit, Signal, Save
  <2>5. ASSUME Kill PROVE FileInv'
    <3>1. file' \in File /\ up' = "killed"
      BY <1>1, <1>2, <2>5 DEF Kill
    <3>. QED
      BY <1>5, <3>1
  <2>. QED
    BY <1>7, <2>1, <2>2, <2>3, <2>4, <2>5 DEF FlashStep
<1>8. ASSUME NEW reset_flash \in BOOLEAN, NEW f \in Firmwares, Start(reset_flash, f) PROVE FileInv'
  <2>1. file' = file /\ (up' = "running" \/ (up' = up /\ pm' = pm))
    BY <1>8 DEF Start
  <2>2. CASE up' = "running"
    BY <1>1, <1>5, <2>1, <2>2
  <2>3. CASE up' = up /\ pm' = pm
    BY <1>3, <2>1, <2>3
  <2>. QED
    BY <2>1, <2>2, <2>3
<1>. QED
  BY <1>6, <1>7, <1>8 DEF Next

\* What is read back of a saved file is the memory that was saved.
LEMMA SavedFileReads ==
  ASSUME NEW m \in [Index -> Word]
  PROVE  /\ Verified(ImageOf(m))
         /\ \A w \in Words : LoadedWord(ImageOf(m), w) = m[w]
<1>. DEFINE f == ImageOf(m)
<1>1. f \in File /\ Len(f) = Records
  BY ImageIsFile
<1>. HIDE DEF f
<1>2. \A k \in 1..Len(f), i \in Index : Covers(f[k], i) => DataAt(f[k], i) = m[i]
  BY <1>1, SavedRecord DEF f
<1>3. \A k \in 1..Len(f), i \in Index : Covers(f[k], i) => LoadedWord(f, i) = m[i]
  <2>. SUFFICES ASSUME NEW k \in 1..Len(f), NEW i \in Index, Covers(f[k], i)
                PROVE  LoadedWord(f, i) = m[i]
    OBVIOUS
  <2>1. PICK n \in 1..Len(f) : Covers(f[n], i) /\ LoadedWord(f, i) = DataAt(f[n], i)
    BY <1>1, LastRecord
  <2>. QED
    BY <1>2, <2>1
<1>4. Verified(f)
  <2>. SUFFICES ASSUME NEW n \in 1..Len(f) PROVE InMemory(f, f[n]) = f[n].data
    BY Zenon DEF Verified
  <2>1. f[n] = ImageOf(m)[n] /\ n \in 1..Records
    BY <1>1 DEF f
  <2>. DEFINE first == RecordWords * (n - 1)
              read(j) == LoadedWord(f, (f[n].address \div 2) + (j - 1))
  <2>2. /\ f[n].address \div 2 = first /\ Len(f[n].data) = RecordWords
        /\ f[n].data = [j \in 1..RecordWords |-> m[first + (j - 1)]]
    BY <2>1, RecordOfImage, Zenon
  <2>3. ASSUME NEW j \in 1..RecordWords
        PROVE  LoadedWord(f, first + (j - 1)) = m[first + (j - 1)]
    <3>. DEFINE i == first + (j - 1)
    <3>1. i \in Index /\ first <= i /\ i < first + RecordWords
      <4>1. first \in Int /\ RecordWords \in Nat
        BY <2>1, RecordsType, SizesAssumption
      <4>2. i \in Index
        BY <2>1, RecordInMemory
      <4>. HIDE DEF first
      <4>. QED
        BY <4>1, <4>2
    <3>2. Covers(f[n], i)
      BY <2>1, <3>1, SavedRecord
    <3>. HIDE DEF i, first
    <3>3. LoadedWord(f, i) = m[i]
      BY <1>3, <3>1, <3>2
    <3>. QED
      BY <3>3 DEF i
  <2>. HIDE DEF first
  <2>. QED
    BY <2>2, <2>3, Zenon DEF InMemory
<1>5. ASSUME NEW w \in Words PROVE LoadedWord(f, w) = m[w]
  <2>1. w \in Index
    BY EveryWordSaved
  <2>2. PICK r \in 1..Records :
           RecordWords * (r - 1) <= w /\ w < RecordWords * (r - 1) + RecordWords
    BY EveryWordSaved
  <2>3. Covers(f[r], w)
    BY <2>1, <2>2, SavedRecord DEF f
  <2>. QED
    BY <1>1, <1>3, <2>1, <2>3
<1>. QED
  BY <1>4, <1>5 DEF f

LEMMA SafetyOfInv ==
  ASSUME FlashInv, FileInv
  PROVE  FlashRecoverable /\ LoadsWhatWasSaved
<1>1. FlashRecoverable
  BY DEF FlashInv, Recoverable, FlashRecoverable
<1>2. ASSUME up = "exited"
      PROVE  /\ Verified(file)
             /\ bps = {} => \A w \in Words \ (torn \cup lost) : LoadedWord(file, w) = view[w]
  <2>1. file = ImageOf(pm) /\ pm \in [Index -> Word]
    BY <1>2 DEF FlashInv, FileInv, MemTypeOK
  <2>2. Verified(file) /\ \A w \in Words : LoadedWord(file, w) = pm[w]
    BY <2>1, SavedFileReads
  <2>3. \A w \in Words \ (torn \cup lost) : pm[w] = view[w]
    BY <1>1, EveryWordSaved DEF FlashRecoverable
  <2>. QED
    BY <2>2, <2>3
<1>. QED
  BY <1>1, <1>2 DEF LoadsWhatWasSaved

LEMMA FlashSafe == Spec => [](FlashInv /\ FileInv)
<1>1. Init => FlashInv /\ FileInv
  BY InitFlash
<1>2. FlashInv /\ FileInv /\ [Next]_pmVars => (FlashInv /\ FileInv)'
  BY StepKeepsFlash, StepKeepsFile
<1>. QED
  BY <1>1, <1>2, PTL DEF Spec

\* However rsp_insert_matchpoint, rsp_remove_matchpoint, the debugger's writes and
\* exec_spm interleave: a word no matchpoint and write fought over has its lower
\* byte in the memory or in mpm, and a word no matchpoint touched is whole.
THEOREM ProgramRecoverable == Spec => []FlashRecoverable
<1>1. FlashInv /\ FileInv => FlashRecoverable
  BY SafetyOfInv
<1>. QED
  BY <1>1, FlashSafe, PTL

\* What MSIM_AVR_SaveProgMem writes at the end of a simulation passes the check of
\* load_mem16, and words no matchpoint has touched come back as they were.
THEOREM SavedFilesLoad == Spec => []LoadsWhatWasSaved
<1>1. FlashInv /\ FileInv => LoadsWhatWasSaved
  BY SafetyOfInv
<1>. QED
  BY <1>1, FlashSafe, PTL
=============================================================================
