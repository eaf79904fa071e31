----------------------------- MODULE UsartProofs ------------------------------
(***************************************************************************)
(* The USART loses no byte unseen and sends none twice: for every buffer,  *)
(* every number of bytes, every chunk read() returns and every setting the *)
(* firmware makes while it runs.                                           *)
(*                                                                         *)
(* SentInv says what the transmitter owes: the byte that is in txb, or in  *)
(* UDR until the next tick.  PathTypes says where bytes can be, ReadOnce   *)
(* itself that each is in one place.  Neither says anything of clocks and  *)
(* baud rates: the proof is that of whatever comes in whatever tick.       *)
(*                                                                         *)
(* The tick is followed function by function, as tick_usart calls them:    *)
(* for the receiver, InOrder says that some bytes of the way go to lost    *)
(* and the others keep their order, and TakeOut that this is enough.       *)
(***************************************************************************)
EXTENDS Usart, SequenceTheorems, FiniteSetTheorems, TLAPS

Byte  == 0..255
Cells == {"UDR", "UCSRA", "UCSRB", "UBRRL", "UCSRC"}
Frames == [data : Nat, size : 0..7]
Fields == [UDR : Byte, UCSRA : Byte, UCSRB : Byte, UBRRL : Byte, UCSRC : Byte]
Clock  == [baud : Nat, rx_ticks : Nat, tx_ticks : Nat, rx_presc : Nat, tx_presc : Nat,
           txb : Byte]
Copies == [ubrrh : Byte, ucsrc : Byte, ubrrl : Byte]

UsartTypes ==
  /\ r \in Fields /\ u \in Clock /\ w \in Copies
  /\ did \in [writ : Cells \cup {"none"}, read : {"none", "UDR"}]
  /\ given \in Seq(Byte) /\ sent \in Seq(Frames)

\* Every byte given to the transmitter is in a frame, but for the last: that is in tx
\* while UDRE is clear, and in UDR in the cycle it was written.
SendInv(regs, tx, writ, frames) ==
  /\ \A i \in DOMAIN frames : frames[i].data = Masked(frames[i].size, given[i])
  /\ Bit(regs.UCSRA, UDRE) = 0 \/ writ = "UDR" =>
       Len(given) = Len(frames) + 1
  /\ Bit(regs.UCSRA, UDRE) = 0 => tx = given[Len(given)]
  /\ Bit(regs.UCSRA, UDRE) # 0 /\ writ = "UDR" => regs.UDR = given[Len(given)]
  /\ Bit(regs.UCSRA, UDRE) # 0 /\ writ # "UDR" => Len(given) = Len(frames)

SentInv == opened = "ok" => SendInv(r, u.txb, did.writ, sent)

\* What is read is freed when it is handed over, so a reader outside of its critical
\* section holds nothing.
Bytes == Seq(1..typed)
PathTypes ==
  /\ typed \in 0..Typed
  /\ thr \in [buf : Bytes, stop : BOOLEAN]
  /\ reader \in [at : {"none", "loop", "read", "lock", "done"}, buf : Bytes]
  /\ line \in Bytes /\ got \in Bytes /\ lost \in Bytes /\ dropped \in Bytes
  /\ r.UDR \in 1..Typed => r.UDR \in 1..typed
  /\ reader.at # "lock" => reader.buf = <<>>

-----------------------------------------------------------------------------
(* Sequences in order, and how often a byte is in one. *)

Increasing(s) == \A i, j \in DOMAIN s : i < j => s[i] < s[j]
Places(s, b)  == {i \in DOMAIN s : s[i] = b}
Count(s, b)   == Cardinality(Places(s, b))

LEMMA PlacesFinite ==
  ASSUME NEW T, NEW s \in Seq(T), NEW b
  PROVE  IsFiniteSet(Places(s, b)) /\ Count(s, b) \in Nat
<1>1. Places(s, b) \in SUBSET (1..Len(s)) /\ Len(s) \in Nat
  BY DEF Places
<1>2. IsFiniteSet(1..Len(s))
  BY <1>1, FS_Interval
<1>. QED
  BY <1>1, <1>2, FS_Subset, FS_CardinalityType DEF Count

LEMMA CountConcat ==
  ASSUME NEW T, NEW s \in Seq(T), NEW t \in Seq(T), NEW b
  PROVE  Count(s \o t, b) = Count(s, b) + Count(t, b)
<1>. DEFINE A == Places(s, b)
            B == Places(t, b)
            C == {i \in Places(s \o t, b) : i > Len(s)}
            f == [i \in B |-> i + Len(s)]
<1>1. /\ s \o t \in Seq(T) /\ Len(s \o t) = Len(s) + Len(t)
      /\ Len(s) \in Nat /\ Len(t) \in Nat
      /\ \A i \in 1..Len(s) + Len(t) :
           (s \o t)[i] = IF i <= Len(s) THEN s[i] ELSE t[i - Len(s)]
  BY ConcatProperties
<1>2. DOMAIN s = 1..Len(s) /\ DOMAIN t = 1..Len(t) /\ DOMAIN (s \o t) = 1..Len(s) + Len(t)
  BY <1>1
<1>3. Places(s \o t, b) = A \cup C
  BY <1>1, <1>2 DEF Places
<1>4. A \cap C = {}
  BY <1>1, <1>2 DEF Places
<1>5. f \in Bijection(B, C)
  <2>1. \A i \in B : f[i] \in C
    BY <1>1, <1>2 DEF Places
  <2>2. \A i, j \in B : f[i] = f[j] => i = j
    BY <1>1, <1>2 DEF Places
  <2>3. \A k \in C : \E i \in B : f[i] = k
    <3>. TAKE k \in C
    <3>1. k - Len(s) \in B /\ (k - Len(s)) + Len(s) = k
      BY <1>1, <1>2 DEF Places
    <3>. QED
      BY <3>1
  <2>. QED
    BY <2>1, <2>2, <2>3 DEF Bijection, Injection, Surjection, IsInjective
<1>6. IsFiniteSet(A) /\ IsFiniteSet(B) /\ Cardinality(A) \in Nat
  BY PlacesFinite DEF Count
<1>7. IsFiniteSet(C) /\ Cardinality(C) = Cardinality(B)
  BY <1>5, <1>6, FS_Bijection DEF ExistsBijection
<1>8. Cardinality(A \cup C) = Cardinality(A) + Cardinality(C) - 0
  BY <1>4, <1>6, <1>7, FS_Union, FS_EmptySet
<1>9. Cardinality(B) \in Nat
  BY <1>6, FS_CardinalityType
<1>10. /\ Count(s \o t, b) = Cardinality(A \cup C)
       /\ Count(s, b) = Cardinality(A) /\ Count(t, b) = Cardinality(B)
  BY <1>3 DEF Count
<1>. HIDE DEF A, B, C
<1>. QED
  BY <1>6, <1>7, <1>8, <1>9, <1>10

LEMMA CountEmpty == \A b : Count(<<>>, b) = 0
<1>1. \A b : Places(<<>>, b) = {}
  BY DEF Places
<1>. QED
  BY <1>1, FS_EmptySet DEF Count

LEMMA CountOne == \A a, b : Count(<<a>>, b) = IF a = b THEN 1 ELSE 0
<1>. SUFFICES ASSUME NEW a, NEW b PROVE Count(<<a>>, b) = IF a = b THEN 1 ELSE 0
  OBVIOUS
<1>1. DOMAIN <<a>> = {1} /\ <<a>>[1] = a
  OBVIOUS
<1>2. Places(<<a>>, b) = IF a = b THEN {1} ELSE {}
  BY <1>1 DEF Places
<1>. QED
  BY <1>2, FS_Singleton, FS_EmptySet DEF Count

LEMMA CountAbove ==
  ASSUME NEW n \in Nat, NEW s \in Seq(1..n)
  PROVE  Count(s, n + 1) = 0
<1>1. \A i \in DOMAIN s : s[i] \in 1..n
  BY ElementOfSeq
<1>2. Places(s, n + 1) = {}
  BY <1>1 DEF Places
<1>. QED
  BY <1>2, FS_EmptySet DEF Count

\* What is taken out of the middle of a sequence in order leaves one in order.
LEMMA IncreasingDrop ==
  ASSUME NEW T, NEW p \in Seq(T), NEW d \in Seq(T), NEW q \in Seq(T),
         Increasing((p \o d) \o q)
  PROVE  Increasing(p \o q)
<1>. DEFINE all == (p \o d) \o q
            place(i) == IF i <= Len(p) THEN i ELSE i + Len(d)
<1>1. /\ p \o d \in Seq(T) /\ Len(p \o d) = Len(p) + Len(d)
      /\ Len(p) \in Nat /\ Len(d) \in Nat /\ Len(q) \in Nat
      /\ \A i \in 1..Len(p) : (p \o d)[i] = p[i]
  BY ConcatProperties
<1>2. /\ Len(all) = Len(p) + Len(d) + Len(q) /\ all \in Seq(T)
      /\ \A i \in 1..Len(all) :
           all[i] = IF i <= Len(p) + Len(d) THEN (p \o d)[i] ELSE q[i - (Len(p) + Len(d))]
  BY <1>1, ConcatProperties
<1>3. /\ Len(p \o q) = Len(p) + Len(q) /\ p \o q \in Seq(T)
      /\ \A i \in 1..Len(p) + Len(q) :
           (p \o q)[i] = IF i <= Len(p) THEN p[i] ELSE q[i - Len(p)]
  BY <1>1, ConcatProperties
<1>4. ASSUME NEW i \in 1..Len(p) + Len(q)
      PROVE  place(i) \in 1..Len(all) /\ (p \o q)[i] = all[place(i)]
  <2>1. CASE i <= Len(p)
    BY <1>1, <1>2, <1>3, <2>1
  <2>2. CASE i > Len(p)
    <3>1. /\ place(i) \in 1..Len(all) /\ ~(place(i) <= Len(p) + Len(d))
          /\ place(i) - (Len(p) + Len(d)) = i - Len(p)
      BY <1>1, <1>2, <2>2
    <3>. HIDE DEF place, all
    <3>2. (p \o q)[i] = q[i - Len(p)]
      BY <1>1, <1>3, <2>2
    <3>3. all[place(i)] = q[place(i) - (Len(p) + Len(d))]
      BY <1>2, <3>1
    <3>. QED
      BY <3>1, <3>2, <3>3
  <2>. QED
    BY <1>1, <2>1, <2>2
<1>. SUFFICES ASSUME NEW i \in 1..Len(p) + Len(q), NEW j \in 1..Len(p) + Len(q), i < j
              PROVE  (p \o q)[i] < (p \o q)[j]
  BY <1>3 DEF Increasing
<1>5. place(i) < place(j)
  BY <1>1
<1>6. DOMAIN all = 1..Len(all)
  BY <1>2
<1>. HIDE DEF all, place
<1>7. place(i) \in DOMAIN all /\ place(j) \in DOMAIN all
  BY <1>4, <1>6
<1>8. all[place(i)] < all[place(j)]
  BY <1>5, <1>7 DEF Increasing, all
<1>. QED
  BY <1>4, <1>8

LEMMA IncreasingAppend ==
  ASSUME NEW n \in Nat, NEW s \in Seq(1..n), Increasing(s)
  PROVE  Increasing(Append(s, n + 1))
<1>1. /\ Len(Append(s, n + 1)) = Len(s) + 1 /\ Len(s) \in Nat
      /\ \A i \in 1..Len(s) : Append(s, n + 1)[i] = s[i] /\ s[i] \in 1..n
      /\ Append(s, n + 1)[Len(s) + 1] = n + 1
  OBVIOUS
<1>. QED
  BY <1>1 DEF Increasing

-----------------------------------------------------------------------------
(* The bits of a register. *)

LEMMA Powers ==
  /\ 2^0 = 1 /\ 2^1 = 2 /\ 2^2 = 4 /\ 2^3 = 8 /\ 2^4 = 16
  /\ 2^5 = 32 /\ 2^6 = 64 /\ 2^7 = 128 /\ 2^8 = 256
  OBVIOUS

LEMMA FlagType ==
  ASSUME NEW v \in Byte, NEW i \in 0..7
  PROVE  Bit(v, i) \in 0..1
<1>1. \A p \in {1, 2, 4, 8, 16, 32, 64, 128} : (v \div p) % 2 \in 0..1
  BY DEF Byte
<1>2. 2^i \in {1, 2, 4, 8, 16, 32, 64, 128}
  <2>1. CASE i = 0 BY <2>1, Powers
  <2>2. CASE i = 1 BY <2>2, Powers
  <2>3. CASE i = 2 BY <2>3, Powers
  <2>4. CASE i = 3 BY <2>4, Powers
  <2>5. CASE i = 4 BY <2>5, Powers
  <2>6. CASE i = 5 BY <2>6, Powers
  <2>7. CASE i = 6 BY <2>7, Powers
  <2>8. CASE i = 7 BY <2>8, Powers
  <2>. QED
    BY <2>1, <2>2, <2>3, <2>4, <2>5, <2>6, <2>7, <2>8
<1>. QED
  BY <1>1, <1>2 DEF Bit

LEMMA WithUdre ==
  ASSUME NEW v \in Byte, NEW b \in 0..1
  PROVE  /\ With(v, UDRE, b) \in Byte
         /\ Bit(With(v, UDRE, b), UDRE) = b
         /\ Bit(With(v, UDRE, b), RXC) = Bit(v, RXC)
  BY DEF Bit, With, UDRE, RXC, Byte

LEMMA WithRxc ==
  ASSUME NEW v \in Byte, NEW b \in 0..1
  PROVE  /\ With(v, RXC, b) \in Byte
         /\ Bit(With(v, RXC, b), RXC) = b
         /\ Bit(With(v, RXC, b), UDRE) = Bit(v, UDRE)
  BY DEF Bit, With, UDRE, RXC, Byte

LEMMA WithTxc ==
  ASSUME NEW v \in Byte, NEW b \in 0..1
  PROVE  /\ With(v, TXC, b) \in Byte
         /\ Bit(With(v, TXC, b), RXC) = Bit(v, RXC)
         /\ Bit(With(v, TXC, b), UDRE) = Bit(v, UDRE)
  BY DEF Bit, With, UDRE, RXC, TXC, Byte

LEMMA WithU2x ==
  ASSUME NEW v \in Byte, NEW b \in 0..1
  PROVE  /\ With(v, U2X, b) \in Byte
         /\ Bit(With(v, U2X, b), RXC) = Bit(v, RXC)
         /\ Bit(With(v, U2X, b), UDRE) = Bit(v, UDRE)
  BY DEF Bit, With, UDRE, RXC, U2X, Byte

LEMMA WithTxb8 ==
  ASSUME NEW v \in Byte, NEW b \in 0..1
  PROVE  With(v, TXB8, b) \in Byte
  BY DEF Bit, With, TXB8, Byte

\* A frame cuts no byte that was typed, and what it makes of a byte is one.
LEMMA MaskedByte ==
  ASSUME NEW size \in 0..7, ~Reserved(size), NEW b \in Byte
  PROVE  Masked(size, b) \in Byte /\ (b < 32 => Masked(size, b) = b)
<1>1. size = 0 \/ size = 1 \/ size = 2 \/ size = 3 \/ size = 7
  BY DEF Reserved
<1>2. \E m \in {32, 64, 128, 256} : Masked(size, b) = b % m
  <2>1. CASE size = 0 BY <2>1, Powers DEF Masked
  <2>2. CASE size = 1 BY <2>2, Powers DEF Masked
  <2>3. CASE size = 2 BY <2>3, Powers DEF Masked
  <2>4. CASE size = 3 BY <2>4, Powers DEF Masked
  <2>5. CASE size = 7 BY <2>5, Powers DEF Masked
  <2>. QED
    BY <1>1, <2>1, <2>2, <2>3, <2>4, <2>5
<1>3. \A m \in {32, 64, 128, 256} : b % m \in Byte /\ (b < 32 => b % m = b)
  BY DEF Byte
<1>. QED
  BY <1>2, <1>3

LEMMA UcszType ==
  ASSUME NEW x \in Fields, w \in Copies
  PROVE  Ucsz(x) \in 0..7
<1>1. /\ Bit(x.UCSRB, UCSZ2) \in 0..1 /\ x.UCSRC \in Byte /\ w.ucsrc \in Byte
  BY FlagType DEF Fields, Copies, UCSZ2
<1>2. \A c \in Byte, b \in 0..1 : 4 * b + ((c \div 2) % 4) \in 0..7
  BY DEF Byte
<1>. QED
  BY <1>1, <1>2 DEF Ucsz

LEMMA Products == \A a, b \in Nat : a * b \in Nat
  OBVIOUS

LEMMA BaudType ==
  ASSUME NEW x \in Fields, w \in Copies
  PROVE  Baud(x) \in Nat /\ Mult(x) \in Nat
<1>1. x.UCSRC \in Byte /\ w.ubrrh \in Byte /\ x.UBRRL \in Byte
  BY DEF Fields, Copies
<1>2. \A c \in Byte : c % 16 \in Nat
  BY DEF Byte
<1>3. \A c, l \in Byte : (c % 16) * Weight + l \in Nat
  <2>. TAKE c, l \in Byte
  <2>1. (c % 16) * Weight \in Nat
    BY <1>2, Products, UsartAssumption
  <2>2. \A n \in Nat : n + l \in Nat
    BY DEF Byte
  <2>. QED
    BY <2>1, <2>2
<1>4. Mult(x) \in Nat
  BY UsartAssumption DEF Mult
<1>. QED
  BY <1>1, <1>3, <1>4 DEF Baud

-----------------------------------------------------------------------------
(* A tick of the USART, step by step.  T holds the bytes typed. *)

TickStates(T) ==
  [r : Fields, u : Clock, in : Seq(T), out : Seq(Frames), lost : Seq(T)]

LEMMA LoadedStep ==
  ASSUME NEW T, NEW s \in TickStates(T), w \in Copies
  PROVE  /\ Loaded(s) \in TickStates(T)
         /\ Loaded(s).r = s.r /\ Loaded(s).u.txb = s.u.txb
         /\ Loaded(s).in = s.in /\ Loaded(s).out = s.out /\ Loaded(s).lost = s.lost
<1>. DEFINE b == Baud(s.r)
            m == Mult(s.r)
            clock == [s.u EXCEPT !.baud = b, !.rx_presc = b + 1, !.rx_ticks = b + 1,
                                 !.tx_presc = m * (b + 1), !.tx_ticks = m * (b + 1)]
<1>1. s.r \in Fields /\ s.u \in Clock
  BY DEF TickStates
<1>2. b \in Nat /\ m \in Nat
  BY <1>1, BaudType
<1>3. b + 1 \in Nat /\ m * (b + 1) \in Nat
  <2>. HIDE DEF b, m
  <2>1. b + 1 \in Nat
    BY <1>2
  <2>. QED
    BY <2>1, <1>2, Products
<1>4. clock \in Clock /\ clock.txb = s.u.txb
  <2>. HIDE DEF b, m
  <2>. QED
    BY <1>1, <1>2, <1>3 DEF Clock
<1>5. Loaded(s) = s \/ Loaded(s) = [s EXCEPT !.u = clock]
  BY DEF Loaded
<1>. HIDE DEF clock
<1>. QED
  BY <1>4, <1>5 DEF TickStates

LEMMA TakenStep ==
  ASSUME NEW T, NEW s \in TickStates(T)
  PROVE  /\ Taken(s) \in TickStates(T)
         /\ Taken(s).r.UDR = s.r.UDR
         /\ Bit(Taken(s).r.UCSRA, RXC) = Bit(s.r.UCSRA, RXC)
         /\ Taken(s).in = s.in /\ Taken(s).out = s.out /\ Taken(s).lost = s.lost
         /\ IF did.writ = "UDR" /\ Bit(s.r.UCSRA, UDRE) = 1
            THEN Bit(Taken(s).r.UCSRA, UDRE) = 0 /\ Taken(s).u.txb = s.r.UDR
            ELSE /\ Bit(Taken(s).r.UCSRA, UDRE) = Bit(s.r.UCSRA, UDRE)
                 /\ Taken(s).u.txb = s.u.txb
<1>. DEFINE v == With(s.r.UCSRA, UDRE, 0)
<1>1. s.r \in Fields /\ s.u \in Clock /\ s.r.UCSRA \in Byte /\ s.r.UDR \in Byte
  BY DEF TickStates, Fields
<1>2. v \in Byte /\ Bit(v, UDRE) = 0 /\ Bit(v, RXC) = Bit(s.r.UCSRA, RXC)
  BY <1>1, WithUdre
<1>. DEFINE x == [s.u EXCEPT !.txb = s.r.UDR]
            y == [s.r EXCEPT !.UCSRA = v]
            t == [s EXCEPT !.u = x, !.r = y]
<1>3. Taken(s) = IF did.writ = "UDR" /\ Bit(s.r.UCSRA, UDRE) = 1 THEN t ELSE s
  BY DEF Taken, TickStates
<1>. HIDE DEF v
<1>4. x \in Clock /\ x.txb = s.r.UDR
  BY <1>1 DEF Clock
<1>5. y \in Fields /\ y.UCSRA = v /\ y.UDR = s.r.UDR
  BY <1>1, <1>2 DEF Fields
<1>. HIDE DEF x, y
<1>6. /\ t \in TickStates(T) /\ t.u = x /\ t.r = y
      /\ t.in = s.in /\ t.out = s.out /\ t.lost = s.lost
  BY <1>4, <1>5 DEF TickStates
<1>. HIDE DEF t
<1>. QED
  BY <1>2, <1>3, <1>4, <1>5, <1>6

LEMMA ReadSeenStep ==
  ASSUME NEW T, NEW s \in TickStates(T)
  PROVE  /\ ReadSeen(s) \in TickStates(T)
         /\ ReadSeen(s).r.UDR = s.r.UDR /\ ReadSeen(s).u = s.u
         /\ Bit(ReadSeen(s).r.UCSRA, UDRE) = Bit(s.r.UCSRA, UDRE)
         /\ Bit(ReadSeen(s).r.UCSRA, RXC)
              = IF did.read = "UDR" THEN 0 ELSE Bit(s.r.UCSRA, RXC)
         /\ ReadSeen(s).in = s.in /\ ReadSeen(s).out = s.out /\ ReadSeen(s).lost = s.lost
<1>. DEFINE v == With(s.r.UCSRA, RXC, 0)
<1>1. s.r \in Fields /\ s.r.UCSRA \in Byte
  BY DEF TickStates, Fields
<1>2. v \in Byte /\ Bit(v, RXC) = 0 /\ Bit(v, UDRE) = Bit(s.r.UCSRA, UDRE)
  BY <1>1, WithRxc
<1>. DEFINE t == [s EXCEPT !.r.UCSRA = v]
<1>3. ReadSeen(s) = IF did.read = "UDR" THEN t ELSE s
  BY DEF ReadSeen
<1>. HIDE DEF v
<1>. DEFINE k == [s.r EXCEPT !.UCSRA = v]
<1>4. /\ t.r = [s.r EXCEPT !.UCSRA = v] /\ t.u = s.u
      /\ t.in = s.in /\ t.out = s.out /\ t.lost = s.lost
      /\ t = [r |-> t.r, u |-> t.u, in |-> t.in, out |-> t.out, lost |-> t.lost]
  <2>1. t = [s EXCEPT !.r = k]
    OBVIOUS
  <2>. HIDE DEF k, t
  <2>2. t = [r |-> k, u |-> s.u, in |-> s.in, out |-> s.out, lost |-> s.lost]
    BY <2>1 DEF TickStates
  <2>. QED
    BY <2>2 DEF k
<1>5. t.r \in Fields /\ t.r.UCSRA = v /\ t.r.UDR = s.r.UDR
  BY <1>1, <1>2, <1>4 DEF Fields
<1>6. t \in TickStates(T)
  BY <1>4, <1>5 DEF TickStates
<1>. HIDE DEF t
<1>. QED
  BY <1>2, <1>3, <1>4, <1>5, <1>6

-----------------------------------------------------------------------------
(* The bytes typed that the USART has: that of UDR, and those of the buffer. *)

Known(T, s) == s.r.UDR \in 1..Typed => s.r.UDR \in T
Held(s)  == IF Bit(s.r.UCSRA, RXC) = 1 /\ s.r.UDR \in 1..Typed THEN <<s.r.UDR>> ELSE <<>>
WayOf(s) == Held(s) \o s.in

\* From s to t some of them are lost, and the others stay in order.
InOrder(T, s, t) ==
  \E p, d, q \in Seq(T) : /\ WayOf(s) = (p \o d) \o q
                          /\ WayOf(t) = p \o q
                          /\ t.lost = s.lost \o d

LEMMA HeldType ==
  ASSUME NEW T, NEW s \in TickStates(T), Known(T, s)
  PROVE  Held(s) \in Seq(T) /\ WayOf(s) \in Seq(T)
<1>1. Held(s) \in Seq(T)
  BY DEF Held, Known
<1>2. s.in \in Seq(T)
  BY DEF TickStates
<1>. QED
  BY <1>1, <1>2, ConcatProperties DEF WayOf

LEMMA OrderKept ==
  ASSUME NEW T, NEW s \in TickStates(T), Known(T, s), NEW t,
         WayOf(t) = WayOf(s), t.lost = s.lost
  PROVE  InOrder(T, s, t)
<1>. DEFINE e == <<>>
<1>1. WayOf(s) \in Seq(T) /\ e \in Seq(T) /\ s.lost \in Seq(T)
  BY HeldType, EmptySeq DEF TickStates
<1>2. e \o e = e /\ e \o WayOf(s) = WayOf(s) /\ s.lost \o e = s.lost
  BY <1>1, ConcatEmptySeq
<1>3. WayOf(s) = (e \o e) \o WayOf(s) /\ WayOf(t) = e \o WayOf(s) /\ t.lost = s.lost \o e
  BY <1>2
<1>. HIDE DEF e
<1>. QED
  BY Zenon, <1>1, <1>3 DEF InOrder

\* A sequence in three parts.
LEMMA SplitAt ==
  ASSUME NEW T, NEW s \in Seq(T), NEW n \in 1..Len(s)
  PROVE  /\ SubSeq(s, 1, n) \in Seq(T) /\ SubSeq(s, 1, n) # <<>>
         /\ SubSeq(s, 1, n)[1] = s[1] /\ s[1] \in T
         /\ Tail(SubSeq(s, 1, n)) \in Seq(T)
         /\ SubSeq(s, n + 1, Len(s)) \in Seq(T)
         /\ SubSeq(s, 1, n) = <<s[1]>> \o Tail(SubSeq(s, 1, n))
         /\ s = (<<s[1]>> \o Tail(SubSeq(s, 1, n))) \o SubSeq(s, n + 1, Len(s))
<1>1. Len(s) \in Nat /\ n \in Nat /\ 1 <= n /\ n <= Len(s) /\ \A i \in 1..Len(s) : s[i] \in T
  OBVIOUS
<1>2. /\ SubSeq(s, 1, n) \in Seq(T) /\ Len(SubSeq(s, 1, n)) = n
      /\ SubSeq(s, 1, n)[1] = s[1] /\ s[1] \in T
  BY <1>1, SubSeqProperties
<1>3. SubSeq(s, 1, n) # <<>>
  BY <1>1, <1>2
<1>4. Tail(SubSeq(s, 1, n)) = SubSeq(s, 2, n)
  BY <1>1, HeadTailOfSubSeq
<1>5. SubSeq(s, 1, n) = <<s[1]>> \o SubSeq(s, 2, n)
  BY <1>1, SubSeqRecursiveFirst
<1>6. Tail(SubSeq(s, 1, n)) \in Seq(T)
  BY <1>2, <1>3, HeadTailProperties
<1>7. SubSeq(s, n + 1, Len(s)) \in Seq(T)
  BY <1>1, SubSeqProperties
<1>8. SubSeq(s, 1, n) \o SubSeq(s, n + 1, Len(s)) = SubSeq(s, 1, Len(s))
  BY <1>1, ConcatAdjacentSubSeq
<1>9. SubSeq(s, 1, Len(s)) = s
  BY SubSeqFull
<1>. QED
  BY Zenon, <1>2, <1>3, <1>4, <1>5, <1>6, <1>7, <1>8, <1>9

\* usart_receive
LEMMA ReceiveStep ==
  ASSUME NEW n \in 0..Typed, NEW s \in TickStates(1..n), Known(1..n, s), w \in Copies
  PROVE  /\ Receive(s) \in TickStates(1..n) /\ Known(1..n, Receive(s))
         /\ Bit(Receive(s).r.UCSRA, UDRE) = Bit(s.r.UCSRA, UDRE)
         /\ Receive(s).u = s.u /\ Receive(s).out = s.out
         /\ InOrder(1..n, s, Receive(s))
<1>. DEFINE T == 1..n
            size == Ucsz(s.r)
            m == IF Frame(size) < Len(s.in) THEN Frame(size) ELSE Len(s.in)
            buf == SubSeq(s.in, 1, m)
            rest == SubSeq(s.in, m + 1, Len(s.in))
<1>1. /\ s.r \in Fields /\ s.r.UCSRA \in Byte /\ s.r.UCSRB \in Byte /\ s.in \in Seq(T)
      /\ s.lost \in Seq(T)
  BY DEF TickStates, Fields
<1>2. size \in 0..7 /\ Frame(size) \in {1, 2} /\ Len(s.in) \in Nat
  BY <1>1, UcszType DEF Frame
<1>3. m \in 0..Len(s.in)
  BY <1>2
<1>4. CASE Reserved(size) \/ Bit(s.r.UCSRA, RXC) = 1 \/ opened = "nomaster"
  <2>1. Receive(s) = s
    BY <1>4 DEF Receive
  <2>. QED
    BY <2>1, OrderKept
<1>5. CASE /\ ~(Reserved(size) \/ Bit(s.r.UCSRA, RXC) = 1 \/ opened = "nomaster")
           /\ m # Frame(size)
  <2>. DEFINE t == [s EXCEPT !.in = rest, !.lost = s.lost \o buf]
  <2>1. Receive(s) = t
    BY <1>1, <1>5 DEF Receive, TickStates
  <2>2. m = Len(s.in)
    BY <1>2, <1>5
  <2>3. buf = s.in
    BY <1>1, <2>2, SubSeqFull
  <2>4. rest = <<>>
    BY <1>2, <2>2, SubSeqEmpty
  <2>5. s.lost \o s.in \in Seq(T)
    BY <1>1, ConcatProperties
  <2>6. /\ t \in TickStates(T) /\ t.r = s.r /\ t.u = s.u /\ t.out = s.out
        /\ t.in = <<>> /\ t.lost = s.lost \o s.in
    <3>1. <<>> \in Seq(T)
      BY EmptySeq
    <3>. HIDE DEF rest, buf, m, size, T
    <3>. QED
      BY <2>3, <2>4, <2>5, <3>1 DEF TickStates
  <2>7. Held(s) = <<>> /\ Held(t) = <<>>
    BY <1>5, <2>6 DEF Held
  <2>8. InOrder(T, s, t)
    <3>. DEFINE e == <<>>
    <3>1. e \in Seq(T) /\ e \o e = e /\ e \o s.in = s.in /\ s.in \o e = s.in
      BY <1>1, EmptySeq, ConcatEmptySeq
    <3>2. WayOf(s) = s.in /\ WayOf(t) = e
      BY <2>6, <2>7, <3>1 DEF WayOf
    <3>3. WayOf(s) = (e \o s.in) \o e /\ WayOf(t) = e \o e /\ t.lost = s.lost \o s.in
      BY <2>6, <3>1, <3>2
    <3>. HIDE DEF e, t, T
    <3>. QED
      BY <1>1, <3>1, <3>3 DEF InOrder
  <2>9. Known(T, t)
    BY <2>6 DEF Known
  <2>. HIDE DEF t, T, m, size
  <2>. QED
    BY <2>1, <2>6, <2>8, <2>9 DEF T
<1>6. CASE /\ ~(Reserved(size) \/ Bit(s.r.UCSRA, RXC) = 1 \/ opened = "nomaster")
           /\ m = Frame(size)
  <2>. DEFINE udr == Masked(size, buf[1])
              ninth == IF m = 2 THEN buf[2] % 2 ELSE 0
              ucsrb == With(s.r.UCSRB, TXB8, ninth)
              ucsra == With(s.r.UCSRA, RXC, 1)
              y == [s.r EXCEPT !.UDR = udr, !.UCSRB = ucsrb, !.UCSRA = ucsra]
              t == [s EXCEPT !.in = rest, !.lost = s.lost \o Tail(buf), !.r = y]
  <2>1. Receive(s) = t
    BY ZenonT(40), <1>1, <1>6 DEF Receive, TickStates
  <2>2. m \in 1..Len(s.in) /\ Len(s.in) \in Nat
    BY <1>2, <1>3, <1>6
  <2>3. /\ buf[1] = s.in[1] /\ buf[1] \in T /\ Tail(buf) \in Seq(T) /\ rest \in Seq(T)
        /\ s.in = (<<buf[1]>> \o Tail(buf)) \o rest
    <3>. HIDE DEF m, T
    <3>1. /\ SubSeq(s.in, 1, m)[1] = s.in[1] /\ s.in[1] \in T
          /\ Tail(SubSeq(s.in, 1, m)) \in Seq(T)
          /\ SubSeq(s.in, m + 1, Len(s.in)) \in Seq(T)
          /\ s.in = (<<s.in[1]>> \o Tail(SubSeq(s.in, 1, m))) \o SubSeq(s.in, m + 1, Len(s.in))
      BY <1>1, <2>2, SplitAt
    <3>. QED
      BY <3>1
  <2>4. udr = buf[1]
    <3>1. \A b \in T : b \in Byte /\ b < 32
      BY FramesAssumption, PtyAssumption DEF Byte
    <3>2. buf[1] \in Byte /\ buf[1] < 32
      BY <2>3, <3>1
    <3>. HIDE DEF buf, size, T
    <3>. QED
      BY <1>2, <1>6, <3>2, MaskedByte
  <2>5. ninth \in 0..1
    <3>1. CASE m = 2
      <4>1. buf \in Seq(T) /\ Len(buf) = m
        BY <1>1, <2>2, SubSeqProperties
      <4>2. buf[2] \in T
        <5>. HIDE DEF buf, m, T
        <5>1. 2 \in 1..Len(buf)
          BY <3>1, <4>1
        <5>. QED
          BY <4>1, <5>1, ElementOfSeq
      <4>3. \A b \in T : b % 2 \in 0..1
        OBVIOUS
      <4>. QED
        BY <4>2, <4>3
    <3>2. CASE m # 2
      BY <3>2
    <3>. QED
      BY <3>1, <3>2
  <2>6. /\ ucsrb \in Byte /\ ucsra \in Byte /\ Bit(ucsra, RXC) = 1
        /\ Bit(ucsra, UDRE) = Bit(s.r.UCSRA, UDRE)
    <3>. HIDE DEF ninth
    <3>. QED
      BY <1>1, <2>5, WithTxb8, WithRxc
  <2>7. udr \in T /\ udr \in Byte /\ udr \in 1..Typed
    <3>1. \A b \in T : b \in Byte /\ b \in 1..Typed
      BY FramesAssumption, PtyAssumption DEF Byte
    <3>. HIDE DEF udr, T
    <3>. QED
      BY <2>3, <2>4, <3>1
  <2>8. y \in Fields /\ y.UDR = udr /\ y.UCSRA = ucsra
    <3>. HIDE DEF udr, ucsrb, ucsra
    <3>. QED
      BY <1>1, <2>6, <2>7 DEF Fields
  <2>9. s.lost \o Tail(buf) \in Seq(T)
    <3>. HIDE DEF buf, T
    <3>. QED
      BY <1>1, <2>3, ConcatProperties
  <2>10. /\ t \in TickStates(T) /\ t.r = y /\ t.u = s.u /\ t.out = s.out
         /\ t.in = rest /\ t.lost = s.lost \o Tail(buf)
    <3>. HIDE DEF rest, buf, m, size, T, y
    <3>. QED
      BY <2>3, <2>8, <2>9 DEF TickStates
  <2>11. Known(T, t)
    <3>. HIDE DEF y, T, t, udr
    <3>. QED
      BY <2>7, <2>8, <2>10 DEF Known
  <2>12. Held(s) = <<>> /\ Held(t) = <<udr>>
    <3>. HIDE DEF y, T, t, udr, ucsra
    <3>. QED
      BY <1>6, <2>6, <2>7, <2>8, <2>10 DEF Held
  <2>13. InOrder(T, s, t)
    <3>. HIDE DEF t, T, buf, rest, udr
    <3>1. <<udr>> \in Seq(T) /\ <<udr>> = <<buf[1]>>
      BY <2>4, <2>7
    <3>2. WayOf(s) = s.in
      BY <1>1, <2>12, ConcatEmptySeq DEF WayOf
    <3>3. WayOf(s) = (<<udr>> \o Tail(buf)) \o rest
      BY <2>3, <3>1, <3>2
    <3>4. WayOf(t) = <<udr>> \o rest
      BY <2>10, <2>12 DEF WayOf
    <3>. QED
      BY <2>3, <2>10, <3>1, <3>3, <3>4 DEF InOrder
  <2>14. Bit(t.r.UCSRA, UDRE) = Bit(s.r.UCSRA, UDRE)
    <3>. HIDE DEF y, T, t, udr, ucsra
    <3>. QED
      BY <2>6, <2>8, <2>10
  <2>. HIDE DEF t, y, m, size
  <2>. QED
    BY <2>1, <2>10, <2>11, <2>13, <2>14
<1>. QED
  BY <1>4, <1>5, <1>6

LEMMA ReceivedStep ==
  ASSUME NEW n \in 0..Typed, NEW s \in TickStates(1..n), Known(1..n, s), w \in Copies
  PROVE  /\ Received(s) \in TickStates(1..n) /\ Known(1..n, Received(s))
         /\ Bit(Received(s).r.UCSRA, UDRE) = Bit(s.r.UCSRA, UDRE)
         /\ Received(s).u.txb = s.u.txb /\ Received(s).out = s.out
         /\ InOrder(1..n, s, Received(s))
<1>. DEFINE x == [s.u EXCEPT !.rx_ticks = Less(@)]
            c == [s EXCEPT !.u = x]
            e == Receive(c)
            z == [e.u EXCEPT !.rx_ticks = c.u.rx_presc]
            f == [e EXCEPT !.u = z]
<1>1. s.u \in Clock
  BY DEF TickStates
<1>2. x \in Clock /\ x.txb = s.u.txb
  BY <1>1 DEF Clock, Less
<1>3. /\ c \in TickStates(1..n) /\ c.r = s.r /\ c.in = s.in /\ c.out = s.out
      /\ c.lost = s.lost /\ c.u = x
  <2>. HIDE DEF x
  <2>. QED
    BY <1>2 DEF TickStates
<1>4. Received(s) = IF c.u.rx_ticks = 0 /\ Bit(c.r.UCSRB, RXEN) = 1 THEN f ELSE c
  <2>1. c = [s EXCEPT !.u.rx_ticks = Less(@)]
    BY DEF TickStates
  <2>. HIDE DEF c
  <2>2. f = [Receive(c) EXCEPT !.u.rx_ticks = c.u.rx_presc]
    BY <1>3, ReceiveStep DEF TickStates
  <2>. HIDE DEF f
  <2>. QED
    BY <2>1, <2>2 DEF Received
<1>. HIDE DEF c, x
<1>5. WayOf(c) = WayOf(s) /\ Held(c) = Held(s) /\ Known(1..n, c)
  BY <1>3 DEF WayOf, Held, Known
<1>6. InOrder(1..n, s, c)
  BY <1>3, <1>5, OrderKept
<1>7. /\ e \in TickStates(1..n) /\ Known(1..n, e)
      /\ Bit(e.r.UCSRA, UDRE) = Bit(s.r.UCSRA, UDRE)
      /\ e.u = x /\ e.out = s.out /\ InOrder(1..n, c, e)
  BY <1>3, <1>5, ReceiveStep
<1>8. z \in Clock /\ z.txb = s.u.txb
  BY <1>2, <1>3, <1>7 DEF Clock
<1>9. /\ f \in TickStates(1..n) /\ f.r = e.r /\ f.in = e.in /\ f.out = e.out
      /\ f.lost = e.lost /\ f.u = z
  <2>. HIDE DEF z, e
  <2>. QED
    BY <1>7, <1>8 DEF TickStates
<1>. HIDE DEF f, e, z
<1>10. WayOf(f) = WayOf(e) /\ Known(1..n, f)
  BY <1>7, <1>9 DEF WayOf, Held, Known
<1>11. InOrder(1..n, s, f)
  BY <1>3, <1>5, <1>7, <1>9, <1>10 DEF InOrder
<1>12. CASE Received(s) = f
  BY <1>7, <1>8, <1>9, <1>10, <1>11, <1>12
<1>13. CASE Received(s) = c
  BY <1>2, <1>3, <1>5, <1>6, <1>13
<1>. QED
  BY <1>4, <1>12, <1>13

\* What usart_transmit does to the transmitter: nothing, or it is empty afterwards and
\* its byte is in a frame.
TransmitSeen(s, t) ==
  \/ /\ Bit(t.r.UCSRA, UDRE) = Bit(s.r.UCSRA, UDRE)
     /\ t.u.txb = s.u.txb /\ t.out = s.out
  \/ /\ Bit(s.r.UCSRA, UDRE) = 0 /\ Bit(t.r.UCSRA, UDRE) = 1
     /\ opened = "ok" =>
          \E size \in 0..7 :
            t.out = Append(s.out, [data |-> Masked(size, s.u.txb), size |-> size])

LEMMA TransmittedStep ==
  ASSUME NEW T, NEW s \in TickStates(T), w \in Copies
  PROVE  /\ Transmitted(s) \in TickStates(T)
         /\ Transmitted(s).r.UDR = s.r.UDR
         /\ Bit(Transmitted(s).r.UCSRA, RXC) = Bit(s.r.UCSRA, RXC)
         /\ Transmitted(s).in = s.in /\ Transmitted(s).lost = s.lost
         /\ TransmitSeen(s, Transmitted(s))
<1>. DEFINE x == [s.u EXCEPT !.tx_ticks = Less(@)]
            c == [s EXCEPT !.u = x]
            size == Ucsz(s.r)
            frame == [data |-> Masked(size, s.u.txb), size |-> size]
            out == IF opened = "ok" THEN Append(s.out, frame) ELSE s.out
            v == With(With(s.r.UCSRA, UDRE, 1), TXC, 1)
            y == [s.r EXCEPT !.UCSRA = v]
            t == [c EXCEPT !.out = out, !.r = y]
<1>1. /\ s.u \in Clock /\ s.r \in Fields /\ s.r.UCSRA \in Byte /\ s.u.txb \in Byte
      /\ s.out \in Seq(Frames)
  BY DEF TickStates, Clock, Fields
<1>2. x \in Clock /\ x.txb = s.u.txb
  BY <1>1 DEF Clock, Less
<1>3. /\ c \in TickStates(T) /\ c.r = s.r /\ c.in = s.in /\ c.out = s.out
      /\ c.lost = s.lost /\ c.u = x
  <2>. HIDE DEF x
  <2>. QED
    BY <1>2 DEF TickStates
<1>4. \/ Transmitted(s) = c
      \/ /\ Transmitted(s) = t /\ ~Reserved(size) /\ ~(Bit(s.r.UCSRA, UDRE) = 1)
  <2>1. c = [s EXCEPT !.u.tx_ticks = Less(@)]
    BY DEF TickStates
  <2>2. Transmitted(s) = c \/ Transmitted(s) = Transmit(c)
    <3>. HIDE DEF c
    <3>. QED
      BY <2>1 DEF Transmitted
  <2>3. \/ Transmit(c) = c
        \/ /\ Transmit(c) = t /\ ~Reserved(size) /\ ~(Bit(s.r.UCSRA, UDRE) = 1)
    <3>. DEFINE t0 == [c EXCEPT !.out = IF opened = "ok"
                         THEN Append(c.out, [data |-> Masked(size, c.u.txb), size |-> size])
                         ELSE c.out,
                 !.r.UCSRA = With(With(@, UDRE, 1), TXC, 1)]
    <3>1. t0 = t
      <4>. HIDE DEF c, size, x
      <4>. QED
        BY <1>2, <1>3 DEF TickStates
    <3>2. \/ Transmit(c) = c
          \/ /\ Transmit(c) = t0 /\ ~Reserved(size) /\ ~(Bit(s.r.UCSRA, UDRE) = 1)
      <4>. HIDE DEF c
      <4>. QED
        BY <1>3 DEF Transmit
    <3>. QED
      BY <3>1, <3>2
  <2>. QED
    BY <2>2, <2>3
<1>5. CASE Transmitted(s) = c
  <2>. HIDE DEF c, x
  <2>. QED
    BY <1>2, <1>3, <1>5 DEF TransmitSeen
<1>6. CASE Transmitted(s) = t /\ ~Reserved(size) /\ ~(Bit(s.r.UCSRA, UDRE) = 1)
  <2>1. size \in 0..7
    BY <1>1, UcszType
  <2>2. frame \in Frames
    <3>. HIDE DEF size
    <3>1. Masked(size, s.u.txb) \in Byte
      BY <1>1, <1>6, <2>1, MaskedByte
    <3>2. \A b \in Byte : b \in Nat
      BY DEF Byte
    <3>. QED
      BY <2>1, <3>1, <3>2 DEF Frames
  <2>3. out \in Seq(Frames)
    <3>. HIDE DEF frame
    <3>. QED
      BY <1>1, <2>2
  <2>4. /\ v \in Byte /\ Bit(v, UDRE) = 1 /\ Bit(v, RXC) = Bit(s.r.UCSRA, RXC)
    <3>. DEFINE v1 == With(s.r.UCSRA, UDRE, 1)
    <3>1. v1 \in Byte /\ Bit(v1, UDRE) = 1 /\ Bit(v1, RXC) = Bit(s.r.UCSRA, RXC)
      BY <1>1, WithUdre
    <3>. HIDE DEF v1
    <3>2. With(v1, TXC, 1) \in Byte /\ Bit(With(v1, TXC, 1), UDRE) = Bit(v1, UDRE)
          /\ Bit(With(v1, TXC, 1), RXC) = Bit(v1, RXC)
      BY <3>1, WithTxc
    <3>. QED
      BY <3>1, <3>2 DEF v1
  <2>5. y \in Fields /\ y.UCSRA = v /\ y.UDR = s.r.UDR
    <3>. HIDE DEF v
    <3>. QED
      BY <1>1, <2>4 DEF Fields
  <2>6. /\ t \in TickStates(T) /\ t.r = y /\ t.in = s.in /\ t.lost = s.lost /\ t.out = out
    <3>. HIDE DEF c, y, out
    <3>. QED
      BY <1>3, <2>3, <2>5 DEF TickStates
  <2>7. Bit(s.r.UCSRA, UDRE) = 0
    BY <1>1, <1>6, FlagType DEF UDRE
  <2>8. opened = "ok" => t.out = Append(s.out, [data |-> Masked(size, s.u.txb), size |-> size])
    <3>. HIDE DEF t, size
    <3>. QED
      BY <2>6
  <2>. HIDE DEF t, size, y, v
  <2>. QED
    BY <1>6, <2>1, <2>4, <2>5, <2>6, <2>7, <2>8 DEF TransmitSeen
<1>. QED
  BY <1>4, <1>5, <1>6

-----------------------------------------------------------------------------
(* The whole tick. *)

LEMMA TickStep ==
  ASSUME UsartTypes, PathTypes
  PROVE  /\ Ticked \in TickStates(1..typed) /\ Known(1..typed, Ticked)
         /\ \E p, d, q \in Seq(1..typed) : /\ InUdr \o thr.buf = (p \o d) \o q
                                           /\ WayOf(Ticked) = p \o q
                                           /\ Ticked.lost = lost \o d
         /\ opened = "ok" /\ SendInv(r, u.txb, did.writ, sent) =>
              SendInv(Ticked.r, Ticked.u.txb, "none", sent \o Ticked.out)
<1>. DEFINE T  == 1..typed
            s0 == [r |-> r, u |-> u, in |-> thr.buf, out |-> <<>>, lost |-> lost]
            s1 == Loaded(s0)
            s2 == Taken(s1)
            s3 == ReadSeen(s2)
            s4 == Received(s3)
            s5 == Transmitted(s4)
<1>0. PICK n \in 0..Typed : n = typed
  BY DEF PathTypes
<1>1. w \in Copies
  BY DEF UsartTypes
<1>2. s0 \in TickStates(T)
  <2>1. <<>> \in Seq(Frames) /\ thr.buf \in Seq(T) /\ lost \in Seq(T)
    BY EmptySeq DEF PathTypes, Bytes
  <2>. HIDE DEF T
  <2>. QED
    BY <2>1 DEF TickStates, UsartTypes
<1>3. s0.r = r /\ s0.u = u /\ s0.in = thr.buf /\ s0.out = <<>> /\ s0.lost = lost
  OBVIOUS
<1>4. Ticked = s5
  BY DEF Ticked, Tick
<1>. HIDE DEF s0
<1>5. /\ s1 \in TickStates(T) /\ s1.r = r /\ s1.u.txb = u.txb
      /\ s1.in = thr.buf /\ s1.out = <<>> /\ s1.lost = lost
  <2>. HIDE DEF T
  <2>. QED
    BY <1>1, <1>2, <1>3, LoadedStep
<1>. HIDE DEF s1
<1>6. /\ s2 \in TickStates(T) /\ s2.r.UDR = r.UDR
      /\ Bit(s2.r.UCSRA, RXC) = Bit(r.UCSRA, RXC)
      /\ s2.in = thr.buf /\ s2.out = <<>> /\ s2.lost = lost
      /\ IF did.writ = "UDR" /\ Bit(r.UCSRA, UDRE) = 1
         THEN Bit(s2.r.UCSRA, UDRE) = 0 /\ s2.u.txb = r.UDR
         ELSE Bit(s2.r.UCSRA, UDRE) = Bit(r.UCSRA, UDRE) /\ s2.u.txb = u.txb
  <2>. HIDE DEF T
  <2>1. s1.r = r /\ s1.u.txb = u.txb
    BY <1>5
  <2>. QED
    BY <1>5, <2>1, TakenStep
<1>. HIDE DEF s2
<1>7. /\ s3 \in TickStates(T) /\ s3.r.UDR = r.UDR /\ s3.u = s2.u
      /\ Bit(s3.r.UCSRA, UDRE) = Bit(s2.r.UCSRA, UDRE)
      /\ Bit(s3.r.UCSRA, RXC) = IF did.read = "UDR" THEN 0 ELSE Bit(r.UCSRA, RXC)
      /\ s3.in = thr.buf /\ s3.out = <<>> /\ s3.lost = lost
  <2>. HIDE DEF T
  <2>. QED
    BY <1>6, ReadSeenStep
<1>. HIDE DEF s3
<1>8. Held(s3) = InUdr
  BY <1>7 DEF Held, InUdr
<1>9. Known(T, s3)
  BY <1>7 DEF Known, PathTypes
<1>10. /\ s4 \in TickStates(T) /\ Known(T, s4)
       /\ Bit(s4.r.UCSRA, UDRE) = Bit(s3.r.UCSRA, UDRE)
       /\ s4.u.txb = s3.u.txb /\ s4.out = <<>> /\ InOrder(T, s3, s4)
  <2>1. s3 \in TickStates(1..n) /\ Known(1..n, s3)
    BY <1>0, <1>7, <1>9
  <2>2. /\ s4 \in TickStates(1..n) /\ Known(1..n, s4)
        /\ Bit(s4.r.UCSRA, UDRE) = Bit(s3.r.UCSRA, UDRE)
        /\ s4.u.txb = s3.u.txb /\ s4.out = s3.out /\ InOrder(1..n, s3, s4)
    BY <1>1, <2>1, ReceivedStep
  <2>. QED
    BY <1>0, <1>7, <2>2
<1>. HIDE DEF s4
<1>11. /\ s5 \in TickStates(T) /\ s5.r.UDR = s4.r.UDR
       /\ Bit(s5.r.UCSRA, RXC) = Bit(s4.r.UCSRA, RXC)
       /\ s5.in = s4.in /\ s5.lost = s4.lost /\ TransmitSeen(s4, s5)
  <2>. HIDE DEF T
  <2>. QED
    BY <1>1, <1>10, TransmittedStep
<1>. HIDE DEF s5
<1>12. WayOf(s5) = WayOf(s4) /\ Known(T, s5)
  BY <1>10, <1>11 DEF WayOf, Held, Known
<1>13. \E p, d, q \in Seq(T) : /\ InUdr \o thr.buf = (p \o d) \o q
                               /\ WayOf(s5) = p \o q
                               /\ s5.lost = lost \o d
  <2>1. WayOf(s3) = InUdr \o thr.buf
    BY <1>7, <1>8 DEF WayOf
  <2>. HIDE DEF T
  <2>. QED
    BY <1>7, <1>10, <1>11, <1>12, <2>1 DEF InOrder
<1>14. ASSUME opened = "ok", SendInv(r, u.txb, did.writ, sent)
       PROVE  SendInv(s5.r, s5.u.txb, "none", sent \o s5.out)
  <2>. DEFINE before == Bit(s4.r.UCSRA, UDRE)
              byte == s4.u.txb
  <2>0. given \in Seq(Byte) /\ sent \in Seq(Frames) /\ Len(given) \in Nat /\ Len(sent) \in Nat
    BY DEF UsartTypes
  <2>1. Bit(r.UCSRA, UDRE) \in 0..1 /\ r.UCSRA \in Byte
    <3>1. r.UCSRA \in Byte
      BY DEF UsartTypes, Fields
    <3>. QED
      BY <3>1, FlagType DEF UDRE
  <2>2. /\ before \in 0..1
        /\ before = 0 => Len(given) = Len(sent) + 1 /\ byte = given[Len(given)]
        /\ before = 1 => Len(given) = Len(sent)
    BY <1>6, <1>7, <1>10, <1>14, <2>0, <2>1 DEF SendInv
  <2>3. \A i \in DOMAIN sent : sent[i].data = Masked(sent[i].size, given[i])
    BY <1>14 DEF SendInv
  <2>. HIDE DEF before, byte
  <2>4. CASE /\ Bit(s5.r.UCSRA, UDRE) = before /\ s5.u.txb = byte /\ s5.out = <<>>
    <3>1. sent \o s5.out = sent
      BY <2>0, <2>4, ConcatEmptySeq
    <3>. QED
      BY <2>2, <2>3, <2>4, <3>1 DEF SendInv
  <2>5. ASSUME before = 0, Bit(s5.r.UCSRA, UDRE) = 1, NEW size \in 0..7,
               s5.out = Append(<<>>, [data |-> Masked(size, byte), size |-> size])
        PROVE  SendInv(s5.r, s5.u.txb, "none", sent \o s5.out)
    <3>. DEFINE f == [data |-> Masked(size, byte), size |-> size]
    <3>1. s5.out = <<f>>
      BY <2>5
    <3>2. f.data = Masked(f.size, byte)
      OBVIOUS
    <3>3. s5.out \in Seq(Frames)
      BY <1>11 DEF TickStates
    <3>. HIDE DEF f
    <3>4. /\ Len(sent \o s5.out) = Len(sent) + 1 /\ sent \o s5.out \in Seq(Frames)
          /\ \A i \in 1..Len(sent) : (sent \o s5.out)[i] = sent[i]
          /\ (sent \o s5.out)[Len(sent) + 1] = f
      BY <2>0, <3>1, <3>3, ConcatProperties
    <3>5. Len(given) = Len(sent) + 1 /\ byte = given[Len(given)]
      BY <2>2, <2>5
    <3>6. \A i \in 1..Len(sent) + 1 :
             (sent \o s5.out)[i].data = Masked((sent \o s5.out)[i].size, given[i])
      <4>. TAKE i \in 1..Len(sent) + 1
      <4>1. CASE i \in 1..Len(sent)
        BY <2>0, <2>3, <3>4, <4>1
      <4>2. CASE i = Len(sent) + 1
        BY <3>2, <3>4, <3>5, <4>2
      <4>3. Len(sent) \in Nat /\ i \in 1..Len(sent) + 1
        BY <2>0
      <4>4. i \in 1..Len(sent) \/ i = Len(sent) + 1
        BY <4>3
      <4>. QED
        BY <4>1, <4>2, <4>4
    <3>7. DOMAIN (sent \o s5.out) = 1..Len(sent) + 1
      BY <3>4
    <3>. QED
      BY <2>5, <3>4, <3>5, <3>6, <3>7 DEF SendInv
  <2>6. \/ /\ Bit(s5.r.UCSRA, UDRE) = before /\ s5.u.txb = byte /\ s5.out = <<>>
        \/ /\ before = 0 /\ Bit(s5.r.UCSRA, UDRE) = 1
           /\ \E size \in 0..7 :
                s5.out = Append(<<>>, [data |-> Masked(size, byte), size |-> size])
    BY <1>10, <1>11, <1>14 DEF TransmitSeen, before, byte
  <2>. QED
    BY <2>4, <2>5, <2>6
<1>. QED
  BY <1>4, <1>11, <1>12, <1>13, <1>14

-----------------------------------------------------------------------------
(* Every byte typed is in one place: on its way, lost by the USART, or dropped by the *)
(* reader.                                                                            *)

OnceIn(n, way, l, d) ==
  /\ Increasing(way)
  /\ \A b \in 1..n : Count(way, b) + Count(l, b) + Count(d, b) = 1

LEMMA ReadOnceIsOnceIn == ReadOnce <=> OnceIn(typed, OnTheWay, lost, dropped)
  BY DEF ReadOnce, OnceIn, Increasing, Count, Places

\* Sequences joined in one grouping and in another.
ThreeGroup(a, b, c)      == (a \o b) \o c = a \o (b \o c)
FourGroup(a, b, c, d)    == (a \o (b \o c)) \o d = (a \o b) \o (c \o d)
FiveGroup(a, b, c, d, e) == /\ (a \o ((b \o c) \o d)) \o e = ((a \o b) \o c) \o (d \o e)
                            /\ (((a \o b) \o c) \o d) \o e = (a \o (b \o c)) \o (d \o e)

LEMMA Associative ==
  ASSUME NEW T, NEW a \in Seq(T), NEW b \in Seq(T), NEW c \in Seq(T)
  PROVE  ThreeGroup(a, b, c)
  BY ConcatAssociative DEF ThreeGroup

LEMMA Groups ==
  ASSUME NEW T, NEW a \in Seq(T), NEW b \in Seq(T), NEW c \in Seq(T), NEW d \in Seq(T),
         NEW e \in Seq(T)
  PROVE  ThreeGroup(a, b, c) /\ FourGroup(a, b, c, d) /\ FiveGroup(a, b, c, d, e)
<1>1. ASSUME NEW x \in Seq(T), NEW y \in Seq(T), NEW z \in Seq(T) PROVE ThreeGroup(x, y, z)
  BY Associative
<1>2. ASSUME NEW x \in Seq(T), NEW y \in Seq(T) PROVE x \o y \in Seq(T)
  BY ConcatProperties
<1>3. ASSUME NEW x \in Seq(T), NEW y \in Seq(T), NEW z \in Seq(T), NEW v \in Seq(T)
      PROVE  FourGroup(x, y, z, v)
  <2>1. x \o y \in Seq(T)
    BY <1>2
  <2>2. ThreeGroup(x, y, z) /\ ThreeGroup(x \o y, z, v)
    BY <1>1, <2>1
  <2>. QED
    BY <2>2 DEF ThreeGroup, FourGroup
<1>4. a \o b \in Seq(T) /\ b \o c \in Seq(T) /\ (a \o b) \o c \in Seq(T)
  BY <1>2
<1>5. ThreeGroup(a, b, c) /\ ThreeGroup((a \o b) \o c, d, e) /\ FourGroup(a, b \o c, d, e)
  BY <1>1, <1>3, <1>4
<1>6. FiveGroup(a, b, c, d, e)
  BY <1>5 DEF ThreeGroup, FourGroup, FiveGroup
<1>. QED
  BY <1>3, <1>5, <1>6

\* Bytes taken out of the middle of the way into one of the other places.
LEMMA TakeOut ==
  ASSUME NEW T, NEW n, NEW a \in Seq(T), NEW p \in Seq(T), NEW d \in Seq(T), NEW q \in Seq(T),
         NEW z \in Seq(T), NEW l \in Seq(T), NEW x \in Seq(T)
  PROVE  /\ OnceIn(n, (a \o ((p \o d) \o q)) \o z, l, x) => OnceIn(n, (a \o (p \o q)) \o z, l \o d, x)
         /\ OnceIn(n, (a \o ((p \o d) \o q)) \o z, x, l) => OnceIn(n, (a \o (p \o q)) \o z, x, l \o d)
<1>. DEFINE all == (a \o ((p \o d) \o q)) \o z
            fewer == (a \o (p \o q)) \o z
            ap == a \o p
            qz == q \o z
<1>1. /\ ap \in Seq(T) /\ qz \in Seq(T) /\ p \o d \in Seq(T) /\ p \o q \in Seq(T)
      /\ d \o q \in Seq(T)
  BY ConcatProperties
<1>2. /\ ap \o d \in Seq(T) /\ a \o (p \o d) \in Seq(T) /\ ap \o qz \in Seq(T)
      /\ (ap \o d) \o qz \in Seq(T)
  BY <1>1, ConcatProperties
<1>3. all = (ap \o d) \o qz
  <2>1. FiveGroup(a, p, d, q, z)
    BY Groups
  <2>. QED
    BY <2>1 DEF FiveGroup
<1>4. fewer = ap \o qz
  <2>1. FourGroup(a, p, q, z)
    BY Groups
  <2>. QED
    BY <2>1 DEF FourGroup
<1>. HIDE DEF all, fewer, ap, qz
<1>5. Increasing(all) => Increasing(fewer)
  BY <1>1, <1>3, <1>4, IncreasingDrop
<1>6. ASSUME NEW b
      PROVE  /\ Count(all, b) = Count(fewer, b) + Count(d, b)
             /\ Count(l \o d, b) = Count(l, b) + Count(d, b)
             /\ Count(fewer, b) \in Nat /\ Count(d, b) \in Nat /\ Count(l, b) \in Nat
             /\ Count(x, b) \in Nat
  <2>1. Count(all, b) = Count(ap \o d, b) + Count(qz, b)
    BY <1>1, <1>2, <1>3, CountConcat
  <2>2. Count(ap \o d, b) = Count(ap, b) + Count(d, b)
    BY <1>1, CountConcat
  <2>3. Count(fewer, b) = Count(ap, b) + Count(qz, b)
    BY <1>1, <1>4, CountConcat
  <2>4. Count(l \o d, b) = Count(l, b) + Count(d, b)
    BY CountConcat
  <2>5. /\ Count(ap, b) \in Nat /\ Count(qz, b) \in Nat /\ Count(d, b) \in Nat
        /\ Count(l, b) \in Nat /\ Count(x, b) \in Nat
    BY <1>1, PlacesFinite
  <2>. QED
    BY <2>1, <2>2, <2>3, <2>4, <2>5
<1>7. ASSUME OnceIn(n, all, l, x) PROVE OnceIn(n, fewer, l \o d, x)
  <2>1. ASSUME NEW b \in 1..n PROVE Count(fewer, b) + Count(l \o d, b) + Count(x, b) = 1
    BY <1>6, <1>7 DEF OnceIn
  <2>. QED
    BY <1>5, <1>7, <2>1 DEF OnceIn
<1>8. ASSUME OnceIn(n, all, x, l) PROVE OnceIn(n, fewer, x, l \o d)
  <2>1. ASSUME NEW b \in 1..n PROVE Count(fewer, b) + Count(x, b) + Count(l \o d, b) = 1
    BY <1>6, <1>8 DEF OnceIn
  <2>. QED
    BY <1>5, <1>8, <2>1 DEF OnceIn
<1>. QED
  BY <1>7, <1>8 DEF all, fewer

\* One more byte is typed.
LEMMA OneMore ==
  ASSUME NEW n \in Nat, NEW way \in Seq(1..n), NEW l \in Seq(1..n), NEW d \in Seq(1..n),
         OnceIn(n, way, l, d)
  PROVE  OnceIn(n + 1, Append(way, n + 1), l, d)
<1>1. Increasing(Append(way, n + 1))
  BY IncreasingAppend DEF OnceIn
<1>2. way \in Seq(1..n+1) /\ Append(way, n + 1) = way \o <<n + 1>> /\ <<n + 1>> \in Seq(1..n+1)
  BY AppendIsConcat
<1>3. ASSUME NEW b
      PROVE  Count(Append(way, n + 1), b) = Count(way, b) + (IF n + 1 = b THEN 1 ELSE 0)
  <2>1. Count(way \o <<n + 1>>, b) = Count(way, b) + Count(<<n + 1>>, b)
    BY <1>2, CountConcat
  <2>. QED
    BY <1>2, <2>1, CountOne
<1>4. Count(way, n + 1) = 0 /\ Count(l, n + 1) = 0 /\ Count(d, n + 1) = 0
  BY CountAbove
<1>5. ASSUME NEW b \in 1..n+1 PROVE Count(Append(way, n + 1), b) + Count(l, b) + Count(d, b) = 1
  <2>1. CASE b = n + 1
    BY <1>3, <1>4, <2>1
  <2>2. CASE b \in 1..n
    <3>1. Count(way, b) \in Nat /\ Count(l, b) \in Nat /\ Count(d, b) \in Nat
      BY PlacesFinite
    <3>2. Count(way, b) + Count(l, b) + Count(d, b) = 1
      BY <2>2 DEF OnceIn
    <3>3. Count(Append(way, n + 1), b) = Count(way, b) + (IF n + 1 = b THEN 1 ELSE 0)
      BY <1>3
    <3>4. n + 1 # b
      BY <2>2
    <3>. QED
      BY <3>1, <3>2, <3>3, <3>4
  <2>. QED
    BY <2>1, <2>2
<1>. QED
  BY <1>1, <1>5 DEF OnceIn

InvPath == UsartTypes /\ PathTypes /\ ReadOnce

\* The way in two parts, around what the reader does.
LEMMA WayTypes ==
  ASSUME InvPath
  PROVE  /\ InUdr \in Bytes /\ thr.buf \in Bytes /\ reader.buf \in Bytes /\ line \in Bytes
         /\ got \in Bytes /\ lost \in Bytes /\ dropped \in Bytes
         /\ reader.buf \o line \in Bytes /\ OnTheWay \in Bytes
         /\ OnTheWay = (got \o (InUdr \o thr.buf)) \o (reader.buf \o line)
<1>1. InUdr \in Bytes
  <2>1. r.UDR \in 1..Typed => <<r.UDR>> \in Bytes
    BY DEF InvPath, PathTypes, Bytes
  <2>2. <<>> \in Bytes
    BY EmptySeq DEF Bytes
  <2>. QED
    BY <2>1, <2>2 DEF InUdr
<1>2. /\ thr.buf \in Bytes /\ reader.buf \in Bytes /\ line \in Bytes
      /\ got \in Bytes /\ lost \in Bytes /\ dropped \in Bytes
  BY DEF InvPath, PathTypes
<1>. USE DEF Bytes
<1>3. got \o InUdr \in Bytes /\ reader.buf \o line \in Bytes
  BY <1>1, <1>2, ConcatProperties
<1>4. (got \o InUdr) \o thr.buf \in Bytes
  BY <1>2, <1>3, ConcatProperties
<1>5. ((got \o InUdr) \o thr.buf) \o reader.buf \in Bytes
  BY <1>2, <1>4, ConcatProperties
<1>6. OnTheWay \in Bytes
  BY <1>2, <1>5, ConcatProperties DEF OnTheWay
<1>7. OnTheWay = (got \o (InUdr \o thr.buf)) \o (reader.buf \o line)
  <2>. DEFINE T == 1..typed
              udr == InUdr
              in == thr.buf
              more == reader.buf
  <2>1. udr \in Seq(T) /\ in \in Seq(T) /\ more \in Seq(T) /\ line \in Seq(T) /\ got \in Seq(T)
    BY <1>1, <1>2
  <2>2. OnTheWay = (((got \o udr) \o in) \o more) \o line
    BY DEF OnTheWay
  <2>. HIDE DEF T, udr, in, more
  <2>3. (((got \o udr) \o in) \o more) \o line = (got \o (udr \o in)) \o (more \o line)
    <3>1. FiveGroup(got, udr, in, more, line)
      BY <2>1, Groups
    <3>. QED
      BY <3>1 DEF FiveGroup
  <2>. QED
    BY <2>2, <2>3 DEF udr, in, more
<1>. QED
  BY <1>1, <1>2, <1>3, <1>6, <1>7

LEMMA ReadOnceNext ==
  ASSUME NEW T, InUdr' \in Seq(T), thr'.buf \in Seq(T), reader'.buf \in Seq(T),
         line' \in Seq(T), got' \in Seq(T),
         OnceIn(typed', (got' \o (InUdr' \o thr'.buf)) \o (reader'.buf \o line'), lost', dropped')
  PROVE  ReadOnce'
<1>. DEFINE udr == InUdr'
            in == thr'.buf
            more == reader'.buf
            way == (((got' \o udr) \o in) \o more) \o line'
<1>1. FiveGroup(got', udr, in, more, line')
  <2>. HIDE DEF udr, in, more
  <2>1. udr \in Seq(T) /\ in \in Seq(T) /\ more \in Seq(T)
    BY DEF udr, in, more
  <2>. QED
    BY <2>1, Groups
<1>2. way = (got' \o (udr \o in)) \o (more \o line')
  <2>. HIDE DEF udr, in, more
  <2>. QED
    BY <1>1 DEF FiveGroup
<1>3. OnTheWay' = way
  BY DEF OnTheWay
<1>4. OnceIn(typed', OnTheWay', lost', dropped')
  <2>. HIDE DEF way
  <2>. QED
    BY <1>2, <1>3
<1>. QED
  BY <1>4 DEF ReadOnce, OnceIn, Increasing, Count, Places

\* The bytes after a tick, before the firmware does anything.
LEMMA TickOnce ==
  ASSUME InvPath
  PROVE  /\ OnceIn(typed, (got \o WayOf(Ticked)) \o (reader.buf \o line), Ticked.lost, dropped)
         /\ Ticked.lost \in Bytes /\ Ticked.in \in Bytes /\ Held(Ticked) \in Bytes
<1>1. PICK p \in Bytes, d \in Bytes, q \in Bytes :
        /\ InUdr \o thr.buf = (p \o d) \o q
        /\ WayOf(Ticked) = p \o q
        /\ Ticked.lost = lost \o d
  BY TickStep DEF InvPath, Bytes
<1>2. OnceIn(typed, OnTheWay, lost, dropped)
  BY ReadOnceIsOnceIn DEF InvPath
<1>3. OnceIn(typed, (got \o ((p \o d) \o q)) \o (reader.buf \o line), lost, dropped)
  BY <1>1, <1>2, WayTypes
<1>4. OnceIn(typed, (got \o (p \o q)) \o (reader.buf \o line), lost \o d, dropped)
  <2>. DEFINE z == reader.buf \o line
              T == 1..typed
  <2>1. z \in Seq(T) /\ p \in Seq(T) /\ d \in Seq(T) /\ q \in Seq(T) /\ got \in Seq(T)
        /\ lost \in Seq(T) /\ dropped \in Seq(T)
    BY <1>1, WayTypes DEF Bytes
  <2>2. OnceIn(typed, (got \o ((p \o d) \o q)) \o z, lost, dropped)
    BY <1>3
  <2>. HIDE DEF z, T
  <2>3. OnceIn(typed, (got \o (p \o q)) \o z, lost \o d, dropped)
    BY <2>1, <2>2, TakeOut
  <2>. QED
    BY <2>3 DEF z
<1>5. Ticked \in TickStates(1..typed) /\ Known(1..typed, Ticked)
  BY TickStep DEF InvPath
<1>6. Ticked.lost \in Bytes /\ Ticked.in \in Bytes
  BY <1>5 DEF TickStates, Bytes
<1>7. Held(Ticked) \in Bytes
  BY <1>5, HeldType DEF Bytes
<1>. QED
  BY <1>1, <1>4, <1>6, <1>7

\* What every cycle of the simulation leaves alone, and what it sets.
LEMMA CycleTypes ==
  ASSUME InvPath, NEW regs \in Fields, NEW op \in [writ : Cells \cup {"none"}, read : {"none", "UDR"}],
         Cycle(Ticked, regs, op)
  PROVE  /\ r' \in Fields /\ u' \in Clock /\ w' \in Copies
         /\ did' \in [writ : Cells \cup {"none"}, read : {"none", "UDR"}]
         /\ sent' \in Seq(Frames)
         /\ thr' \in [buf : Bytes, stop : BOOLEAN] /\ thr'.buf = Ticked.in
         /\ r' = regs /\ did' = op
         /\ typed' = typed /\ line' = line /\ reader' = reader /\ dropped' = dropped
         /\ opened' = opened /\ u' = Ticked.u /\ sent' = sent \o Ticked.out
<1>1. Ticked \in TickStates(1..typed)
  BY TickStep DEF InvPath
<1>2. /\ Ticked.r \in Fields /\ Ticked.u \in Clock /\ Ticked.in \in Bytes
      /\ Ticked.out \in Seq(Frames)
  BY <1>1 DEF TickStates, Bytes
<1>3. Watched(Ticked.r) \in Copies
  BY <1>2 DEF Watched, Copies, Fields, InvPath, UsartTypes
<1>4. sent \o Ticked.out \in Seq(Frames)
  BY <1>2, ConcatProperties DEF InvPath, UsartTypes
<1>5. /\ [thr EXCEPT !.buf = Ticked.in] \in [buf : Bytes, stop : BOOLEAN]
      /\ [thr EXCEPT !.buf = Ticked.in].buf = Ticked.in
  BY <1>2 DEF InvPath, PathTypes
<1>. QED
  BY <1>2, <1>3, <1>4, <1>5 DEF Cycle

\* A cycle in which the firmware leaves UDR alone: the byte in it stays.
LEMMA QuietPath ==
  ASSUME InvPath, NEW regs \in Fields, NEW op \in [writ : Cells \cup {"none"}, read : {"none", "UDR"}],
         Cycle(Ticked, regs, op), op.read = "none", regs.UDR = Ticked.r.UDR,
         Bit(regs.UCSRA, RXC) = Bit(Ticked.r.UCSRA, RXC),
         got' = got, lost' = Ticked.lost, given' = given
  PROVE  InvPath'
<1>1. /\ r' \in Fields /\ u' \in Clock /\ w' \in Copies
      /\ did' \in [writ : Cells \cup {"none"}, read : {"none", "UDR"}]
      /\ sent' \in Seq(Frames)
      /\ thr' \in [buf : Bytes, stop : BOOLEAN] /\ thr'.buf = Ticked.in
      /\ r' = regs /\ did' = op
      /\ typed' = typed /\ line' = line /\ reader' = reader /\ dropped' = dropped
  BY CycleTypes
<1>2. Known(1..typed, Ticked)
  BY TickStep DEF InvPath
<1>3. /\ OnceIn(typed, (got \o WayOf(Ticked)) \o (reader.buf \o line), Ticked.lost, dropped)
      /\ Ticked.lost \in Bytes /\ Ticked.in \in Bytes /\ Held(Ticked) \in Bytes
  BY TickOnce
<1>4. InUdr' = Held(Ticked)
  BY <1>1 DEF InUdr, Held
<1>5. UsartTypes'
  BY <1>1 DEF InvPath, UsartTypes
<1>6. PathTypes'
  BY <1>1, <1>2, <1>3 DEF InvPath, PathTypes, Known, Bytes
<1>7. OnceIn(typed', (got' \o (InUdr' \o thr'.buf)) \o (reader'.buf \o line'), lost', dropped')
  BY <1>1, <1>3, <1>4 DEF WayOf
<1>8. InUdr' \in Bytes /\ thr'.buf \in Bytes /\ reader'.buf \in Bytes /\ line' \in Bytes /\ got' \in Bytes
  BY <1>1, <1>3, <1>4, WayTypes
<1>9. ReadOnce'
  BY <1>7, <1>8, ReadOnceNext DEF Bytes
<1>. QED
  BY <1>5, <1>6, <1>9 DEF InvPath

\* The firmware reads UDR: the byte in it is delivered, if there is one.
LEMMA ReadUdrPath ==
  ASSUME InvPath, ReadUdr
  PROVE  InvPath'
<1>. DEFINE op == [writ |-> "none", read |-> "UDR"]
<1>0. /\ Cycle(Ticked, Ticked.r, op) /\ lost' = Ticked.lost /\ given' = given
      /\ got' = IF Bit(Ticked.r.UCSRA, RXC) = 1 /\ Ticked.r.UDR \in 1..Typed
                THEN Append(got, Ticked.r.UDR) ELSE got
  BY DEF ReadUdr
<1>1. Ticked \in TickStates(1..typed) /\ Known(1..typed, Ticked)
  BY TickStep DEF InvPath
<1>2. Ticked.r \in Fields
  BY <1>1 DEF TickStates
<1>3. op \in [writ : Cells \cup {"none"}, read : {"none", "UDR"}] /\ op.read = "UDR"
  OBVIOUS
<1>. HIDE DEF op
<1>4. /\ r' \in Fields /\ u' \in Clock /\ w' \in Copies
      /\ did' \in [writ : Cells \cup {"none"}, read : {"none", "UDR"}]
      /\ sent' \in Seq(Frames)
      /\ thr' \in [buf : Bytes, stop : BOOLEAN] /\ thr'.buf = Ticked.in
      /\ r' = Ticked.r /\ did' = op
      /\ typed' = typed /\ line' = line /\ reader' = reader /\ dropped' = dropped
  BY <1>0, <1>2, <1>3, CycleTypes
<1>5. /\ OnceIn(typed, (got \o WayOf(Ticked)) \o (reader.buf \o line), Ticked.lost, dropped)
      /\ Ticked.lost \in Bytes /\ Ticked.in \in Bytes /\ Held(Ticked) \in Bytes
  BY TickOnce
<1>6. InUdr' = <<>>
  BY <1>3, <1>4 DEF InUdr
<1>7. got \in Bytes /\ reader.buf \o line \in Bytes
  BY WayTypes
<1>8. got' = got \o Held(Ticked) /\ got' \in Bytes
  <2>1. CASE Bit(Ticked.r.UCSRA, RXC) = 1 /\ Ticked.r.UDR \in 1..Typed
    <3>1. Ticked.r.UDR \in 1..typed /\ Held(Ticked) = <<Ticked.r.UDR>>
      BY <1>1, <2>1 DEF Known, Held
    <3>. QED
      BY <1>0, <1>7, <2>1, <3>1, AppendIsConcat, AppendProperties DEF Bytes
  <2>2. CASE ~(Bit(Ticked.r.UCSRA, RXC) = 1 /\ Ticked.r.UDR \in 1..Typed)
    <3>1. Held(Ticked) = <<>>
      BY <2>2 DEF Held
    <3>. QED
      BY <1>0, <1>7, <2>2, <3>1, ConcatEmptySeq DEF Bytes
  <2>. QED
    BY <2>1, <2>2
<1>9. OnceIn(typed', (got' \o (InUdr' \o thr'.buf)) \o (reader'.buf \o line'), lost', dropped')
  <2>. DEFINE z == reader.buf \o line
              h == Held(Ticked)
              in == Ticked.in
              T == 1..typed
  <2>1. /\ z \in Seq(T) /\ h \in Seq(T) /\ in \in Seq(T) /\ got \in Seq(T)
        /\ WayOf(Ticked) = h \o in
    BY <1>5, <1>7 DEF Bytes, WayOf
  <2>2. InUdr' \o thr'.buf = in
    BY <1>4, <1>5, <1>6, ConcatEmptySeq DEF Bytes
  <2>3. reader'.buf \o line' = z
    BY <1>4
  <2>. HIDE DEF z, h, in, T
  <2>4. FourGroup(got, h, in, z) /\ FourGroup(got, h, in, z) /\ ThreeGroup(got, h, in)
    BY <2>1, Groups, Associative
  <2>5. (got \o h) \o in = got \o (h \o in)
    BY <2>4 DEF ThreeGroup
  <2>6. (got' \o (InUdr' \o thr'.buf)) \o (reader'.buf \o line')
          = (got \o WayOf(Ticked)) \o z
    BY <1>8, <2>1, <2>2, <2>3, <2>5 DEF h
  <2>. QED
    BY <1>0, <1>4, <1>5, <2>6 DEF z
<1>10. UsartTypes'
  BY <1>0, <1>4 DEF InvPath, UsartTypes
<1>11. PathTypes'
  BY <1>0, <1>1, <1>4, <1>5, <1>8 DEF InvPath, PathTypes, Known, Bytes
<1>12. InUdr' \in Bytes
  BY <1>6, EmptySeq DEF Bytes
<1>13. thr'.buf \in Bytes /\ reader'.buf \in Bytes /\ line' \in Bytes
  BY <1>4, <1>5, WayTypes
<1>14. ReadOnce'
  BY <1>8, <1>9, <1>12, <1>13, ReadOnceNext DEF Bytes
<1>. QED
  BY <1>10, <1>11, <1>14 DEF InvPath

\* The firmware writes UDR: a byte received that it has not read is lost.
LEMMA WriteUdrPath ==
  ASSUME InvPath, WriteUdr
  PROVE  InvPath'
<1>. DEFINE op == [writ |-> "UDR", read |-> "none"]
            b == Typed + Len(given) + 1
            y == [Ticked.r EXCEPT !.UDR = b]
<1>0. /\ Len(given) < UdrWrites /\ Cycle(Ticked, y, op) /\ got' = got
      /\ given' = given \/ given' = Append(given, b)
      /\ lost' = IF Bit(Ticked.r.UCSRA, RXC) = 1 /\ Ticked.r.UDR \in 1..Typed
                 THEN Append(Ticked.lost, Ticked.r.UDR) ELSE Ticked.lost
  BY DEF WriteUdr
<1>1. Ticked \in TickStates(1..typed) /\ Known(1..typed, Ticked)
  BY TickStep DEF InvPath
<1>2. b \in Byte /\ b > Typed
  <2>1. Len(given) \in Nat
    BY DEF InvPath, UsartTypes
  <2>2. Len(given) < UdrWrites
    BY <1>0
  <2>3. Typed \in Nat /\ UdrWrites \in Nat /\ Typed + UdrWrites < 256
    BY UsartAssumption, PtyAssumption
  <2>4. \A g, t, m \in Nat : g < m /\ t + m < 256 => t + g + 1 \in 0..255 /\ t + g + 1 > t
    OBVIOUS
  <2>. QED
    BY <2>1, <2>2, <2>3, <2>4 DEF Byte
<1>3. op \in [writ : Cells \cup {"none"}, read : {"none", "UDR"}]
  BY DEF Cells
<1>. HIDE DEF op, b
<1>16. y \in Fields /\ y.UDR = b
  BY <1>1, <1>2 DEF TickStates, Fields
<1>. HIDE DEF y
<1>4. /\ r' \in Fields /\ u' \in Clock /\ w' \in Copies
      /\ did' \in [writ : Cells \cup {"none"}, read : {"none", "UDR"}]
      /\ sent' \in Seq(Frames)
      /\ thr' \in [buf : Bytes, stop : BOOLEAN] /\ thr'.buf = Ticked.in
      /\ r' = y /\ did' = op
      /\ typed' = typed /\ line' = line /\ reader' = reader /\ dropped' = dropped
  BY <1>0, <1>3, <1>16, CycleTypes
<1>5. /\ OnceIn(typed, (got \o WayOf(Ticked)) \o (reader.buf \o line), Ticked.lost, dropped)
      /\ Ticked.lost \in Bytes /\ Ticked.in \in Bytes /\ Held(Ticked) \in Bytes
  BY TickOnce
<1>17. ~(b \in 1..Typed)
  BY <1>2, PtyAssumption DEF Byte
<1>6. InUdr' = <<>>
  BY <1>4, <1>16, <1>17 DEF InUdr
<1>7. got \in Bytes /\ reader.buf \o line \in Bytes /\ dropped \in Bytes
  BY WayTypes
<1>8. lost' = Ticked.lost \o Held(Ticked) /\ lost' \in Bytes
  <2>1. CASE Bit(Ticked.r.UCSRA, RXC) = 1 /\ Ticked.r.UDR \in 1..Typed
    <3>1. Ticked.r.UDR \in 1..typed /\ Held(Ticked) = <<Ticked.r.UDR>>
      BY <1>1, <2>1 DEF Known, Held
    <3>2. lost' = Append(Ticked.lost, Ticked.r.UDR)
      BY <1>0, <2>1
    <3>3. Ticked.lost \in Seq(1..typed)
      BY <1>5 DEF Bytes
    <3>4. Append(Ticked.lost, Ticked.r.UDR) = Ticked.lost \o <<Ticked.r.UDR>>
      BY <3>1, <3>3, AppendIsConcat
    <3>5. Append(Ticked.lost, Ticked.r.UDR) \in Seq(1..typed)
      BY <3>1, <3>3, AppendProperties
    <3>. QED
      BY <3>1, <3>2, <3>4, <3>5 DEF Bytes
  <2>2. CASE ~(Bit(Ticked.r.UCSRA, RXC) = 1 /\ Ticked.r.UDR \in 1..Typed)
    <3>1. Held(Ticked) = <<>> /\ lost' = Ticked.lost
      BY <1>0, <2>2 DEF Held
    <3>. QED
      BY <1>5, <3>1, ConcatEmptySeq DEF Bytes
  <2>. QED
    BY <2>1, <2>2
<1>9. OnceIn(typed', (got' \o (InUdr' \o thr'.buf)) \o (reader'.buf \o line'), lost', dropped')
  <2>. DEFINE z == reader.buf \o line
              h == Held(Ticked)
              in == Ticked.in
              l == Ticked.lost
              T == 1..typed
              e == <<>>
  <2>1. /\ z \in Seq(T) /\ h \in Seq(T) /\ in \in Seq(T) /\ got \in Seq(T) /\ l \in Seq(T)
        /\ dropped \in Seq(T) /\ e \in Seq(T)
        /\ WayOf(Ticked) = h \o in
    BY <1>5, <1>7, EmptySeq DEF Bytes, WayOf
  <2>2. InUdr' \o thr'.buf = e \o in
    BY <1>4, <1>6
  <2>3. reader'.buf \o line' = z
    BY <1>4
  <2>4. e \o h = h
    BY <2>1, ConcatEmptySeq
  <2>. HIDE DEF z, h, in, T, l, e
  <2>5. OnceIn(typed, (got \o ((e \o h) \o in)) \o z, l, dropped)
    BY <1>5, <2>1, <2>4 DEF z, l
  <2>6. OnceIn(typed, (got \o (e \o in)) \o z, l \o h, dropped)
    BY <2>1, <2>5, TakeOut
  <2>. QED
    BY <1>0, <1>4, <1>8, <2>2, <2>3, <2>6 DEF l, h
<1>10. UsartTypes'
  <2>1. given' \in Seq(Byte)
    BY <1>0, <1>2 DEF InvPath, UsartTypes
  <2>. QED
    BY <1>4, <2>1 DEF UsartTypes
<1>11. PathTypes'
  BY <1>0, <1>4, <1>8, <1>16, <1>17 DEF InvPath, PathTypes, Bytes
<1>12. InUdr' \in Bytes
  BY <1>6, EmptySeq DEF Bytes
<1>13. thr'.buf \in Bytes /\ reader'.buf \in Bytes /\ line' \in Bytes /\ got' \in Bytes
  BY <1>0, <1>4, <1>5, WayTypes
<1>14. ReadOnce'
  BY <1>9, <1>12, <1>13, ReadOnceNext DEF Bytes
<1>. QED
  BY <1>10, <1>11, <1>14 DEF InvPath

LEMMA ComputePath ==
  ASSUME InvPath, Compute
  PROVE  InvPath'
<1>1. Ticked \in TickStates(1..typed)
  BY TickStep DEF InvPath
<1>2. Ticked.r \in Fields
  BY <1>1 DEF TickStates
<1>3. /\ Nothing \in [writ : Cells \cup {"none"}, read : {"none", "UDR"}]
      /\ Nothing.read = "none"
  BY DEF Nothing
<1>4. Cycle(Ticked, Ticked.r, Nothing) /\ lost' = Ticked.lost /\ got' = got /\ given' = given
  BY DEF Compute
<1>. QED
  BY <1>2, <1>3, <1>4, QuietPath

\* What the firmware writes to another register leaves the flags alone.
LEMMA SetFields ==
  ASSUME InvPath, NEW x \in Settings, Set(x[1], x[2])
  PROVE  \E regs \in Fields, op \in [writ : Cells \cup {"none"}, read : {"none", "UDR"}] :
           /\ Cycle(Ticked, regs, op) /\ op.read = "none" /\ op.writ # "UDR"
           /\ regs.UDR = Ticked.r.UDR
           /\ Bit(regs.UCSRA, RXC) = Bit(Ticked.r.UCSRA, RXC)
           /\ Bit(regs.UCSRA, UDRE) = Bit(Ticked.r.UCSRA, UDRE)
           /\ lost' = Ticked.lost /\ got' = got /\ given' = given
<1>. DEFINE reg == x[1]
            v == x[2]
            ucsra == With(With(Ticked.r.UCSRA, U2X, Bit(v, U2X)), TXC, Bit(v, TXC))
            value == IF reg = "UCSRA" THEN ucsra ELSE v
            cell == IF reg = "UBRRH" THEN "UCSRC" ELSE reg
            regs == [Ticked.r EXCEPT ![cell] = value]
            op == [writ |-> cell, read |-> "none"]
<1>1. Ticked \in TickStates(1..typed)
  BY TickStep DEF InvPath
<1>2. Ticked.r \in Fields /\ Ticked.r.UCSRA \in Byte
  BY <1>1 DEF TickStates, Fields
<1>3. reg \in {"UCSRA", "UCSRB", "UBRRL", "UCSRC", "UBRRH"} /\ v \in Byte
  BY UsartAssumption DEF Byte
<1>4. /\ ucsra \in Byte /\ Bit(ucsra, RXC) = Bit(Ticked.r.UCSRA, RXC)
      /\ Bit(ucsra, UDRE) = Bit(Ticked.r.UCSRA, UDRE)
  <2>. DEFINE m == With(Ticked.r.UCSRA, U2X, Bit(v, U2X))
  <2>0. Bit(v, U2X) \in 0..1 /\ Bit(v, TXC) \in 0..1
    BY <1>3, FlagType DEF U2X, TXC
  <2>1. /\ m \in Byte /\ Bit(m, RXC) = Bit(Ticked.r.UCSRA, RXC)
        /\ Bit(m, UDRE) = Bit(Ticked.r.UCSRA, UDRE)
    BY <1>2, <2>0, WithU2x
  <2>. HIDE DEF m
  <2>2. /\ With(m, TXC, Bit(v, TXC)) \in Byte
        /\ Bit(With(m, TXC, Bit(v, TXC)), RXC) = Bit(m, RXC)
        /\ Bit(With(m, TXC, Bit(v, TXC)), UDRE) = Bit(m, UDRE)
    BY <2>0, <2>1, WithTxc
  <2>. QED
    BY <2>1, <2>2 DEF m
<1>. HIDE DEF reg, v, ucsra
<1>5. cell \in Cells \ {"UDR"}
  BY <1>3 DEF Cells
<1>6. op \in [writ : Cells \cup {"none"}, read : {"none", "UDR"}] /\ op.read = "none"
      /\ op.writ # "UDR"
  BY <1>5
<1>7. value \in Byte
  BY <1>3, <1>4
<1>8. regs \in Fields /\ regs.UDR = Ticked.r.UDR
  <2>. HIDE DEF value, cell
  <2>. QED
    BY <1>2, <1>5, <1>7 DEF Fields, Cells
<1>9. \/ regs.UCSRA = Ticked.r.UCSRA
      \/ regs.UCSRA = ucsra
  BY <1>2, <1>3 DEF Fields
<1>10. Cycle(Ticked, regs, op) /\ lost' = Ticked.lost /\ got' = got /\ given' = given
  BY DEF Set, reg, v, ucsra
<1>. HIDE DEF regs, op
<1>. QED
  BY <1>4, <1>6, <1>8, <1>9, <1>10

LEMMA SetPath ==
  ASSUME InvPath, NEW x \in Settings, Set(x[1], x[2])
  PROVE  InvPath'
<1>1. PICK regs \in Fields, op \in [writ : Cells \cup {"none"}, read : {"none", "UDR"}] :
        /\ Cycle(Ticked, regs, op) /\ op.read = "none" /\ op.writ # "UDR"
        /\ regs.UDR = Ticked.r.UDR
        /\ Bit(regs.UCSRA, RXC) = Bit(Ticked.r.UCSRA, RXC)
        /\ Bit(regs.UCSRA, UDRE) = Bit(Ticked.r.UCSRA, UDRE)
        /\ lost' = Ticked.lost /\ got' = got /\ given' = given
  BY SetFields
<1>. QED
  BY <1>1, QuietPath

-----------------------------------------------------------------------------
(* The terminal, the reader thread and MSIM_PTY_Close. *)

LEMMA TypePath ==
  ASSUME InvPath, Type, UNCHANGED usartVars
  PROVE  InvPath'
<1>1. /\ typed < Typed /\ typed' = typed + 1 /\ line' = Append(line, typed + 1)
      /\ reader' = reader /\ thr' = thr /\ dropped' = dropped
      /\ r' = r /\ did' = did /\ u' = u /\ w' = w /\ given' = given /\ sent' = sent
      /\ got' = got /\ lost' = lost
  BY DEF Type, usartVars
<1>2. typed \in Nat /\ typed' \in 0..Typed /\ Typed \in Nat
  <2>1. typed \in 0..Typed
    BY DEF InvPath, PathTypes
  <2>. QED
    BY <1>1, <2>1, PtyAssumption
<1>3. Bytes \subseteq Seq(1..typed + 1)
  <2>1. 1..typed \subseteq 1..typed + 1
    BY <1>2
  <2>. QED
    BY <2>1, SeqMonotonic DEF Bytes
<1>4. Bytes' = Seq(1..typed + 1)
  BY <1>1 DEF Bytes
<1>5. UsartTypes'
  BY <1>1 DEF InvPath, UsartTypes
<1>6. line' \in Seq(1..typed + 1)
  <2>1. line \in Seq(1..typed + 1) /\ typed + 1 \in 1..typed + 1
    BY <1>2, <1>3, WayTypes
  <2>. QED
    BY <1>1, <2>1, AppendProperties
<1>7. PathTypes'
  <2>1. /\ thr' \in [buf : Bytes', stop : BOOLEAN]
        /\ reader' \in [at : {"none", "loop", "read", "lock", "done"}, buf : Bytes']
    BY <1>1, <1>3, <1>4 DEF InvPath, PathTypes
  <2>2. got' \in Bytes' /\ lost' \in Bytes' /\ dropped' \in Bytes'
    BY <1>1, <1>3, <1>4 DEF InvPath, PathTypes
  <2>3. r'.UDR \in 1..Typed => r'.UDR \in 1..typed'
    <3>1. r.UDR \in 1..Typed => r.UDR \in 1..typed
      BY DEF InvPath, PathTypes
    <3>2. 1..typed \subseteq 1..typed + 1
      BY <1>2
    <3>. QED
      BY <1>1, <3>1, <3>2
  <2>4. reader'.at # "lock" => reader'.buf = <<>>
    BY <1>1 DEF InvPath, PathTypes
  <2>. QED
    BY <1>2, <1>4, <1>6, <2>1, <2>2, <2>3, <2>4 DEF PathTypes
<1>8. InUdr' = InUdr
  BY <1>1 DEF InUdr
<1>9. OnTheWay' = Append(OnTheWay, typed + 1)
  <2>. DEFINE rest == ((got \o InUdr) \o thr.buf) \o reader.buf
              T == 1..typed + 1
  <2>1. /\ got \in Seq(T) /\ InUdr \in Seq(T) /\ thr.buf \in Seq(T) /\ reader.buf \in Seq(T)
        /\ line \in Seq(T)
    BY <1>3, WayTypes
  <2>2. rest \in Seq(T)
    <3>1. got \o InUdr \in Seq(T)
      BY <2>1, ConcatProperties
    <3>2. (got \o InUdr) \o thr.buf \in Seq(T)
      BY <2>1, <3>1, ConcatProperties
    <3>. QED
      BY <2>1, <3>2, ConcatProperties
  <2>3. OnTheWay = rest \o line /\ OnTheWay' = rest \o Append(line, typed + 1)
    BY <1>1, <1>8 DEF OnTheWay
  <2>4. typed + 1 \in T
    BY <1>2
  <2>. HIDE DEF rest, T
  <2>5. Append(line, typed + 1) = line \o <<typed + 1>> /\ <<typed + 1>> \in Seq(T)
    BY <2>1, <2>4, AppendIsConcat
  <2>6. ThreeGroup(rest, line, <<typed + 1>>)
    BY <2>1, <2>2, <2>5, Associative
  <2>7. rest \o line \in Seq(T)
    BY <2>1, <2>2, ConcatProperties
  <2>8. Append(rest \o line, typed + 1) = (rest \o line) \o <<typed + 1>>
    BY <2>4, <2>7, AppendIsConcat
  <2>. QED
    BY <2>3, <2>5, <2>6, <2>8 DEF ThreeGroup
<1>10. OnceIn(typed + 1, Append(OnTheWay, typed + 1), lost, dropped)
  <2>1. OnceIn(typed, OnTheWay, lost, dropped)
    BY ReadOnceIsOnceIn DEF InvPath
  <2>2. OnTheWay \in Seq(1..typed) /\ lost \in Seq(1..typed) /\ dropped \in Seq(1..typed)
    BY WayTypes DEF Bytes
  <2>. QED
    BY <1>2, <2>1, <2>2, OneMore
<1>11. OnceIn(typed', OnTheWay', lost', dropped')
  BY <1>1, <1>9, <1>10
<1>12. ReadOnce'
  BY <1>11 DEF ReadOnce, OnceIn, Increasing, Count, Places
<1>. QED
  BY <1>5, <1>7, <1>12 DEF InvPath

\* read() hands over the first bytes of the line, and in the same order.
LEMMA ReadReturnsPath ==
  ASSUME InvPath, ReadReturns, UNCHANGED usartVars
  PROVE  InvPath'
<1>1. /\ typed' = typed /\ thr' = thr /\ dropped' = dropped
      /\ r' = r /\ did' = did /\ u' = u /\ w' = w /\ given' = given /\ sent' = sent
      /\ got' = got /\ lost' = lost /\ reader.at = "read"
  BY DEF ReadReturns, usartVars
<1>2. reader.buf = <<>>
  BY <1>1 DEF InvPath, PathTypes
<1>3. /\ reader' = [at |-> "lock", buf |-> reader'.buf]
      /\ reader'.buf \in Bytes /\ line' \in Bytes /\ reader'.buf \o line' = reader.buf \o line
  <2>1. line \in Seq(1..typed)
    BY WayTypes DEF Bytes
  <2>2. reader.buf \o line = line
    BY <1>2, <2>1, ConcatEmptySeq
  <2>3. ASSUME NEW n \in 1..Chunk, n <= Len(line),
               reader' = [at |-> "lock", buf |-> SubSeq(line, 1, n)],
               line' = SubSeq(line, n + 1, Len(line))
        PROVE  /\ reader' = [at |-> "lock", buf |-> reader'.buf]
               /\ reader'.buf \in Bytes /\ line' \in Bytes
               /\ reader'.buf \o line' = reader.buf \o line
    <3>1. n \in 1..Len(line)
      BY <2>1, <2>3, PtyAssumption
    <3>2. /\ SubSeq(line, 1, n) \in Seq(1..typed) /\ SubSeq(line, n + 1, Len(line)) \in Seq(1..typed)
          /\ SubSeq(line, 1, n) = <<line[1]>> \o Tail(SubSeq(line, 1, n))
          /\ line = (<<line[1]>> \o Tail(SubSeq(line, 1, n))) \o SubSeq(line, n + 1, Len(line))
      BY <2>1, <3>1, SplitAt
    <3>. QED
      BY <2>2, <2>3, <3>2 DEF Bytes
  <2>4. ASSUME line = <<>>, reader' = [at |-> "lock", buf |-> <<>>], line' = line
        PROVE  /\ reader' = [at |-> "lock", buf |-> reader'.buf]
               /\ reader'.buf \in Bytes /\ line' \in Bytes
               /\ reader'.buf \o line' = reader.buf \o line
    BY <1>2, <2>1, <2>4, EmptySeq DEF Bytes
  <2>. QED
    BY <2>3, <2>4 DEF ReadReturns
<1>4. UsartTypes'
  BY <1>1 DEF InvPath, UsartTypes
<1>5. PathTypes'
  <2>1. reader' \in [at : {"none", "loop", "read", "lock", "done"}, buf : Bytes]
        /\ reader'.at = "lock"
    BY <1>3
  <2>. QED
    BY <1>1, <1>3, <2>1 DEF InvPath, PathTypes, Bytes
<1>6. InUdr' = InUdr
  BY <1>1 DEF InUdr
<1>7. OnceIn(typed', (got' \o (InUdr' \o thr'.buf)) \o (reader'.buf \o line'), lost', dropped')
  BY <1>1, <1>3, <1>6, ReadOnceIsOnceIn, WayTypes DEF InvPath
<1>8. ReadOnce'
  <2>1. /\ InUdr' \in Bytes /\ thr'.buf \in Bytes /\ reader'.buf \in Bytes /\ line' \in Bytes
        /\ got' \in Bytes
    BY <1>1, <1>3, <1>6, WayTypes
  <2>. QED
    BY <1>7, <2>1, ReadOnceNext DEF Bytes
<1>. QED
  BY <1>4, <1>5, <1>8 DEF InvPath

\* The buffer takes what was read, or nothing of it.
LEMMA LockedPath ==
  ASSUME InvPath, Locked, UNCHANGED usartVars
  PROVE  InvPath'
<1>1. /\ typed' = typed /\ line' = line
      /\ r' = r /\ did' = did /\ u' = u /\ w' = w /\ given' = given /\ sent' = sent
      /\ got' = got /\ lost' = lost
      /\ thr' = [thr EXCEPT !.buf = Filled(thr.buf, reader.buf)]
      /\ dropped' = IF Len(thr.buf) + Len(reader.buf) > BUFSIZE THEN dropped \o reader.buf
                                                                ELSE dropped
      /\ reader' = [at |-> IF thr.stop THEN "done" ELSE "loop", buf |-> <<>>]
  BY DEF Locked, usartVars
<1>. DEFINE T == 1..typed
            e == <<>>
            in == thr.buf
            more == reader.buf
            udr == InUdr
<1>2. /\ got \in Seq(T) /\ udr \in Seq(T) /\ in \in Seq(T) /\ more \in Seq(T)
      /\ line \in Seq(T) /\ lost \in Seq(T) /\ dropped \in Seq(T) /\ e \in Seq(T)
      /\ udr \o in \in Seq(T)
  BY WayTypes, EmptySeq, ConcatProperties DEF Bytes
<1>3. OnceIn(typed, (got \o (udr \o in)) \o (more \o line), lost, dropped)
  BY ReadOnceIsOnceIn, WayTypes DEF InvPath
<1>4. /\ Filled(in, more) \in Seq(T) /\ in \o more \in Seq(T) /\ dropped \o more \in Seq(T)
  BY <1>2, ConcatProperties DEF Filled
<1>5. thr' \in [buf : Bytes, stop : BOOLEAN] /\ thr'.buf = Filled(in, more)
  <2>. HIDE DEF in, more
  <2>. QED
    BY <1>1, <1>4 DEF in, more, InvPath, PathTypes, Bytes
<1>6. /\ reader' \in [at : {"none", "loop", "read", "lock", "done"}, buf : Bytes]
      /\ reader'.buf = e
  BY <1>1, <1>2 DEF Bytes
<1>7. InUdr' = udr
  BY <1>1 DEF InUdr
<1>8. UsartTypes'
  BY <1>1 DEF InvPath, UsartTypes
<1>9. dropped' \in Seq(T)
  BY <1>1, <1>2, <1>4
<1>10. PathTypes'
  <2>1. reader'.buf = <<>>
    BY <1>6
  <2>. QED
    BY <1>1, <1>5, <1>6, <1>9, <2>1 DEF InvPath, PathTypes, Bytes
<1>11. OnceIn(typed', (got' \o (InUdr' \o thr'.buf)) \o (reader'.buf \o line'), lost', dropped')
  <2>. HIDE DEF T, e, in, more, udr
  <2>0. e \o line = line
    BY <1>2, ConcatEmptySeq DEF e
  <2>1. CASE Len(in) + Len(more) > BUFSIZE
    <3>1. Filled(in, more) = in /\ dropped' = dropped \o more
      BY <1>1, <2>1 DEF Filled, in, more
    <3>2. OnceIn(typed, (got \o (udr \o in)) \o line, lost, dropped \o more)
      <4>. DEFINE g == got \o (udr \o in)
      <4>1. g \in Seq(T)
        BY <1>2, ConcatProperties
      <4>. HIDE DEF g
      <4>2. FiveGroup(g, e, more, e, line) /\ FourGroup(g, e, e, line) /\ more \o e = more
            /\ e \o more = more /\ e \o e = e /\ g \o e = g
        BY <1>2, <4>1, Groups, ConcatEmptySeq DEF e
      <4>3. (g \o ((e \o more) \o e)) \o line = g \o (more \o line)
        <5>1. ThreeGroup(g, more, line)
          BY <1>2, <4>1, Associative
        <5>. QED
          BY <4>2, <5>1 DEF ThreeGroup
      <4>4. OnceIn(typed, (g \o ((e \o more) \o e)) \o line, lost, dropped)
        BY <1>3, <4>3 DEF g
      <4>5. OnceIn(typed, (g \o (e \o e)) \o line, lost, dropped \o more)
        BY <1>2, <4>1, <4>4, TakeOut
      <4>. QED
        BY <4>2, <4>5 DEF g
    <3>. QED
      BY <1>1, <1>5, <1>6, <1>7, <2>0, <3>1, <3>2
  <2>2. CASE ~(Len(in) + Len(more) > BUFSIZE)
    <3>1. Filled(in, more) = in \o more /\ dropped' = dropped
      BY <1>1, <2>2 DEF Filled, in, more
    <3>2. (got \o (udr \o (in \o more))) \o line = (got \o (udr \o in)) \o (more \o line)
      <4>. DEFINE m == udr \o in
      <4>1. m \in Seq(T)
        BY <1>2
      <4>2. ThreeGroup(udr, in, more)
        BY <1>2, Associative
      <4>3. m \o more = udr \o (in \o more)
        BY <4>2 DEF ThreeGroup
      <4>. HIDE DEF m
      <4>4. FourGroup(got, m, more, line)
        BY <1>2, <4>1, Groups
      <4>. QED
        BY <4>3, <4>4 DEF FourGroup, m
    <3>. QED
      BY <1>1, <1>3, <1>5, <1>6, <1>7, <2>0, <3>1, <3>2
  <2>. QED
    BY <2>1, <2>2
<1>12. ReadOnce'
  <2>1. /\ InUdr' \in Seq(T) /\ thr'.buf \in Seq(T) /\ reader'.buf \in Seq(T)
        /\ line' \in Seq(T) /\ got' \in Seq(T)
    <3>. HIDE DEF T, in, more, e, udr
    <3>. QED
      BY <1>1, <1>2, <1>4, <1>5, <1>6, <1>7
  <2>. QED
    BY <1>11, <2>1, ReadOnceNext
<1>. QED
  BY <1>8, <1>10, <1>12 DEF InvPath

\* Nothing that holds bytes changes.
LEMMA StillPath ==
  ASSUME InvPath, UNCHANGED <<typed, line, thr, dropped, usartVars>>,
         reader' = reader \/ (reader.at = "loop" /\ reader'.buf = <<>>
                              /\ reader' \in [at : {"read", "lock"}, buf : Bytes])
  PROVE  InvPath'
<1>1. /\ typed' = typed /\ line' = line /\ thr' = thr /\ dropped' = dropped
      /\ r' = r /\ did' = did /\ u' = u /\ w' = w /\ given' = given /\ sent' = sent
      /\ got' = got /\ lost' = lost
  BY DEF usartVars
<1>2. reader'.buf = reader.buf
  BY DEF InvPath, PathTypes
<1>3. PathTypes'
  <2>1. CASE reader' = reader
    BY <1>1, <2>1 DEF InvPath, PathTypes, Bytes
  <2>2. CASE reader.at = "loop" /\ reader'.buf = <<>>
             /\ reader' \in [at : {"read", "lock"}, buf : Bytes]
    <3>1. reader' \in [at : {"none", "loop", "read", "lock", "done"}, buf : Bytes]
      BY <2>2
    <3>2. reader'.buf = <<>>
      BY <2>2
    <3>. QED
      BY <1>1, <3>1, <3>2 DEF InvPath, PathTypes, Bytes
  <2>. QED
    BY <2>1, <2>2
<1>4. OnTheWay' = OnTheWay
  BY <1>1, <1>2 DEF OnTheWay, InUdr
<1>5. ReadOnce'
  BY <1>1, <1>4 DEF InvPath, ReadOnce
<1>. QED
  BY <1>1, <1>3, <1>5 DEF InvPath, UsartTypes

LEMMA PtyPath ==
  ASSUME InvPath, Terminal \/ Reader \/ Close, UNCHANGED usartVars
  PROVE  InvPath'
<1>1. CASE Type
  BY <1>1, TypePath
<1>2. CASE Detach
  BY <1>2, StillPath DEF Detach
<1>3. CASE ReadCalled
  <2>1. reader.at = "loop"
        /\ reader' = [at |-> IF master THEN "read" ELSE "lock", buf |-> <<>>]
    BY <1>3 DEF ReadCalled
  <2>2. <<>> \in Bytes
    BY EmptySeq DEF Bytes
  <2>3. reader'.buf = <<>> /\ reader' \in [at : {"read", "lock"}, buf : Bytes]
    BY <2>1, <2>2
  <2>. QED
    BY <1>3, <2>1, <2>3, StillPath DEF ReadCalled
<1>4. CASE ReadReturns
  BY <1>4, ReadReturnsPath
<1>5. CASE Locked
  BY <1>5, LockedPath
<1>6. CASE CloseMarks
  <2>1. /\ thr' = [thr EXCEPT !.stop = TRUE]
        /\ UNCHANGED <<opened, slave, attached, typed, line, reader, dropped>>
    BY <1>6 DEF CloseMarks
  <2>2. thr' \in [buf : Bytes, stop : BOOLEAN] /\ thr'.buf = thr.buf
    BY <2>1 DEF InvPath, PathTypes
  <2>3. UNCHANGED <<r, did, u, w, ubrrh, given, sent, got, lost, settings>>
    BY DEF usartVars
  <2>4. PathTypes' /\ UsartTypes'
    BY <2>1, <2>2, <2>3 DEF InvPath, PathTypes, UsartTypes, Bytes
  <2>5. OnTheWay' = OnTheWay
    BY <2>1, <2>2, <2>3 DEF OnTheWay, InUdr
  <2>6. ReadOnce'
    BY <2>1, <2>3, <2>5 DEF InvPath, ReadOnce
  <2>. QED
    BY <2>4, <2>6 DEF InvPath
<1>7. CASE CloseSlave \/ CloseMaster \/ Join
  BY <1>7, StillPath DEF CloseSlave, SlaveClosed, CloseMaster, Join
<1>. QED
  BY <1>1, <1>2, <1>3, <1>4, <1>5, <1>6, <1>7 DEF Terminal, Reader, Close

-----------------------------------------------------------------------------
(* What the firmware sends. *)

\* A cycle in which the firmware does not write UDR.
LEMMA QuietSent ==
  ASSUME InvPath, SentInv, NEW regs \in Fields,
         NEW op \in [writ : Cells \cup {"none"}, read : {"none", "UDR"}],
         Cycle(Ticked, regs, op), op.writ # "UDR",
         Bit(regs.UCSRA, UDRE) = Bit(Ticked.r.UCSRA, UDRE), given' = given
  PROVE  SentInv'
<1>1. /\ r' = regs /\ did' = op /\ opened' = opened /\ u' = Ticked.u
      /\ sent' = sent \o Ticked.out
  BY CycleTypes
<1>2. ASSUME opened = "ok" PROVE SendInv(r, u.txb, did.writ, sent)'
  <2>1. SendInv(r, u.txb, did.writ, sent)
    BY <1>2 DEF SentInv
  <2>2. SendInv(Ticked.r, Ticked.u.txb, "none", sent \o Ticked.out)
    BY <1>2, <2>1, TickStep DEF InvPath
  <2>. QED
    BY <1>1, <2>2 DEF SendInv
<1>. QED
  BY <1>1, <1>2 DEF SentInv, SendInv

LEMMA WriteUdrSent ==
  ASSUME InvPath, SentInv, WriteUdr
  PROVE  SentInv'
<1>. DEFINE op == [writ |-> "UDR", read |-> "none"]
            b == Typed + Len(given) + 1
            y == [Ticked.r EXCEPT !.UDR = b]
            free == Bit(Ticked.r.UCSRA, UDRE)
            frames == sent \o Ticked.out
<1>1. /\ Len(given) < UdrWrites /\ Cycle(Ticked, y, op)
      /\ given' = IF free = 1 THEN Append(given, b) ELSE given
  BY DEF WriteUdr
<1>2. Ticked \in TickStates(1..typed)
  BY TickStep DEF InvPath
<1>3. Ticked.r \in Fields /\ Ticked.r.UCSRA \in Byte
  BY <1>2 DEF TickStates, Fields
<1>4. given \in Seq(Byte) /\ Len(given) \in Nat
  BY DEF InvPath, UsartTypes
<1>5. b \in Byte
  <2>1. Len(given) < UdrWrites
    BY <1>1
  <2>2. Typed \in Nat /\ UdrWrites \in Nat /\ Typed + UdrWrites < 256
    BY UsartAssumption, PtyAssumption
  <2>3. \A g, t, m \in Nat : g < m /\ t + m < 256 => t + g + 1 \in 0..255
    OBVIOUS
  <2>. QED
    BY <1>4, <2>1, <2>2, <2>3 DEF Byte
<1>. HIDE DEF b
<1>6. y \in Fields /\ y.UDR = b /\ y.UCSRA = Ticked.r.UCSRA
  BY <1>3, <1>5 DEF Fields
<1>7. op \in [writ : Cells \cup {"none"}, read : {"none", "UDR"}] /\ op.writ = "UDR"
  BY DEF Cells
<1>. HIDE DEF y, op
<1>8. /\ r' = y /\ did' = op /\ opened' = opened /\ u' = Ticked.u
      /\ sent' = frames /\ sent' \in Seq(Frames)
  BY <1>1, <1>6, <1>7, CycleTypes
<1>9. free \in 0..1
  BY <1>3, FlagType DEF UDRE
<1>10. ASSUME opened = "ok" PROVE SendInv(r, u.txb, did.writ, sent)'
  <2>1. SendInv(r, u.txb, did.writ, sent)
    BY <1>10 DEF SentInv
  <2>2. SendInv(Ticked.r, Ticked.u.txb, "none", frames)
    BY <1>10, <2>1, TickStep DEF InvPath
  <2>3. /\ \A i \in DOMAIN frames : frames[i].data = Masked(frames[i].size, given[i])
        /\ free = 0 => Len(given) = Len(frames) + 1 /\ Ticked.u.txb = given[Len(given)]
        /\ free # 0 => Len(given) = Len(frames)
    BY <2>2 DEF SendInv
  <2>4. Bit(r'.UCSRA, UDRE) = free /\ r'.UDR = b /\ did'.writ = "UDR"
        /\ u'.txb = Ticked.u.txb
    BY <1>6, <1>7, <1>8
  <2>5. Len(frames) \in Nat /\ DOMAIN frames = 1..Len(frames)
    BY <1>8
  <2>. HIDE DEF free, frames
  <2>6. CASE free = 0
    BY <1>1, <1>8, <2>3, <2>4, <2>6 DEF SendInv
  <2>7. CASE free = 1
    <3>1. /\ given' = Append(given, b) /\ Len(given') = Len(given) + 1
          /\ given'[Len(given')] = b
          /\ \A i \in 1..Len(given) : given'[i] = given[i]
      BY <1>1, <1>4, <1>5, <2>7, AppendProperties
    <3>2. Len(given) = Len(frames)
      <4>1. free # 0 => Len(given) = Len(frames)
        BY <2>3
      <4>. QED
        BY <2>7, <4>1
    <3>3. ASSUME NEW i \in DOMAIN frames
          PROVE  frames[i].data = Masked(frames[i].size, given'[i])
      <4>1. frames[i].data = Masked(frames[i].size, given[i])
        BY <2>3
      <4>2. given'[i] = given[i]
        BY <2>5, <3>1, <3>2
      <4>. QED
        BY <4>1, <4>2
    <3>4. Len(given') = Len(frames) + 1
      BY <3>1, <3>2
    <3>. QED
      BY <1>8, <2>4, <2>7, <3>1, <3>3, <3>4 DEF SendInv
  <2>. QED
    BY <1>9, <2>6, <2>7
<1>. QED
  BY <1>8, <1>10 DEF SentInv

LEMMA StillSent ==
  ASSUME SentInv, opened' = opened, UNCHANGED usartVars
  PROVE  SentInv'
  BY DEF SentInv, SendInv, usartVars

LEMMA SentNext ==
  ASSUME InvPath, SentInv, [Next]_vars
  PROVE  SentInv'
<1>0. Ticked \in TickStates(1..typed)
  BY TickStep DEF InvPath
<1>1. Ticked.r \in Fields
  BY <1>0 DEF TickStates
<1>2. CASE Compute
  <2>1. Nothing \in [writ : Cells \cup {"none"}, read : {"none", "UDR"}] /\ Nothing.writ # "UDR"
    BY DEF Nothing
  <2>2. Cycle(Ticked, Ticked.r, Nothing) /\ given' = given
    BY <1>2 DEF Compute
  <2>. QED
    BY <1>1, <2>1, <2>2, QuietSent
<1>3. CASE WriteUdr
  BY <1>3, WriteUdrSent
<1>4. CASE ReadUdr
  <2>. DEFINE op == [writ |-> "none", read |-> "UDR"]
  <2>1. op \in [writ : Cells \cup {"none"}, read : {"none", "UDR"}] /\ op.writ # "UDR"
    OBVIOUS
  <2>2. Cycle(Ticked, Ticked.r, op) /\ given' = given
    BY <1>4 DEF ReadUdr
  <2>. HIDE DEF op
  <2>. QED
    BY <1>1, <2>1, <2>2, QuietSent
<1>5. ASSUME NEW x \in Settings, Set(x[1], x[2]) PROVE SentInv'
  <2>1. PICK regs \in Fields, op \in [writ : Cells \cup {"none"}, read : {"none", "UDR"}] :
          /\ Cycle(Ticked, regs, op) /\ op.read = "none" /\ op.writ # "UDR"
          /\ regs.UDR = Ticked.r.UDR
          /\ Bit(regs.UCSRA, RXC) = Bit(Ticked.r.UCSRA, RXC)
          /\ Bit(regs.UCSRA, UDRE) = Bit(Ticked.r.UCSRA, UDRE)
          /\ lost' = Ticked.lost /\ got' = got /\ given' = given
    BY <1>5, SetFields
  <2>. QED
    BY <2>1, QuietSent
<1>6. CASE (Terminal \/ Reader \/ Close) /\ UNCHANGED usartVars
  <2>1. opened' = opened
    BY <1>6 DEF Terminal, Type, Detach, Reader, ReadCalled, ReadReturns, Locked, Close, CloseMarks,
                CloseSlave, CloseMaster, Join
  <2>. QED
    BY <1>6, <2>1, StillSent
<1>7. CASE UNCHANGED vars
  BY <1>7, StillSent DEF vars, ptyVars
<1>. QED
  BY <1>2, <1>3, <1>4, <1>5, <1>6, <1>7 DEF Next, Firmware

LEMMA PathNext ==
  ASSUME InvPath, [Next]_vars
  PROVE  InvPath'
<1>1. CASE Compute
  BY <1>1, ComputePath
<1>2. CASE WriteUdr
  BY <1>2, WriteUdrPath
<1>3. CASE ReadUdr
  BY <1>3, ReadUdrPath
<1>4. ASSUME NEW x \in Settings, Set(x[1], x[2]) PROVE InvPath'
  BY <1>4, SetPath
<1>5. CASE (Terminal \/ Reader \/ Close) /\ UNCHANGED usartVars
  BY <1>5, PtyPath
<1>6. CASE UNCHANGED vars
  BY <1>6, StillPath DEF vars, ptyVars
<1>. QED
  BY <1>1, <1>2, <1>3, <1>4, <1>5, <1>6 DEF Next, Firmware

LEMMA InitInv == Init => InvPath /\ SentInv
<1>. SUFFICES ASSUME Init PROVE InvPath /\ SentInv
  OBVIOUS
<1>1. /\ typed = 0 /\ line = <<>> /\ thr = [buf |-> <<>>, stop |-> FALSE]
      /\ reader.buf = <<>> /\ reader = [at |-> reader.at, buf |-> <<>>]
      /\ reader.at \in {"loop", "none"} /\ dropped = <<>>
  BY DEF Init, PtyInit
<1>2. /\ r = [UDR |-> 0, UCSRA |-> 32, UCSRB |-> 0, UBRRL |-> 0, UCSRC |-> 130]
      /\ did = [writ |-> "none", read |-> "none"]
      /\ u = [baud |-> 0, rx_ticks |-> 0, tx_ticks |-> 0, rx_presc |-> 0, tx_presc |-> 0, txb |-> 0]
      /\ w = [ubrrh |-> 0, ucsrc |-> 130, ubrrl |-> 0]
      /\ given = <<>> /\ sent = <<>> /\ got = <<>> /\ lost = <<>>
  BY DEF Init
<1>3. UsartTypes
  <2>1. r \in Fields /\ u \in Clock /\ w \in Copies
    BY <1>2 DEF Fields, Clock, Copies, Byte
  <2>2. did \in [writ : Cells \cup {"none"}, read : {"none", "UDR"}]
    BY <1>2
  <2>3. given \in Seq(Byte) /\ sent \in Seq(Frames)
    BY <1>2, EmptySeq
  <2>. QED
    BY <2>1, <2>2, <2>3 DEF UsartTypes
<1>4. PathTypes
  <2>1. <<>> \in Bytes
    BY EmptySeq DEF Bytes
  <2>2. typed \in 0..Typed
    BY <1>1, PtyAssumption
  <2>3. ~(r.UDR \in 1..Typed)
    BY <1>2
  <2>4. /\ thr \in [buf : Bytes, stop : BOOLEAN]
        /\ reader \in [at : {"none", "loop", "read", "lock", "done"}, buf : Bytes]
    BY <1>1, <2>1
  <2>. QED
    BY <1>1, <1>2, <2>1, <2>2, <2>3, <2>4 DEF PathTypes
<1>5. ReadOnce
  <2>1. InUdr = <<>>
    BY <1>2 DEF InUdr
  <2>2. OnTheWay = <<>>
    <3>1. <<>> \in Seq({}) /\ <<>> \o <<>> = <<>>
      BY EmptySeq, ConcatEmptySeq
    <3>. QED
      BY <1>1, <1>2, <2>1, <3>1 DEF OnTheWay
  <2>. QED
    BY <1>1, <2>2 DEF ReadOnce
<1>6. SentInv
  <2>1. Bit(r.UCSRA, UDRE) = 1
    <3>1. (32 \div 2^5) % 2 = 1
      BY Powers
    <3>. QED
      BY <1>2, <3>1 DEF Bit, UDRE
  <2>. QED
    BY <1>2, <2>1 DEF SentInv, SendInv
<1>. QED
  BY <1>3, <1>4, <1>5, <1>6 DEF InvPath

-----------------------------------------------------------------------------
\* The invariant of the whole: types, the way of the bytes, the transmitter's debt.
LEMMA InvAlways == Spec => [](InvPath /\ SentInv)
<1>1. InvPath /\ SentInv /\ [Next]_vars => (InvPath /\ SentInv)'
  BY PathNext, SentNext
<1>. QED
  BY <1>1, InitInv, PTL DEF Spec

\* A byte that is typed at the terminal is read by the firmware once and in order, or is
\* lost where the code loses it (read_from_pty with a full buffer, usart_receive with half
\* a frame, a write of UDR): never twice, and never without a trace.
THEOREM EveryByteOnce == Spec => []ReadOnce
<1>1. InvPath /\ SentInv => ReadOnce
  BY DEF InvPath
<1>. QED
  BY <1>1, InvAlways, PTL

\* A byte the firmware writes while UDRE is set is sent by usart_transmit once and in
\* order, cut to the character size of that moment, and no other byte is sent.
THEOREM EveryFrameOnce == Spec => []SentOnce
<1>1. InvPath /\ SentInv => SentOnce
  <2>. SUFFICES ASSUME InvPath, SentInv, opened = "ok"
                PROVE  /\ Len(sent) = Len(given) - (IF Bit(r.UCSRA, UDRE) = 0 \/ did.writ = "UDR" THEN 1 ELSE 0)
                       /\ \A i \in DOMAIN sent : sent[i].data = Masked(sent[i].size, given[i])
    BY DEF SentOnce
  <2>1. Len(sent) \in Nat /\ Len(given) \in Nat
    BY DEF InvPath, UsartTypes
  <2>. QED
    BY <2>1 DEF SentInv, SendInv
<1>. QED
  BY <1>1, InvAlways, PTL
===============================================================================
