----------------------------- MODULE TSQProofs -------------------------------
(***************************************************************************)
(* With one producer, one consumer and no spurious wakeups the queue of    *)
(* msim_tsq.c is safe, for every size and every set of elements: it is     *)
(* never filled beyond its size and a thread that still waits has not      *)
(* missed its signal.                                                      *)
(*                                                                         *)
(* Neither is inductive.  RingInv adds what the code relies on when it     *)
(* does not test the condition again: a thread that has been woken finds   *)
(* the space, or the element, it was woken for, because the other thread   *)
(* can only add to it, and head, tail and length agree.                    *)
(***************************************************************************)
EXTENDS TSQ, SequenceTheorems, TLAPS

RingInv(p, c) ==
  /\ status \in [{p, c} -> Statuses]
  /\ init \in BOOLEAN
  /\ head \in 0..Size-1 /\ tail \in 0..Size-1 /\ length \in 0..Size
  /\ tail = IF head + length < Size THEN head + length ELSE head + length - Size
  /\ init => /\ status[p] = "wait"  => length = Size
             /\ status[p] = "woken" => length < Size
             /\ status[c] = "wait"  => length = 0
             /\ status[c] = "woken" => length > 0
  /\ ~init => status[p] \in {"idle", "woken"} /\ status[c] \in {"idle", "woken"}

\* The step to the next index keeps the distance between head and tail.
LEMMA AdvanceStep ==
  ASSUME NEW i \in 0..Size-1
  PROVE  /\ Advance(i) \in 0..Size-1
         /\ Advance(i) = IF i + 1 < Size THEN i + 1 ELSE i + 1 - Size
  BY SizeAssumption DEF Advance

\* An enqueue at a queue with space.
LEMMA PutStep ==
  ASSUME NEW p, NEW c, p # c, Producers = {p}, Consumers = {c},
         RingInv(p, c), init, status[p] \in {"lock", "woken"}, length < Size, Put(p)
  PROVE  RingInv(p, c)'
<1>1. /\ init' = init /\ head' = head /\ tail' = Advance(tail)
      /\ SignalAndReturn(p, Consumers)
  BY DEF Put
<1>2. length' = length + 1
  BY SizeAssumption DEF Put, RingInv
<1>3. status' \in [{p, c} -> Statuses]
  BY <1>1 DEF SignalAndReturn, RingInv, Statuses
<1>4. status'[p] = "idle"
  BY <1>1 DEF SignalAndReturn, RingInv
<1>5. status'[c] = IF status[c] = "wait" THEN "woken" ELSE status[c]
  BY <1>1 DEF SignalAndReturn, RingInv
<1>6. tail' \in 0..Size-1
      /\ tail' = IF head' + length' < Size THEN head' + length'
                                           ELSE head' + length' - Size
  BY <1>1, <1>2, AdvanceStep, SizeAssumption DEF RingInv
<1>. QED
  BY <1>1, <1>2, <1>3, <1>4, <1>5, <1>6, SizeAssumption DEF RingInv

\* A dequeue at a queue with an element.
LEMMA GetStep ==
  ASSUME NEW p, NEW c, p # c, Producers = {p}, Consumers = {c},
         RingInv(p, c), init, status[c] \in {"lock", "woken"}, length > 0, Get(c)
  PROVE  RingInv(p, c)'
<1>1. /\ init' = init /\ tail' = tail /\ head' = Advance(head)
      /\ SignalAndReturn(c, Producers)
  BY DEF Get
<1>2. length' = length - 1
  BY SizeAssumption DEF Get, RingInv
<1>3. status' \in [{p, c} -> Statuses]
  BY <1>1 DEF SignalAndReturn, RingInv, Statuses
<1>4. status'[c] = "idle"
  BY <1>1 DEF SignalAndReturn, RingInv
<1>5. status'[p] = IF status[p] = "wait" THEN "woken" ELSE status[p]
  BY <1>1 DEF SignalAndReturn, RingInv
<1>6. head' \in 0..Size-1
      /\ tail' = IF head' + length' < Size THEN head' + length'
                                           ELSE head' + length' - Size
  BY <1>1, <1>2, AdvanceStep, SizeAssumption DEF RingInv
<1>. QED
  BY <1>1, <1>2, <1>3, <1>4, <1>5, <1>6, SizeAssumption DEF RingInv

\* The tests of Enqb and Deqb tell a full ring from an empty one.
LEMMA FullAndEmpty ==
  ASSUME NEW p, NEW c, RingInv(p, c)
  PROVE  (IsFull <=> length = Size) /\ (IsEmpty <=> length = 0)
  BY SizeAssumption DEF RingInv, IsFull, IsEmpty

LEMMA RingInductive ==
  ASSUME NEW p, NEW c, p # c, Producers = {p}, Consumers = {c},
         ~SpuriousWakeups, RingInv(p, c), [Next]_vars
  PROVE  RingInv(p, c)'
<1>. USE DEF Awake
<1>1. CASE CallEnqb(p)
  BY <1>1 DEF CallEnqb, RingInv, Statuses, ring
<1>2. CASE CallDeqb(c)
  BY <1>2 DEF CallDeqb, RingInv, Statuses, ring
<1>3. CASE EnqbLock(p)
  <2>1. status[p] = "lock" /\ init
    BY <1>3 DEF EnqbLock, RingInv
  <2>2. CASE IsFull
    BY <1>3, <2>1, <2>2, FullAndEmpty DEF EnqbLock, Block, RingInv, Statuses, ring
  <2>3. CASE ~IsFull
    <3>1. length < Size
      BY <2>3, FullAndEmpty, SizeAssumption DEF RingInv
    <3>. QED
      BY <1>3, <2>1, <2>3, <3>1, PutStep DEF EnqbLock
  <2>. QED
    BY <2>2, <2>3
<1>4. CASE EnqbWake(p)
  <2>1. status[p] = "woken" /\ init /\ Put(p)
    BY <1>4 DEF EnqbWake
  <2>2. length < Size
    BY <2>1 DEF RingInv
  <2>. QED
    BY <2>1, <2>2, PutStep
<1>5. CASE DeqbLock(c)
  <2>1. status[c] = "lock" /\ init
    BY <1>5 DEF DeqbLock, RingInv
  <2>2. CASE IsEmpty
    BY <1>5, <2>1, <2>2, FullAndEmpty DEF DeqbLock, Block, RingInv, Statuses, ring
  <2>3. CASE ~IsEmpty
    <3>1. length > 0
      BY <2>3, FullAndEmpty DEF RingInv
    <3>. QED
      BY <1>5, <2>1, <2>3, <3>1, GetStep DEF DeqbLock
  <2>. QED
    BY <2>2, <2>3
<1>6. CASE DeqbWake(c)
  <2>1. status[c] = "woken" /\ init /\ Get(c)
    BY <1>6 DEF DeqbWake
  <2>2. length > 0
    BY <2>1 DEF RingInv
  <2>. QED
    BY <2>1, <2>2, GetStep
<1>7. CASE \E t \in Threads : SentAway(t)
  BY <1>7 DEF SentAway, Threads, RingInv, Statuses, ring
<1>8. CASE Destroy
  <2>1. ~init' /\ init' \in BOOLEAN /\ head' = 0 /\ tail' = 0 /\ length' = 0
    BY <1>8 DEF Destroy
  <2>2. status' \in [{p, c} -> Statuses]
    BY <1>8 DEF Destroy, Broadcast, Threads, RingInv, Statuses
  <2>3. \A t \in {p, c} : status'[t] \in {"idle", "woken"}
    BY <1>8 DEF Destroy, Broadcast, Threads, RingInv, Statuses
  <2>. QED
    BY <2>1, <2>2, <2>3, SizeAssumption DEF RingInv
<1>9. CASE UNCHANGED vars
  BY <1>9 DEF vars, ring, RingInv
<1>. QED
  BY <1>1, <1>2, <1>3, <1>4, <1>5, <1>6, <1>7, <1>8, <1>9 DEF Next

LEMMA RingInit ==
  ASSUME NEW p, NEW c, p # c, Producers = {p}, Consumers = {c}, Init
  PROVE  RingInv(p, c)
  BY SizeAssumption DEF Init, RingInv, Threads, Statuses

\* No element is overwritten or invented: length stays between 0 and Size.
THEOREM QueueBounded ==
  ASSUME NEW p, NEW c, p # c, Producers = {p}, Consumers = {c}, ~SpuriousWakeups
  PROVE  Spec => []Bounded
<1>1. Init => RingInv(p, c)
  BY RingInit
<1>2. RingInv(p, c) /\ [Next]_vars => RingInv(p, c)'
  BY RingInductive
<1>3. RingInv(p, c) => Bounded
  BY SizeAssumption DEF RingInv, Bounded
<1>. QED
  BY <1>1, <1>2, <1>3, PTL DEF Spec

\* A thread that waits and has not been signalled waits for good reason.
THEOREM WakeupsNotLost ==
  ASSUME NEW p, NEW c, p # c, Producers = {p}, Consumers = {c}, ~SpuriousWakeups
  PROVE  Spec => []NoLostWakeup
<1>1. Init => RingInv(p, c)
  BY RingInit
<1>2. RingInv(p, c) /\ [Next]_vars => RingInv(p, c)'
  BY RingInductive
<1>3. RingInv(p, c) => NoLostWakeup
  BY DEF RingInv, NoLostWakeup
<1>. QED
  BY <1>1, <1>2, <1>3, PTL DEF Spec

-----------------------------------------------------------------------------
(* The ring implements the FIFO. *)

\* A producer has an element as long as it is in a call.
CallInv(p, c) ==
  /\ array \in [0..Size-1 -> Elems \cup {None}]
  /\ elem \in [{p, c} -> Elems \cup {None}]
  /\ elem[p] # None <=> status[p] # "idle"

\* Once around the ring.
LEMMA Wrapped ==
  ASSUME NEW x \in 0..(2 * Size - 1)
  PROVE  x % Size = IF x < Size THEN x ELSE x - Size
<1>1. Size \in Nat /\ Size > 0 /\ x \in Nat
  BY SizeAssumption
<1>. DEFINE q == x \div Size
<1>2. x = (Size * q) + (x % Size) /\ x % Size \in 0..(Size - 1) /\ q \in Int
  BY <1>1
<1>. HIDE DEF q
<1>3. q >= 0
  <2>1. SUFFICES ASSUME q <= -1 PROVE FALSE
    BY <1>2
  <2>2. Size * q <= Size * (-1)
    BY <1>1, <1>2, <2>1
  <2>. QED
    BY <1>1, <1>2, <2>2
<1>4. q <= 1
  <2>1. SUFFICES ASSUME q >= 2 PROVE FALSE
    BY <1>2
  <2>2. Size * q >= Size * 2
    BY <1>1, <1>2, <2>1
  <2>. QED
    BY <1>1, <1>2, <2>2
<1>5. CASE q = 0
  BY <1>1, <1>2, <1>5
<1>6. CASE q = 1
  BY <1>1, <1>2, <1>6
<1>. QED
  BY <1>2, <1>3, <1>4, <1>5, <1>6

\* The place of the element i + 1 of the queue.
Place(h, i) == IF h + i < Size THEN h + i ELSE h + i - Size

LEMMA Places ==
  ASSUME NEW h \in 0..Size-1, NEW l \in 0..Size, NEW i \in 1..l
  PROVE  (h + i - 1) % Size = Place(h, i - 1) /\ Place(h, i - 1) \in 0..Size-1
<1>1. PICK x \in 0..(2 * Size - 1) : x = h + i - 1
  BY SizeAssumption
<1>2. x % Size = IF x < Size THEN x ELSE x - Size
  BY Wrapped
<1>3. x = h + (i - 1)
  BY <1>1
<1>. QED
  BY <1>1, <1>2, <1>3, SizeAssumption DEF Place

LEMMA ContentsOf ==
  ASSUME NEW p, NEW c, RingInv(p, c)
  PROVE  Contents = [i \in 1..length |-> array[Place(head, i - 1)]]
  BY Places DEF Contents, RingInv

LEMMA ContentsType ==
  ASSUME NEW p, NEW c, RingInv(p, c), CallInv(p, c)
  PROVE  Contents \in Seq(Elems \cup {None}) /\ Len(Contents) = length
<1>1. \A i \in 1..length : array[Place(head, i - 1)] \in Elems \cup {None}
  BY Places DEF CallInv, RingInv
<1>2. length \in Nat
  BY SizeAssumption DEF RingInv
<1>. QED
  BY <1>1, <1>2, ContentsOf

\* What Put stores is the last element of the queue.
LEMMA PutAppends ==
  ASSUME NEW p, NEW c, RingInv(p, c), RingInv(p, c)', CallInv(p, c), length < Size, Put(p)
  PROVE  Contents' = Append(Contents, elem[p])
<1>1. head' = head /\ length' = length + 1 /\ array' = [array EXCEPT ![tail] = elem[p]]
  BY SizeAssumption DEF Put, RingInv
<1>2. tail = Place(head, length) /\ tail \in 0..Size-1
  BY DEF RingInv, Place
<1>3. \A i \in 1..length : Place(head, i - 1) # tail /\ Place(head, i - 1) \in 0..Size-1
  <2>. TAKE i \in 1..length
  <2>1. Place(head, i - 1) # tail
    BY <1>2, SizeAssumption DEF RingInv, Place
  <2>. QED
    BY <2>1, Places DEF RingInv
<1>4. \A i \in 1..length : array'[Place(head, i - 1)] = array[Place(head, i - 1)]
  BY <1>1, <1>3 DEF CallInv
<1>5. array'[Place(head, (length + 1) - 1)] = elem[p]
  <2>1. (length + 1) - 1 = length
    BY SizeAssumption DEF RingInv
  <2>. QED
    BY <1>1, <1>2, <2>1 DEF CallInv
<1>6. length \in Nat
  BY SizeAssumption DEF RingInv
<1>7. Contents' = [i \in 1..(length + 1) |-> array'[Place(head, i - 1)]]
  <2>1. Contents' = [i \in 1..length' |-> array'[Place(head', i - 1)]]
    BY Places DEF Contents, RingInv
  <2>. QED
    BY <1>1, <2>1
<1>8. Contents = [i \in 1..length |-> array[Place(head, i - 1)]]
  BY ContentsOf
<1>9. Append(Contents, elem[p])
        = [i \in 1..(length + 1) |-> IF i = length + 1 THEN elem[p] ELSE array[Place(head, i - 1)]]
  BY <1>6, <1>8, ContentsType
<1>. QED
  BY <1>4, <1>5, <1>6, <1>7, <1>9

\* What Get reads is the first one.
LEMMA GetTakesFirst ==
  ASSUME NEW p, NEW c, RingInv(p, c), RingInv(p, c)', CallInv(p, c), length > 0, Get(c)
  PROVE  Contents # <<>> /\ Contents' = Tail(Contents) /\ array[head] = Head(Contents)
<1>1. array' = array /\ length' = length - 1 /\ head' = Advance(head)
  <2>1. array' = array /\ length' = (length - 1) % LengthMod /\ head' = Advance(head)
    BY DEF Get
  <2>2. length - 1 \in 0..(LengthMod - 1) /\ LengthMod \in Nat
    BY SizeAssumption DEF RingInv
  <2>3. (length - 1) % LengthMod = length - 1
    BY <2>2
  <2>. QED
    BY <2>1, <2>3
<1>2. length \in Nat /\ length > 0 /\ head \in 0..Size-1
  BY SizeAssumption DEF RingInv
<1>3. Place(head, 0) = head
  BY <1>2, SizeAssumption DEF Place
<1>4. \A i \in 1..(length - 1) : Place(Advance(head), i - 1) = Place(head, (i + 1) - 1)
  <2>1. length <= Size
    BY DEF RingInv
  <2>. QED
    BY <1>2, <2>1, AdvanceStep, SizeAssumption DEF Place
<1>5. Contents = [i \in 1..length |-> array[Place(head, i - 1)]]
  BY ContentsOf
<1>6. Contents' = [i \in 1..(length - 1) |-> array[Place(Advance(head), i - 1)]]
  <2>1. Contents' = [i \in 1..length' |-> array'[Place(head', i - 1)]]
    BY Places DEF Contents, RingInv
  <2>. QED
    BY <1>1, <2>1
<1>7. Contents \in Seq(Elems \cup {None}) /\ Len(Contents) = length
  BY ContentsType
<1>8. /\ Tail(Contents) \in Seq(Elems \cup {None}) /\ Len(Tail(Contents)) = length - 1
      /\ \A i \in 1..(length - 1) : Tail(Contents)[i] = Contents[i + 1]
  <2>1. Contents # <<>>
    BY <1>2, <1>7
  <2>. QED
    BY <1>7, <2>1, HeadTailProperties
<1>9. \A i \in 1..(length - 1) : Contents[i + 1] = array[Place(head, (i + 1) - 1)]
  BY <1>2, <1>5
<1>10. Contents' = Tail(Contents)
  <2>1. Tail(Contents) = [i \in 1..Len(Tail(Contents)) |-> Tail(Contents)[i]]
    <3>1. Tail(Contents) \in [1..Len(Tail(Contents)) -> Elems \cup {None}]
      BY <1>8, LenProperties
    <3>. QED
      BY <3>1
  <2>. QED
    BY <1>4, <1>6, <1>8, <1>9, <2>1
<1>11. array[head] = Head(Contents)
  BY <1>2, <1>3, <1>5, <1>7
<1>. QED
  BY <1>2, <1>7, <1>10, <1>11

LEMMA CallInvInductive ==
  ASSUME NEW p, NEW c, p # c, Producers = {p}, Consumers = {c},
         RingInv(p, c), CallInv(p, c), [Next]_vars
  PROVE  CallInv(p, c)'
<1>. USE DEF Awake
<1>1. /\ array \in [0..Size-1 -> Elems \cup {None}]
      /\ elem \in [{p, c} -> Elems \cup {None}]
      /\ status \in [{p, c} -> Statuses]
      /\ head \in 0..Size-1 /\ tail \in 0..Size-1
      /\ None \notin Elems
  BY ThreadsAssumption DEF CallInv, RingInv
<1>2. CASE CallEnqb(p)
  BY <1>1, <1>2 DEF CallEnqb, CallInv, ring
<1>3. CASE CallDeqb(c)
  BY <1>1, <1>3 DEF CallDeqb, CallInv, ring
<1>4. ASSUME NEW t \in {p, c}, Block(t), status[t] = "lock" PROVE CallInv(p, c)'
  BY <1>1, <1>4 DEF Block, CallInv, ring
<1>5. ASSUME Put(p), status[p] # "idle" PROVE CallInv(p, c)'
  <2>1. status'[p] = "idle"
    BY <1>1, <1>5 DEF Put, SignalAndReturn
  <2>2. array' = [array EXCEPT ![tail] = elem[p]] /\ elem' = [elem EXCEPT ![p] = None]
    BY <1>5 DEF Put
  <2>. QED
    BY <1>1, <2>1, <2>2 DEF CallInv
<1>6. ASSUME Get(c), status[c] # "idle" PROVE CallInv(p, c)'
  <2>1. status'[p] # "idle" <=> status[p] # "idle"
    BY <1>1, <1>6 DEF Get, SignalAndReturn
  <2>2. array' = array /\ elem' = [elem EXCEPT ![c] = array[head]]
    BY <1>6 DEF Get
  <2>. QED
    BY <1>1, <2>1, <2>2 DEF CallInv
<1>7. ASSUME NEW t \in {p, c}, SentAway(t) PROVE CallInv(p, c)'
  BY <1>1, <1>7 DEF SentAway, CallInv, ring
<1>8. CASE Destroy
  BY <1>1, <1>8 DEF Destroy, Broadcast, Threads, CallInv
<1>9. CASE UNCHANGED vars
  BY <1>9 DEF vars, ring, CallInv
<1>10. CASE EnqbLock(p) \/ EnqbWake(p)
  BY <1>4, <1>5, <1>10 DEF EnqbLock, EnqbWake
<1>11. CASE DeqbLock(c) \/ DeqbWake(c)
  BY <1>4, <1>6, <1>11 DEF DeqbLock, DeqbWake
<1>. QED
  BY <1>2, <1>3, <1>7, <1>8, <1>9, <1>10, <1>11 DEF Next, Threads

\* An operation that moves no element and keeps everybody in or out of his call.
LEMMA NothingSeen ==
  ASSUME NEW p, NEW c, p # c, Producers = {p}, Consumers = {c},
         ring' = ring, init' = init, elem' = elem,
         status'[c] # "idle" <=> status[c] # "idle"
  PROVE  UNCHANGED Fifo!fifoVars
<1>1. array' = array /\ head' = head /\ length' = length
  BY DEF ring
<1>2. Contents' = Contents
  BY <1>1 DEF Contents
<1>. QED
  BY <1>2 DEF Fifo!fifoVars

LEMMA PutIsEnqueue ==
  ASSUME NEW p, NEW c, p # c, Producers = {p}, Consumers = {c},
         RingInv(p, c), RingInv(p, c)', CallInv(p, c), init,
         length < Size, Put(p), status[p] # "idle"
  PROVE  Fifo!Enqueue(p)
<1>1. Contents' = Append(Contents, elem[p]) /\ Len(Contents) = length
  BY PutAppends, ContentsType
<1>2. elem' = [elem EXCEPT ![p] = None] /\ init' = init /\ elem[p] # None
  BY DEF Put, CallInv
<1>3. status'[c] # "idle" <=> status[c] # "idle"
  BY DEF Put, SignalAndReturn, RingInv
<1>4. elem \in [{p, c} -> Elems \cup {None}]
  BY DEF CallInv
<1>5. [q \in Producers |-> elem'[q]] = [[q \in Producers |-> elem[q]] EXCEPT ![p] = None]
  BY <1>2, <1>4
<1>6. [d \in Consumers |-> elem'[d]] = [d \in Consumers |-> elem[d]]
  BY <1>2, <1>4
<1>7. {d \in Consumers : status'[d] # "idle"} = {d \in Consumers : status[d] # "idle"}
  BY <1>3
<1>. QED
  BY <1>1, <1>2, <1>5, <1>6, <1>7 DEF Fifo!Enqueue

LEMMA GetIsDequeue ==
  ASSUME NEW p, NEW c, p # c, Producers = {p}, Consumers = {c},
         RingInv(p, c), RingInv(p, c)', CallInv(p, c), init,
         length > 0, Get(c), status[c] # "idle"
  PROVE  Fifo!Dequeue(c)
<1>1. Contents # <<>> /\ Contents' = Tail(Contents) /\ array[head] = Head(Contents)
  BY GetTakesFirst
<1>2. elem' = [elem EXCEPT ![c] = array[head]] /\ init' = init
  BY DEF Get
<1>3. status'[c] = "idle"
  BY DEF Get, SignalAndReturn, RingInv
<1>4. elem \in [{p, c} -> Elems \cup {None}]
  BY DEF CallInv
<1>5. [q \in Producers |-> elem'[q]] = [q \in Producers |-> elem[q]]
  BY <1>2, <1>4
<1>6. [d \in Consumers |-> elem'[d]] = [[d \in Consumers |-> elem[d]] EXCEPT ![c] = Head(Contents)]
  BY <1>1, <1>2, <1>4
<1>7. /\ {d \in Consumers : status[d] # "idle"} = {c}
      /\ {d \in Consumers : status'[d] # "idle"} = {d \in Consumers : status[d] # "idle"} \ {c}
  BY <1>3
<1>. QED
  BY <1>1, <1>2, <1>5, <1>6, <1>7 DEF Fifo!Dequeue

LEMMA StepIsFifoStep ==
  ASSUME NEW p, NEW c, p # c, Producers = {p}, Consumers = {c}, ~SpuriousWakeups,
         RingInv(p, c), RingInv(p, c)', CallInv(p, c), [Next]_vars
  PROVE  [Fifo!FifoNext]_Fifo!fifoVars
<1>. USE DEF Awake
<1>1. /\ elem \in [{p, c} -> Elems \cup {None}] /\ status \in [{p, c} -> Statuses]
      /\ init \in BOOLEAN
      /\ (elem[p] # None <=> status[p] # "idle")
  BY DEF CallInv, RingInv
<1>2. ASSUME CallEnqb(p) PROVE \E e \in Elems : Fifo!Offer(p, e)
  <2>1. PICK e \in Elems : elem' = [elem EXCEPT ![p] = e]
    BY <1>2 DEF CallEnqb
  <2>2. init /\ init' = init /\ elem[p] = None /\ status'[c] = status[c] /\ UNCHANGED ring
    BY <1>1, <1>2 DEF CallEnqb
  <2>3. Contents' = Contents
    BY <2>2 DEF Contents, ring
  <2>4. /\ [q \in Producers |-> elem'[q]] = [[q \in Producers |-> elem[q]] EXCEPT ![p] = e]
        /\ [d \in Consumers |-> elem'[d]] = [d \in Consumers |-> elem[d]]
    BY <1>1, <2>1
  <2>5. {d \in Consumers : status'[d] # "idle"} = {d \in Consumers : status[d] # "idle"}
    BY <2>2
  <2>6. Fifo!Offer(p, e)
    BY <2>2, <2>3, <2>4, <2>5 DEF Fifo!Offer
  <2>. QED
    BY <2>6
<1>3. ASSUME CallDeqb(c) PROVE Fifo!Ask(c)
  <2>1. init /\ init' = init /\ elem' = elem /\ status[c] = "idle" /\ status'[c] = "lock" /\ UNCHANGED ring
    BY <1>1, <1>3 DEF CallDeqb
  <2>2. Contents' = Contents
    BY <2>1 DEF Contents, ring
  <2>3. /\ {d \in Consumers : status[d] # "idle"} = {}
        /\ {d \in Consumers : status'[d] # "idle"} = {c}
    BY <2>1
  <2>. QED
    BY <2>1, <2>2, <2>3 DEF Fifo!Ask
<1>4. ASSUME NEW t \in {p, c}, Block(t), status[t] = "lock" PROVE UNCHANGED Fifo!fifoVars
  BY <1>1, <1>4, NothingSeen DEF Block
<1>5. ASSUME EnqbLock(p) \/ EnqbWake(p)
      PROVE  Fifo!Enqueue(p) \/ UNCHANGED Fifo!fifoVars
  <2>1. CASE Block(p) /\ status[p] = "lock"
    BY <1>4, <2>1
  <2>2. CASE Put(p) /\ status[p] = "lock" /\ ~IsFull
    <3>1. init /\ length < Size
      BY <2>2, FullAndEmpty, SizeAssumption DEF RingInv
    <3>. QED
      BY <2>2, <3>1, PutIsEnqueue
  <2>3. CASE EnqbWake(p)
    BY <2>3, PutIsEnqueue DEF EnqbWake, RingInv
  <2>. QED
    BY <1>5, <2>1, <2>2, <2>3 DEF EnqbLock
<1>6. ASSUME DeqbLock(c) \/ DeqbWake(c)
      PROVE  Fifo!Dequeue(c) \/ UNCHANGED Fifo!fifoVars
  <2>1. CASE Block(c) /\ status[c] = "lock"
    BY <1>4, <2>1
  <2>2. CASE Get(c) /\ status[c] = "lock" /\ ~IsEmpty
    <3>1. init /\ length > 0
      BY <2>2, FullAndEmpty DEF RingInv
    <3>. QED
      BY <2>2, <3>1, GetIsDequeue
  <2>3. CASE DeqbWake(c)
    BY <2>3, GetIsDequeue DEF DeqbWake, RingInv
  <2>. QED
    BY <1>6, <2>1, <2>2, <2>3 DEF DeqbLock
<1>7. ASSUME NEW t \in {p, c}, SentAway(t) PROVE Fifo!SendAway
  <2>1. /\ status[t] = "woken" /\ ~init /\ init' = init /\ UNCHANGED ring
        /\ status' = [status EXCEPT ![t] = "idle"]
        /\ elem' = IF t = p THEN [elem EXCEPT ![p] = None] ELSE elem
    BY <1>7 DEF SentAway
  <2>2. Contents' = Contents
    BY <2>1 DEF Contents, ring
  <2>3. [d \in Consumers |-> elem'[d]] = [d \in Consumers |-> elem[d]]
    BY <1>1, <2>1
  <2>4. CASE t = p
    <3>1. /\ [q \in Producers |-> elem'[q]] = [[q \in Producers |-> elem[q]] EXCEPT ![p] = None]
          /\ {d \in Consumers : status'[d] # "idle"} = {d \in Consumers : status[d] # "idle"}
          /\ elem[p] # None
      BY <1>1, <2>1, <2>4
    <3>. QED
      BY <2>1, <2>2, <2>3, <3>1 DEF Fifo!SendAway
  <2>5. CASE t = c
    <3>1. /\ [q \in Producers |-> elem'[q]] = [q \in Producers |-> elem[q]]
          /\ {d \in Consumers : status[d] # "idle"} = {c}
          /\ {d \in Consumers : status'[d] # "idle"} = {d \in Consumers : status[d] # "idle"} \ {c}
      BY <1>1, <2>1, <2>5
    <3>. QED
      BY <2>1, <2>2, <2>3, <3>1 DEF Fifo!SendAway
  <2>. QED
    BY <2>4, <2>5
<1>8. ASSUME Destroy PROVE Fifo!Close
  <2>1. init /\ init' = FALSE /\ length' = 0 /\ elem' = elem
    BY <1>8 DEF Destroy
  <2>2. Contents' = <<>>
    <3>1. Contents' = [i \in 1..length' |-> array'[(head' + i - 1) % Size]]
      BY DEF Contents
    <3>. QED
      BY <2>1, <3>1
  <2>3. status'[c] # "idle" <=> status[c] # "idle"
    BY <1>1, <1>8 DEF Destroy, Broadcast, Threads
  <2>4. {d \in Consumers : status'[d] # "idle"} = {d \in Consumers : status[d] # "idle"}
    BY <2>3
  <2>. QED
    BY <1>1, <2>1, <2>2, <2>4 DEF Fifo!Close
<1>9. ASSUME UNCHANGED vars PROVE UNCHANGED Fifo!fifoVars
  BY <1>9, NothingSeen DEF vars
<1>. QED
  BY <1>2, <1>3, <1>5, <1>6, <1>7, <1>8, <1>9 DEF Next, Threads, Fifo!FifoNext

\* MSIM_TSQ_Enqb and MSIM_TSQ_Deqb are, between one producer and one consumer, the
\* operations of the queue that tsq.h describes, whatever its size.
THEOREM RingIsFifo ==
  ASSUME NEW p, NEW c, p # c, Producers = {p}, Consumers = {c}, ~SpuriousWakeups
  PROVE  Spec => ImplementsFifo
<1>. DEFINE Inv == RingInv(p, c) /\ CallInv(p, c)
<1>1. Init => Inv
  <2>. SUFFICES ASSUME Init PROVE CallInv(p, c)
    BY RingInit
  <2>. QED
    BY DEF Init, CallInv, Threads
<1>2. Init => Fifo!FifoInit
  <2>. SUFFICES ASSUME Init PROVE Fifo!FifoInit
    OBVIOUS
  <2>1. length = 0 /\ init = TRUE /\ \A t \in {p, c} : status[t] = "idle" /\ elem[t] = None
    BY DEF Init, Threads
  <2>2. Contents = <<>>
    BY <2>1 DEF Contents
  <2>. QED
    BY <2>1, <2>2 DEF Fifo!FifoInit
<1>3. Inv /\ [Next]_vars => Inv'
  BY RingInductive, CallInvInductive
<1>4. Inv /\ Inv' /\ [Next]_vars => [Fifo!FifoNext]_Fifo!fifoVars
  BY StepIsFifoStep
<1>. QED
  BY <1>1, <1>2, <1>3, <1>4, PTL DEF Spec, ImplementsFifo, Fifo!FifoSpec

-----------------------------------------------------------------------------
\* Whatever the threads and the wakeups, who is signalled and returns is a thread.
LEMMA SignalTypes ==
  ASSUME NEW t \in Threads, NEW W \in SUBSET Threads, status \in [Threads -> Statuses],
         SignalAndReturn(t, W)
  PROVE  status' \in [Threads -> Statuses]
<1>1. "idle" \in Statuses /\ "woken" \in Statuses
  BY DEF Statuses
<1>2. CASE \E w \in W : status' = [status EXCEPT ![t] = "idle", ![w] = "woken"]
  <2>1. PICK w \in W : status' = [status EXCEPT ![t] = "idle", ![w] = "woken"]
    BY <1>2
  <2>2. w \in Threads
    BY <2>1
  <2>. QED
    BY <1>1, <2>1, <2>2
<1>3. CASE status' = [status EXCEPT ![t] = "idle"]
  BY <1>1, <1>3
<1>. QED
  BY <1>2, <1>3 DEF SignalAndReturn

\* The result of a call and the status of a thread are of the types declared.
LEMMA ReturnTypes ==
  ASSUME NEW t \in Threads, NEW x \in {"OK", "NOTINIT"}, rc \in [Threads -> {"OK", "NOTINIT"}],
         Return(t, x)
  PROVE  rc' \in [Threads -> {"OK", "NOTINIT"}]
  BY DEF Return

LEMMA BlockTypes ==
  ASSUME NEW t \in Threads, TypeOK, Block(t)
  PROVE  TypeOK'
  BY DEF TypeOK, Block, Statuses, ring

LEMMA PutTypes ==
  ASSUME NEW p \in Producers, TypeOK, Put(p)
  PROVE  TypeOK'
<1>1. p \in Threads /\ Consumers \in SUBSET Threads
  BY DEF Threads
<1>2. elem[p] \in Elems \cup {None}
  BY <1>1 DEF TypeOK
<1>3. array' \in [0..Size-1 -> Elems \cup {None}]
  BY <1>2 DEF Put, TypeOK
<1>4. length' \in 0..LengthMod-1
  BY SizeAssumption DEF Put, TypeOK
<1>5. head' \in 0..Size-1 /\ tail' \in 0..Size-1
  BY AdvanceStep DEF Put, TypeOK
<1>6. status' \in [Threads -> Statuses]
  BY <1>1, SignalTypes DEF Put, TypeOK
<1>7. rc' \in [Threads -> {"OK", "NOTINIT"}]
  BY <1>1, ReturnTypes DEF Put, TypeOK
<1>8. elem' \in [Threads -> Elems \cup {None}] /\ init' \in BOOLEAN
  BY <1>1 DEF Put, TypeOK
<1>. QED
  BY <1>3, <1>4, <1>5, <1>6, <1>7, <1>8 DEF TypeOK

LEMMA GetTypes ==
  ASSUME NEW c \in Consumers, TypeOK, Get(c)
  PROVE  TypeOK'
<1>1. c \in Threads /\ Producers \in SUBSET Threads
  BY DEF Threads
<1>2. array[head] \in Elems \cup {None}
  BY DEF TypeOK
<1>4. length' \in 0..LengthMod-1
  BY SizeAssumption DEF Get, TypeOK
<1>5. head' \in 0..Size-1 /\ tail' \in 0..Size-1
  BY AdvanceStep DEF Get, TypeOK
<1>6. status' \in [Threads -> Statuses]
  BY <1>1, SignalTypes DEF Get, TypeOK
<1>7. rc' \in [Threads -> {"OK", "NOTINIT"}]
  BY <1>1, ReturnTypes DEF Get, TypeOK
<1>8. /\ elem' \in [Threads -> Elems \cup {None}] /\ init' \in BOOLEAN
      /\ array' \in [0..Size-1 -> Elems \cup {None}]
  BY <1>1, <1>2 DEF Get, TypeOK
<1>. QED
  BY <1>4, <1>5, <1>6, <1>7, <1>8 DEF TypeOK

LEMMA SentAwayTypes ==
  ASSUME NEW t \in Threads, TypeOK, SentAway(t)
  PROVE  TypeOK'
<1>1. status' \in [Threads -> Statuses]
  BY DEF SentAway, TypeOK, Statuses
<1>2. rc' \in [Threads -> {"OK", "NOTINIT"}]
  BY ReturnTypes DEF SentAway, TypeOK
<1>3. elem' \in [Threads -> Elems \cup {None}]
  BY DEF SentAway, TypeOK
<1>. QED
  BY <1>1, <1>2, <1>3 DEF SentAway, TypeOK, ring

\* msim_tsq.c, with any number of producers and consumers and with spurious wakeups:
\* the indexes stay in the ring and the length in its 32 bits.
THEOREM QueueTypes == Spec => []TypeOK
<1>1. Init => TypeOK
  <2>. SUFFICES ASSUME Init PROVE TypeOK
    OBVIOUS
  <2>1. "idle" \in Statuses /\ 0 \in 0..Size-1 /\ 0 \in 0..LengthMod-1
    BY SizeAssumption DEF Statuses
  <2>. QED
    BY <2>1 DEF Init, TypeOK
<1>2. TypeOK /\ [Next]_vars => TypeOK'
  <2>. SUFFICES ASSUME TypeOK, [Next]_vars PROVE TypeOK'
    OBVIOUS
  <2>1. ASSUME NEW p \in Producers, CallEnqb(p) PROVE TypeOK'
    BY <2>1 DEF CallEnqb, TypeOK, Statuses, Threads, ring
  <2>2. ASSUME NEW p \in Producers, EnqbLock(p) PROVE TypeOK'
    <3>1. p \in Threads
      BY DEF Threads
    <3>. QED
      BY <2>2, <3>1, PutTypes, BlockTypes DEF EnqbLock
  <2>3. ASSUME NEW p \in Producers, EnqbWake(p) PROVE TypeOK'
    BY <2>3, PutTypes DEF EnqbWake
  <2>4. ASSUME NEW c \in Consumers, CallDeqb(c) PROVE TypeOK'
    BY <2>4 DEF CallDeqb, TypeOK, Statuses, Threads, ring
  <2>5. ASSUME NEW c \in Consumers, DeqbLock(c) PROVE TypeOK'
    <3>1. c \in Threads
      BY DEF Threads
    <3>. QED
      BY <2>5, <3>1, GetTypes, BlockTypes DEF DeqbLock
  <2>6. ASSUME NEW c \in Consumers, DeqbWake(c) PROVE TypeOK'
    BY <2>6, GetTypes DEF DeqbWake
  <2>7. ASSUME NEW t \in Threads, SentAway(t) PROVE TypeOK'
    BY <2>7, SentAwayTypes
  <2>8. CASE Destroy
    <3>1. status' \in [Threads -> Statuses]
      BY <2>8 DEF Destroy, Broadcast, TypeOK, Statuses
    <3>2. head' \in 0..Size-1 /\ tail' \in 0..Size-1 /\ length' \in 0..LengthMod-1
      BY <2>8, SizeAssumption DEF Destroy
    <3>. QED
      BY <2>8, <3>1, <3>2 DEF Destroy, TypeOK
  <2>9. CASE UNCHANGED vars
    BY <2>9 DEF vars, ring, TypeOK
  <2>. QED
    BY <2>1, <2>2, <2>3, <2>4, <2>5, <2>6, <2>7, <2>8, <2>9 DEF Next
<1>. QED
  BY <1>1, <1>2, PTL DEF Spec
=============================================================================
