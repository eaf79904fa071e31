-------------------------------- MODULE TSQ ----------------------------------
(***************************************************************************)
(* The thread-safe queue of msim_tsq.c: a ring buffer under a mutex with   *)
(* two condition variables.  A thread gives the mutex up only in           *)
(* pthread_cond_wait and when it returns, so every stretch of code between *)
(* those points is one step.  A signalled thread must get the mutex back   *)
(* before it continues, and other threads may get it first.                *)
(*                                                                         *)
(* A call with a length the queue refuses (MSIM_TSQ_TOOBIG, MSIM_TSQ_ERR)  *)
(* returns before it takes the mutex and changes nothing: it is left out.  *)
(***************************************************************************)
EXTENDS Integers, Sequences, FiniteSets

CONSTANTS
  Producers, Consumers, \* threads that call Enqb, threads that call Deqb
  Elems,
  Size,                 \* MSIM_TSQ_SIZE
  LengthMod,            \* 2^32, the modulus of uint32_t length
  SpuriousWakeups,      \* may pthread_cond_wait return without a signal?
  None

Threads == Producers \cup Consumers

ASSUME SizeAssumption == Size \in Nat \ {0} /\ LengthMod \in Nat /\ LengthMod > Size
ASSUME ThreadsAssumption == Producers \cap Consumers = {} /\ None \notin Elems
ASSUME WakeupsAssumption == SpuriousWakeups \in BOOLEAN

VARIABLES
  array, head, tail, length,
  init,     \* init = TSQ_INIT
  status,   \* where a thread is: see Statuses
  elem,     \* the argument of Enqb, or the last element Deqb stored
  rc        \* the last result of a thread

ring == <<array, head, tail, length>>
vars == <<ring, init, status, elem, rc>>

Statuses == {"idle",  \* not in a call
             "lock",  \* in pthread_mutex_lock
             "wait",  \* in pthread_cond_wait, not signalled
             "woken"} \* in pthread_cond_wait, to take the mutex back

Init ==
  /\ array = [i \in 0..Size-1 |-> None]
  /\ head = 0 /\ tail = 0 /\ length = 0
  /\ init = TRUE
  /\ status = [t \in Threads |-> "idle"]
  /\ elem = [t \in Threads |-> None]
  /\ rc = [t \in Threads |-> "OK"]

\* Mutant: the index is not wrapped.
AdvanceUnwrapped(i) == i + 1
Advance(i) == IF i = Size - 1 THEN 0 ELSE i + 1

\* Mutant: the condition is never signalled.
SignalsNobody(t, waiters) == status' = [status EXCEPT ![t] = "idle"]
\* t returns, and one thread that waits for the condition it signals is woken.
SignalAndReturn(t, waiters) ==
  LET blocked == {w \in waiters : status[w] = "wait"}
  IN  IF blocked = {}
      THEN status' = [status EXCEPT ![t] = "idle"]
      ELSE \E w \in blocked :
             status' = [status EXCEPT ![t] = "idle", ![w] = "woken"]

Return(t, result) == rc' = [rc EXCEPT ![t] = result]
Block(t) == /\ status' = [status EXCEPT ![t] = "wait"]
            /\ UNCHANGED <<ring, init, elem, rc>>

\* A thread that pthread_cond_wait may let go on.
Awake(t) == status[t] \in (IF SpuriousWakeups THEN {"wait", "woken"} ELSE {"woken"})

\* A thread that finds the queue destroyed when it wakes up.
SentAway(t) ==
  /\ Awake(t) /\ ~init
  /\ status' = [status EXCEPT ![t] = "idle"]
  /\ Return(t, "NOTINIT")
  /\ elem' = IF t \in Producers THEN [elem EXCEPT ![t] = None] ELSE elem
  /\ UNCHANGED <<ring, init>>

(***************************************************************************)
(* MSIM_TSQ_Enqb                                                           *)
(***************************************************************************)
CallEnqb(p) ==
  /\ init /\ status[p] = "idle"
  /\ status' = [status EXCEPT ![p] = "lock"]
  /\ \E e \in Elems : elem' = [elem EXCEPT ![p] = e]
  /\ UNCHANGED <<ring, init, rc>>

Put(p) ==
  /\ array' = [array EXCEPT ![tail] = elem[p]]
  /\ length' = (length + 1) % LengthMod
  /\ tail' = Advance(tail) /\ UNCHANGED head
  /\ SignalAndReturn(p, Consumers)
  /\ Return(p, "OK")
  /\ elem' = [elem EXCEPT ![p] = None]
  /\ UNCHANGED init

\* Mutant: a full ring is taken for an empty one.
IsFullNever == FALSE
IsFull == length > 0 /\ tail = head

EnqbLock(p) ==
  /\ status[p] = "lock"
  /\ IF IsFull THEN Block(p) ELSE Put(p)

\* The condition is not tested again after pthread_cond_wait.
EnqbWake(p) == Awake(p) /\ init /\ Put(p)

(***************************************************************************)
(* MSIM_TSQ_Deqb                                                           *)
(***************************************************************************)
CallDeqb(c) ==
  /\ init /\ status[c] = "idle"
  /\ status' = [status EXCEPT ![c] = "lock"]
  /\ UNCHANGED <<ring, init, elem, rc>>

Get(c) ==
  /\ elem' = [elem EXCEPT ![c] = array[head]]
  /\ length' = (length - 1) % LengthMod
  /\ head' = Advance(head) /\ UNCHANGED <<array, tail>>
  /\ SignalAndReturn(c, Producers)
  /\ Return(c, "OK")
  /\ UNCHANGED init

IsEmpty == length = 0 /\ tail = head

DeqbLock(c) ==
  /\ status[c] = "lock"
  /\ IF IsEmpty THEN Block(c) ELSE Get(c)

DeqbWake(c) == Awake(c) /\ init /\ Get(c)

(***************************************************************************)
(* MSIM_TSQ_Destroy.  It is not thread-safe, but it does tell the threads  *)
(* that are blocked in the queue: no thread is about to take the mutex.    *)
(* The threads told have to lock the mutex once more on their way out; that *)
(* it is destroyed meanwhile, and the conditions with it, is outside the   *)
(* model, which takes them for usable.                                     *)
(***************************************************************************)

\* Mutant: only the consumers are told.
BroadcastElemOnly ==
  status' = [t \in Threads |->
               IF status[t] = "wait" /\ t \in Consumers THEN "woken" ELSE status[t]]
Broadcast ==
  status' = [t \in Threads |-> IF status[t] = "wait" THEN "woken" ELSE status[t]]

Destroy ==
  /\ init /\ \A t \in Threads : status[t] # "lock"
  /\ init' = FALSE
  /\ head' = 0 /\ tail' = 0 /\ length' = 0 /\ UNCHANGED array
  /\ Broadcast
  /\ UNCHANGED <<elem, rc>>

Continue(t) ==
  \/ SentAway(t)
  \/ t \in Producers /\ (EnqbLock(t) \/ EnqbWake(t))
  \/ t \in Consumers /\ (DeqbLock(t) \/ DeqbWake(t))

Next ==
  \/ \E p \in Producers : CallEnqb(p) \/ EnqbLock(p) \/ EnqbWake(p)
  \/ \E c \in Consumers : CallDeqb(c) \/ DeqbLock(c) \/ DeqbWake(c)
  \/ \E t \in Threads : SentAway(t)
  \/ Destroy
  \/ ~init /\ (\A t \in Threads : status[t] = "idle") /\ UNCHANGED vars

\* A thread that may take the mutex gets it at last; no call has to be made.
Spec == Init /\ [][Next]_vars /\ \A t \in Threads : WF_vars(Continue(t))

-----------------------------------------------------------------------------
TypeOK ==
  /\ array \in [0..Size-1 -> Elems \cup {None}]
  /\ head \in 0..Size-1 /\ tail \in 0..Size-1 /\ length \in 0..LengthMod-1
  /\ init \in BOOLEAN
  /\ status \in [Threads -> Statuses]
  /\ elem \in [Threads -> Elems \cup {None}]
  /\ rc \in [Threads -> {"OK", "NOTINIT"}]

\* tsq.h: "The calling thread will be blocked until the queue can accommodate a
\* new element": no element is overwritten before it is dequeued, and none is
\* dequeued from an empty queue (length wraps below 0).
Bounded == length <= Size

\* A signal is never lost: who waits for an element waits at an empty queue, and
\* who waits for space at a full one.
NoLostWakeup ==
  /\ \A c \in Consumers : status[c] = "wait" => length = 0
  /\ \A p \in Producers : status[p] = "wait" => length = Size

\* A destroyed queue keeps nobody: every thread blocked in it returns.
DestroyFreesAll == ~init ~> \A t \in Threads : status[t] = "idle"

\* The ring buffer is the FIFO of tsq.h, seen from the head on.
Contents == [i \in 1..length |-> array[(head + i - 1) % Size]]

Fifo == INSTANCE BoundedFifo WITH
  buf   <- Contents,
  open  <- init,
  offer <- [p \in Producers |-> elem[p]],
  asks  <- {c \in Consumers : status[c] # "idle"},
  taken <- [c \in Consumers |-> elem[c]]

\* Whatever the interleaving, Enqb and Deqb are an enqueue and a dequeue that
\* happen at one moment between call and return, or a rejection.
ImplementsFifo == Fifo!FifoSpec
=============================================================================
