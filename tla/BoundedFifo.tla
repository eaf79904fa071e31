---------------------------- MODULE BoundedFifo ------------------------------
(***************************************************************************)
(* What mcusim/tsq.h promises of a thread-safe queue: a FIFO of at most    *)
(* Size elements.  A producer is blocked until the queue can accommodate   *)
(* its element, a consumer until there is an element, and both are sent    *)
(* away when the queue is destroyed while they are blocked.                *)
(***************************************************************************)
EXTENDS Naturals, Sequences

CONSTANTS Producers, Consumers, Elems, Size, None

VARIABLES
  buf,    \* the elements in the queue
  open,   \* the queue has not been destroyed
  offer,  \* the element each producer is blocked with, or None
  asks,   \* the consumers blocked
  taken   \* the last element each consumer obtained, or None

fifoVars == <<buf, open, offer, asks, taken>>

FifoInit ==
  /\ buf = <<>> /\ open = TRUE
  /\ offer = [p \in Producers |-> None]
  /\ asks = {} /\ taken = [c \in Consumers |-> None]

Offer(p, e) ==
  /\ open = TRUE /\ offer[p] = None
  /\ offer' = [offer EXCEPT ![p] = e]
  /\ UNCHANGED <<buf, open, asks, taken>>

Enqueue(p) ==
  /\ open = TRUE /\ offer[p] # None /\ Len(buf) < Size
  /\ buf' = Append(buf, offer[p])
  /\ offer' = [offer EXCEPT ![p] = None]
  /\ UNCHANGED <<open, asks, taken>>

Ask(c) ==
  /\ open = TRUE /\ c \notin asks
  /\ asks' = asks \cup {c}
  /\ UNCHANGED <<buf, open, offer, taken>>

Dequeue(c) ==
  /\ open = TRUE /\ c \in asks /\ buf # <<>>
  /\ buf' = Tail(buf) /\ taken' = [taken EXCEPT ![c] = Head(buf)]
  /\ asks' = asks \ {c}
  /\ UNCHANGED <<open, offer>>

Close ==
  /\ open = TRUE /\ open' = FALSE /\ buf' = <<>>
  /\ UNCHANGED <<offer, asks, taken>>

SendAway ==
  /\ open = FALSE
  /\ \/ \E p \in Producers :
          offer[p] # None /\ offer' = [offer EXCEPT ![p] = None] /\ UNCHANGED asks
     \/ \E c \in asks : asks' = asks \ {c} /\ UNCHANGED offer
  /\ UNCHANGED <<buf, open, taken>>

FifoNext ==
  \/ \E p \in Producers : Enqueue(p) \/ \E e \in Elems : Offer(p, e)
  \/ \E c \in Consumers : Ask(c) \/ Dequeue(c)
  \/ Close \/ SendAway

FifoSpec == FifoInit /\ [][FifoNext]_fifoVars
=============================================================================
