------------------------------ MODULE RspProofs -------------------------------
(***************************************************************************)
(* The server of avr_gdb.c implements the session of RspSession, for any   *)
(* number of clients, requests, faults and interrupts.                     *)
(*                                                                         *)
(* What makes it so is that a request is in one place only: in the hands   *)
(* of its client, on its way to the server, refused and on its way back,   *)
(* carried out, or acknowledged.  LineInv says it of the two directions of *)
(* a connection; FreshInv, that a packet which arrives behind the          *)
(* acknowledgement of a request is the answer to that request.  A client   *)
(* that is not served cannot disturb the one that is: it has nothing to    *)
(* read (LinkInv).                                                         *)
(***************************************************************************)
EXTENDS Rsp, SequenceTheorems, TLAPS

IsReq(ch) == ch.t = "request"
IsSig(ch) == ch.t \in {"+", "-"}
IsPkt(ch) == ch.t \in {"S05", "reply"}

NoReq(u)  == \A i \in 1..Len(u) : ~IsReq(u[i])
NoSig(d)  == \A j \in 1..Len(d) : ~IsSig(d[j])
NoPlus(d) == \A j \in 1..Len(d) : d[j].t # "+"

\* h: the request in the hands of the server, todo the requests not carried out.
Waits(todos, h, r) == todos = Append(h, r)
Taken(todos, h, r) == todos = h /\ (h = <<>> \/ h = <<r>>)

LineInv(u, d, g, r, todos, h) ==
  /\ \A i, j \in 1..Len(u) : IsReq(u[i]) /\ IsReq(u[j]) => i = j
  /\ \A i, j \in 1..Len(d) : IsSig(d[i]) /\ IsSig(d[j]) => i = j
  /\ NoReq(u) \/ NoSig(d)
  /\ \A i \in 1..Len(u) : IsReq(u[i]) => u[i].r = r /\ g = "sent" /\ Waits(todos, h, r)
  /\ \A j \in 1..Len(d) : d[j].t = "-" => g = "sent" /\ Waits(todos, h, r)
  /\ \A j \in 1..Len(d) : d[j].t = "+" => g = "sent" /\ Taken(todos, h, r)
  /\ g \in {"acked", "idle"} => Taken(todos, h, r)

Fresh(d, g, j) ==
  IsPkt(d[j]) /\ (g = "acked" \/ \E k \in 1..(j - 1) : d[k].t = "+")
NoFresh(d, g) == \A j \in 1..Len(d) : ~Fresh(d, g, j)

FreshInv(d, g, n) == \A j \in 1..Len(d) : Fresh(d, g, j) => d[j].no = n

-----------------------------------------------------------------------------
(* The two directions of a connection. *)

LEMMA AppendAt ==
  ASSUME NEW S, NEW s \in Seq(S), NEW x
  PROVE  /\ Len(s) \in Nat /\ Len(Append(s, x)) = Len(s) + 1
         /\ \A i \in 1..Len(s) : Append(s, x)[i] = s[i]
         /\ Append(s, x)[Len(s) + 1] = x
         /\ x \in S => Append(s, x) \in Seq(S)
  OBVIOUS

LEMMA TailAt ==
  ASSUME NEW S, NEW s \in Seq(S), s # <<>>
  PROVE  /\ Len(s) \in Nat \ {0} /\ Len(Tail(s)) = Len(s) - 1
         /\ Head(s) = s[1] /\ Head(s) \in S /\ Tail(s) \in Seq(S)
         /\ \A i \in 1..(Len(s) - 1) : Tail(s)[i] = s[i + 1] /\ i + 1 \in 1..Len(s)
  BY HeadTailProperties, EmptySeq

\* Nothing on the line that matters.
LEMMA LineIdle ==
  ASSUME NEW u, NEW d, NEW g, NEW r, NEW todos, NEW h,
         NoReq(u), NoSig(d), g \in {"acked", "idle"} => Taken(todos, h, r)
  PROVE  LineInv(u, d, g, r, todos, h)
  BY DEF LineInv, NoReq, NoSig, IsSig

LEMMA LineUpTail ==
  ASSUME NEW S, NEW u \in Seq(S), u # <<>>, NEW d, NEW g, NEW r, NEW todos, NEW h,
         LineInv(u, d, g, r, todos, h)
  PROVE  /\ LineInv(Tail(u), d, g, r, todos, h)
         /\ IsReq(Head(u)) =>
              /\ NoReq(Tail(u)) /\ NoSig(d)
              /\ Head(u).r = r /\ g = "sent" /\ Waits(todos, h, r)
<1>1. NoReq(u) => NoReq(Tail(u))
  BY TailAt DEF NoReq
<1>2. IsReq(Head(u)) => NoReq(Tail(u)) /\ ~NoReq(u)
  BY TailAt DEF NoReq, LineInv
<1>3. IsReq(Head(u)) => Head(u).r = r /\ g = "sent" /\ Waits(todos, h, r)
  BY TailAt DEF LineInv
<1>4. LineInv(Tail(u), d, g, r, todos, h)
  <2>1. \A i, j \in 1..Len(Tail(u)) : IsReq(Tail(u)[i]) /\ IsReq(Tail(u)[j]) => i = j
    BY TailAt DEF LineInv
  <2>2. \A i \in 1..Len(Tail(u)) :
          IsReq(Tail(u)[i]) => Tail(u)[i].r = r /\ g = "sent" /\ Waits(todos, h, r)
    BY TailAt DEF LineInv
  <2>. QED
    BY <1>1, <2>1, <2>2 DEF LineInv
<1>. QED
  BY <1>2, <1>3, <1>4 DEF LineInv

LEMMA LineUpAppend ==
  ASSUME NEW S, NEW u \in Seq(S), NEW d, NEW g, NEW r, NEW todos, NEW h, NEW x,
         LineInv(u, d, g, r, todos, h),
         IsReq(x) => x.r = r /\ g = "sent" /\ Waits(todos, h, r) /\ NoReq(u) /\ NoSig(d)
  PROVE  LineInv(Append(u, x), d, g, r, todos, h)
<1>. DEFINE v == Append(u, x)
<1>1. NoReq(v) \/ NoSig(d)
  BY AppendAt DEF NoReq, LineInv
<1>2. \A i, j \in 1..Len(v) : IsReq(v[i]) /\ IsReq(v[j]) => i = j
  BY AppendAt DEF LineInv, NoReq
<1>3. \A i \in 1..Len(v) : IsReq(v[i]) => v[i].r = r /\ g = "sent" /\ Waits(todos, h, r)
  BY AppendAt DEF LineInv
<1>. QED
  BY <1>1, <1>2, <1>3 DEF LineInv

LEMMA LineDownTail ==
  ASSUME NEW S, NEW d \in Seq(S), d # <<>>, NEW u, NEW g, NEW r, NEW todos, NEW h,
         LineInv(u, d, g, r, todos, h)
  PROVE  /\ LineInv(u, Tail(d), g, r, todos, h)
         /\ NoSig(d) => NoSig(Tail(d))
         /\ IsSig(Head(d)) => NoSig(Tail(d)) /\ NoReq(u) /\ g = "sent"
         /\ Head(d).t = "-" => Waits(todos, h, r)
         /\ Head(d).t = "+" => Taken(todos, h, r)
<1>1. NoSig(d) => NoSig(Tail(d))
  BY TailAt DEF NoSig
<1>2. IsSig(Head(d)) => NoSig(Tail(d)) /\ ~NoSig(d)
  BY TailAt DEF NoSig, LineInv
<1>3. /\ IsSig(Head(d)) => g = "sent"
      /\ Head(d).t = "-" => Waits(todos, h, r)
      /\ Head(d).t = "+" => Taken(todos, h, r)
  BY TailAt DEF LineInv, IsSig
<1>4. LineInv(u, Tail(d), g, r, todos, h)
  <2>1. \A i, j \in 1..Len(Tail(d)) : IsSig(Tail(d)[i]) /\ IsSig(Tail(d)[j]) => i = j
    BY TailAt DEF LineInv
  <2>2. /\ \A j \in 1..Len(Tail(d)) :
             Tail(d)[j].t = "-" => g = "sent" /\ Waits(todos, h, r)
        /\ \A j \in 1..Len(Tail(d)) :
             Tail(d)[j].t = "+" => g = "sent" /\ Taken(todos, h, r)
    BY TailAt DEF LineInv
  <2>. QED
    BY <1>1, <2>1, <2>2 DEF LineInv
<1>. QED
  BY <1>1, <1>2, <1>3, <1>4 DEF LineInv

LEMMA LineDownAppend ==
  ASSUME NEW S, NEW d \in Seq(S), NEW u, NEW g, NEW r, NEW todos, NEW h, NEW x,
         LineInv(u, d, g, r, todos, h),
         IsSig(x) => g = "sent" /\ NoReq(u) /\ NoSig(d),
         x.t = "-" => Waits(todos, h, r),
         x.t = "+" => Taken(todos, h, r)
  PROVE  LineInv(u, Append(d, x), g, r, todos, h)
<1>. DEFINE e == Append(d, x)
<1>1. NoReq(u) \/ NoSig(e)
  BY AppendAt DEF NoSig, LineInv
<1>2. \A i, j \in 1..Len(e) : IsSig(e[i]) /\ IsSig(e[j]) => i = j
  BY AppendAt DEF LineInv, NoSig
<1>3. /\ \A j \in 1..Len(e) : e[j].t = "-" => g = "sent" /\ Waits(todos, h, r)
      /\ \A j \in 1..Len(e) : e[j].t = "+" => g = "sent" /\ Taken(todos, h, r)
  BY AppendAt DEF LineInv, IsSig
<1>. QED
  BY <1>1, <1>2, <1>3 DEF LineInv

\* A request is carried out.
LEMMA LineServed ==
  ASSUME NEW u, NEW d, NEW g, NEW r, NEW todos, NEW h, NEW todos2, NEW h2,
         LineInv(u, d, g, r, todos, h),
         Waits(todos, h, r) => Waits(todos2, h2, r),
         Taken(todos, h, r) => Taken(todos2, h2, r)
  PROVE  LineInv(u, d, g, r, todos2, h2)
  BY DEF LineInv

-----------------------------------------------------------------------------
(* Packets that a client takes for an answer. *)

LEMMA FreshTail ==
  ASSUME NEW S, NEW d \in Seq(S), d # <<>>, NEW g, NEW g2, NEW j \in 1..Len(Tail(d)),
         Head(d).t = "+" \/ g2 # "acked" \/ g = "acked",
         Fresh(Tail(d), g2, j)
  PROVE  j + 1 \in 1..Len(d) /\ d[j + 1] = Tail(d)[j] /\ Fresh(d, g, j + 1)
<1>1. j \in Nat /\ j + 1 \in 1..Len(d) /\ d[j + 1] = Tail(d)[j] /\ IsPkt(d[j + 1])
  BY TailAt DEF Fresh
<1>2. CASE g2 # "acked"
  <2>1. PICK k \in 1..(j - 1) : Tail(d)[k].t = "+"
    BY <1>2 DEF Fresh
  <2>2. k + 1 \in 1..((j + 1) - 1) /\ d[k + 1].t = "+"
    BY <1>1, <2>1, TailAt
  <2>. QED
    BY <1>1, <2>2 DEF Fresh
<1>3. CASE Head(d).t = "+"
  <2>1. 1 \in 1..((j + 1) - 1) /\ d[1].t = "+"
    BY <1>1, <1>3, TailAt
  <2>. QED
    BY <1>1, <2>1 DEF Fresh
<1>4. CASE g = "acked"
  BY <1>1, <1>4 DEF Fresh
<1>. QED
  BY <1>2, <1>3, <1>4

LEMMA FreshInvTail ==
  ASSUME NEW S, NEW d \in Seq(S), d # <<>>, NEW g, NEW g2, NEW n,
         FreshInv(d, g, n),
         Head(d).t = "+" \/ g2 # "acked" \/ g = "acked"
  PROVE  /\ FreshInv(Tail(d), g2, n)
         /\ NoFresh(d, g) => NoFresh(Tail(d), g2)
  BY FreshTail DEF FreshInv, NoFresh

\* The first packet a client reads, once its request is acknowledged.
LEMMA FreshHead ==
  ASSUME NEW S, NEW d \in Seq(S), d # <<>>, IsPkt(Head(d))
  PROVE  1 \in 1..Len(d) /\ Head(d) = d[1] /\ Fresh(d, "acked", 1)
  BY TailAt DEF Fresh

LEMMA FreshAppend ==
  ASSUME NEW S, NEW d \in Seq(S), NEW g, NEW x, NEW n, FreshInv(d, g, n)
  PROVE  /\ ~IsPkt(x) \/ x.no = n \/ (g # "acked" /\ NoPlus(d)) => FreshInv(Append(d, x), g, n)
         /\ NoFresh(d, g) /\ (~IsPkt(x) \/ (g # "acked" /\ NoPlus(d)))
              => NoFresh(Append(d, x), g)
<1>. DEFINE e == Append(d, x)
<1>1. ASSUME NEW j \in 1..Len(e), Fresh(e, g, j)
      PROVE  \/ j \in 1..Len(d) /\ e[j] = d[j] /\ Fresh(d, g, j)
             \/ e[j] = x /\ IsPkt(x) /\ (g = "acked" \/ ~NoPlus(d))
  <2>1. CASE j \in 1..Len(d)
    <3>1. e[j] = d[j] /\ \A k \in 1..(j - 1) : e[k] = d[k]
      BY <2>1, AppendAt
    <3>. QED
      BY <1>1, <2>1, <3>1 DEF Fresh
  <2>2. CASE j = Len(d) + 1
    <3>1. e[j] = x /\ \A k \in 1..(j - 1) : e[k] = d[k] /\ k \in 1..Len(d)
      BY <2>2, AppendAt
    <3>. QED
      BY <1>1, <3>1 DEF Fresh, NoPlus
  <2>. QED
    <3>1. Len(d) \in Nat /\ Len(e) = Len(d) + 1
      BY AppendAt
    <3>. QED
      BY <2>1, <2>2, <3>1
<1>. QED
  BY <1>1 DEF FreshInv, NoFresh

\* A client that waits for no answer, and has no acknowledgement to read.
LEMMA FreshNone ==
  ASSUME NEW S, NEW d \in Seq(S), NEW g, g # "acked", NoPlus(d)
  PROVE  NoFresh(d, g)
  BY AppendAt DEF Fresh, NoFresh, NoPlus

LEMMA NoSigNoPlus ==
  ASSUME NEW d, NoSig(d)
  PROVE  NoPlus(d)
  BY DEF NoSig, NoPlus, IsSig

-----------------------------------------------------------------------------
(* The invariant. *)

States == {"AVR_STOPPED", "AVR_RUNNING", "AVR_MSIM_STEP", "AVR_MSIM_STOP"}
Downs  == {Ack, Nak} \cup Packets

RspTypes ==
  /\ fserv \in BOOLEAN /\ fcli \in Clients \cup {None} /\ client_waiting \in BOOLEAN
  /\ state \in States /\ at \in Places
  /\ buf \in Chars \cup Packets /\ after \in {"sim", "wait", "close"}
  /\ backlog \subseteq Clients
  /\ link \in [Clients -> {"off", "up", "closed", "dropped"}]
  /\ up \in [Clients -> Seq(Chars)] /\ down \in [Clients -> Seq(Downs)]
  /\ gdb \in [Clients -> {"idle", "sent", "acked"}] /\ call \in [Clients -> Requests]
  /\ asked \in [Clients -> Nat] /\ answered \in [Clients -> Nat]
  /\ todo \in [Clients -> Seq(Requests)]
  /\ faults \in 0..MaxFaults /\ interrupts \in 0..MaxInterrupts
  /\ \A c \in Clients : asked[c] <= MaxRequests[c] /\ answered[c] <= asked[c]

\* The request of a client that the server is about to carry out.
Held(c) == IF at = "handle" /\ fcli = c THEN <<buf.r>> ELSE <<>>

\* An answer on its way is to a request that has been carried out, and if that
\* resumed the MCU, the MCU has stopped.
ClientInv(c) ==
  /\ LineInv(up[c], down[c], gdb[c], call[c], todo[c], Held(c))
  /\ FreshInv(down[c], gdb[c], asked[c])
  /\ \/ NoFresh(down[c], gdb[c])
     \/ /\ todo[c] = <<>>
        /\ call[c] \in Resumes /\ link[c] # "closed" => state = "AVR_STOPPED"
  /\ gdb[c] = "idle" <=> answered[c] = asked[c]

StopInv ==
  /\ at \in {"accept", "wait", "handle", "ack"} => state = "AVR_STOPPED"
  /\ at = "accept" => fcli = None

HandleInv ==
  at = "handle" =>
    /\ fcli \in Clients /\ buf \in Chars /\ IsReq(buf)
    /\ todo[fcli] # <<>> /\ Head(todo[fcli]) = buf.r
    /\ buf.r \notin Unanswered =>
         buf.r = call[fcli] /\ todo[fcli] = <<buf.r>> /\ gdb[fcli] # "idle"

\* A packet that is sent again answers the last request, or no request at all.
AckInv ==
  at = "ack" =>
    /\ fcli \in Clients /\ buf \in Packets /\ buf.no <= asked[fcli]
    /\ buf.no = asked[fcli] => todo[fcli] = <<>>
    /\ buf.no # asked[fcli] => gdb[fcli] # "acked" /\ NoPlus(down[fcli])
    /\ after = "close" => call[fcli] = "D"

WaitingInv ==
  client_waiting /\ Running =>
    /\ at = "sim" /\ fcli \in Clients /\ call[fcli] \in Resumes
    /\ todo[fcli] = <<>> /\ gdb[fcli] # "idle" /\ NoFresh(down[fcli], gdb[fcli])

\* A client with nothing to read and no answer to wait for.
Unserved(c) == down[c] = <<>> /\ gdb[c] # "acked"

LinkInv ==
  Running =>
    /\ fcli # None => link[fcli] \in {"up", "closed"}
    /\ \A c \in Clients :
         /\ link[c] = "up" => c \in backlog \cup {fcli}
         /\ c \in backlog => c # fcli /\ link[c] \in {"up", "closed"} /\ Unserved(c)
         /\ link[c] = "off" => Unserved(c)
         /\ link[c] = "dropped" => call[c] \notin Resumes \/ Unserved(c)

ServerInv == StopInv /\ HandleInv /\ AckInv /\ WaitingInv
RspInv == RspTypes /\ (\A c \in Clients : ClientInv(c)) /\ ServerInv /\ LinkInv

-----------------------------------------------------------------------------
(* What the steps have in common. *)

LEMMA Unresumed == Resumes \cap Unanswered = {} /\ "D" \notin Resumes /\ "X" \notin Resumes
  BY DEF Resumes, Unanswered

LEMMA UnservedNotFresh ==
  ASSUME NEW c \in Clients, RspTypes, Unserved(c)
  PROVE  NoFresh(down[c], gdb[c])
<1>1. down[c] \in Seq(Downs) /\ NoPlus(down[c])
  BY EmptySeq DEF RspTypes, Unserved, NoPlus
<1>. QED
  BY <1>1, FreshNone DEF Unserved

\* A step that does not concern a client, but for the state of the MCU and of links.
LEMMA ClientFrame ==
  ASSUME NEW c \in Clients, ClientInv(c),
         up'[c] = up[c], down'[c] = down[c], gdb'[c] = gdb[c], call'[c] = call[c],
         asked'[c] = asked[c], answered'[c] = answered[c], todo'[c] = todo[c],
         Held(c)' = Held(c),
         link'[c] # "closed" => link[c] # "closed",
         \/ state' \in {state, "AVR_STOPPED"} \/ NoFresh(down[c], gdb[c])
         \/ call[c] \notin Resumes \/ link'[c] = "closed"
  PROVE  ClientInv(c)'
  BY DEF ClientInv

-----------------------------------------------------------------------------
(* Steps that leave what is on the line alone. *)

LEMMA QuietStep ==
  ASSUME RspInv, state' \in {state, "AVR_STOPPED"}, at # "handle", at' # "handle",
         \A c \in Clients : link'[c] # "closed" => link[c] # "closed",
         UNCHANGED <<up, down, client, todo>>
  PROVE  \A c \in Clients : ClientInv(c)'
<1>. SUFFICES ASSUME NEW c \in Clients PROVE ClientInv(c)'
  OBVIOUS
<1>1. Held(c) = <<>> /\ Held(c)' = <<>>
  BY DEF Held
<1>. QED
  BY <1>1, ClientFrame DEF RspInv, client

LEMMA QuietFailures ==
  ASSUME RspInv, PollFails \/ SigPipe \/ Finish
  PROVE  RspInv'
<1>1. /\ at \in {"accept", "wait", "ack", "sim"} /\ at' \in {"failed", "killed", "done"}
      /\ CloseAll /\ faults' \in 0..MaxFaults
      /\ UNCHANGED <<client_waiting, buf, after, state, up, down, client, todo>>
  BY BoundsAssumption DEF RspInv, RspTypes, PollFails, SigPipe, Finish
<1>2. link' \in [Clients -> {"off", "up", "closed", "dropped"}]
  BY <1>1 DEF RspInv, RspTypes, CloseAll, Dropped
<1>3. RspTypes'
  BY <1>1, <1>2 DEF RspInv, RspTypes, CloseAll, client, Places
<1>4. \A c \in Clients : link'[c] # "closed" => link[c] # "closed"
  BY <1>1 DEF CloseAll, Dropped
<1>5. \A c \in Clients : ClientInv(c)'
  BY <1>1, <1>4, QuietStep
<1>6. ServerInv' /\ LinkInv'
  BY <1>1 DEF ServerInv, StopInv, HandleInv, AckInv, WaitingInv, LinkInv, Running
<1>. QED
  BY <1>3, <1>5, <1>6 DEF RspInv

LEMMA QuietSignal ==
  ASSUME RspInv, Signal
  PROVE  RspInv'
<1>1. /\ at = "wait" /\ at' = "sim"
      /\ UNCHANGED <<fserv, fcli, client_waiting, buf, after, state, backlog, link, up,
                     down, client, todo, faults>>
  BY DEF Signal
<1>2. RspTypes'
  BY <1>1 DEF RspInv, RspTypes, client, Places
<1>3. \A c \in Clients : ClientInv(c)'
  BY <1>1, QuietStep
<1>4. ServerInv'
  BY <1>1 DEF RspInv, ServerInv, StopInv, HandleInv, AckInv, WaitingInv,
              Running, client
<1>5. LinkInv'
  BY <1>1 DEF RspInv, LinkInv, Running, Unserved, client
<1>. QED
  BY <1>2, <1>3, <1>4, <1>5 DEF RspInv

LEMMA QuietStop ==
  ASSUME RspInv, StepEnds \/ BreakReached
  PROVE  RspInv'
<1>1. /\ at = "sim" /\ state' = "AVR_STOPPED"
      /\ UNCHANGED <<server, backlog, link, up, down, client, todo, faults>>
  BY DEF StepEnds, BreakReached, McuStops
<1>2. RspTypes'
  BY <1>1 DEF RspInv, RspTypes, client, server, States
<1>3. \A c \in Clients : ClientInv(c)'
  BY <1>1, QuietStep DEF server
<1>4. ServerInv'
  BY <1>1 DEF RspInv, ServerInv, StopInv, HandleInv, AckInv, WaitingInv, Running,
              client, server
<1>5. LinkInv'
  BY <1>1 DEF RspInv, LinkInv, Running, Unserved, client, server
<1>. QED
  BY <1>2, <1>3, <1>4, <1>5 DEF RspInv

\* The end of a connection that the client has closed.
LEMMA QuietEof ==
  ASSUME RspInv, GetEof \/ AckEof
  PROVE  RspInv'
<1>1. /\ at \in {"wait", "ack"} /\ at' \in {"sim", "wait"} /\ fcli \in Clients
      /\ link[fcli] = "closed" /\ CloseClient
      /\ UNCHANGED <<fserv, client_waiting, buf, after, state, backlog, up, down, client,
                     todo, faults>>
  BY DEF RspInv, RspTypes, ServerInv, AckInv, GetEof, AckEof, PutReturns
<1>2. link' = link
  BY <1>1 DEF CloseClient, Dropped, RspInv, RspTypes
<1>3. RspTypes'
  BY <1>1, <1>2 DEF RspInv, RspTypes, CloseClient, client, Places
<1>4. \A c \in Clients : ClientInv(c)'
  BY <1>1, <1>2, QuietStep
<1>5. ServerInv'
  BY <1>1 DEF RspInv, RspTypes, ServerInv, StopInv, HandleInv, AckInv, WaitingInv,
              Running, client
<1>6. LinkInv'
  <2>1. Running /\ fcli' = None /\ backlog' = backlog
    BY <1>1 DEF Running, CloseClient
  <2>2. \A c \in Clients : Unserved(c)' = Unserved(c)
    BY <1>1 DEF Unserved, client
  <2>. QED
    <3>1. \A c \in Clients : link[c] = "up" => c \in backlog
      BY <1>1, <2>1 DEF RspInv, LinkInv
    <3>2. \A c \in Clients :
            /\ c \in backlog => link[c] \in {"up", "closed"} /\ Unserved(c)
            /\ link[c] = "off" => Unserved(c)
            /\ link[c] = "dropped" => call[c] \notin Resumes \/ Unserved(c)
      BY <2>1 DEF RspInv, LinkInv
    <3>3. \A c \in Clients : c # None
      BY BoundsAssumption
    <3>. QED
      BY <1>1, <1>2, <2>1, <2>2, <3>1, <3>2, <3>3 DEF LinkInv, client
<1>. QED
  BY <1>3, <1>4, <1>5, <1>6 DEF RspInv

LEMMA QuietAccept ==
  ASSUME RspInv, NEW c \in Clients, Accept(c)
  PROVE  RspInv'
<1>1. /\ at = "accept" /\ at' = "wait" /\ fcli' = c /\ c \in backlog
      /\ backlog' = backlog \ {c} /\ client_waiting' = FALSE
      /\ UNCHANGED <<fserv, state, buf, after, link, up, down, client, todo, faults>>
  BY DEF Accept
<1>2. RspTypes'
  BY <1>1 DEF RspInv, RspTypes, client, Places
<1>3. \A d \in Clients : ClientInv(d)'
  BY <1>1, QuietStep
<1>4. ServerInv'
  BY <1>1 DEF RspInv, ServerInv, StopInv, HandleInv, AckInv, WaitingInv
<1>5. LinkInv'
  BY <1>1, BoundsAssumption
     DEF RspInv, LinkInv, ServerInv, StopInv, Running, Unserved, client
<1>. QED
  BY <1>2, <1>3, <1>4, <1>5 DEF RspInv

LEMMA QuietAcceptFails ==
  ASSUME RspInv, NEW c \in Clients, AcceptFails(c)
  PROVE  RspInv'
<1>1. /\ at = "accept" /\ c \in backlog /\ faults' \in 0..MaxFaults
      /\ fserv' \in BOOLEAN
      /\ \E cs \in SUBSET backlog : backlog' = backlog \ cs /\ link' = Dropped(cs)
      /\ UNCHANGED <<fcli, client_waiting, at, buf, after, state, up, down, client, todo>>
  <2>1. \E cs \in SUBSET backlog : backlog' = backlog \ cs /\ link' = Dropped(cs)
    <3>1. CASE backlog' = backlog \ {c} /\ link' = Dropped({c})
      BY <3>1 DEF AcceptFails
    <3>2. CASE backlog' = {} /\ link' = Dropped(backlog)
      BY <3>2
    <3>. QED
      BY <3>1, <3>2 DEF AcceptFails
  <2>2. faults < MaxFaults /\ faults' = faults + 1 /\ fserv' \in {fserv, FALSE}
    BY DEF AcceptFails
  <2>3. faults' \in 0..MaxFaults
    BY <2>2, BoundsAssumption DEF RspInv, RspTypes
  <2>4. fserv' \in BOOLEAN
    BY <2>2 DEF RspInv, RspTypes
  <2>. QED
    BY <2>1, <2>3, <2>4 DEF AcceptFails
<1>2. PICK cs \in SUBSET backlog : backlog' = backlog \ cs /\ link' = Dropped(cs)
  BY <1>1
<1>3. /\ link' \in [Clients -> {"off", "up", "closed", "dropped"}]
      /\ \A d \in Clients : link'[d] =
           IF d \in cs /\ link[d] = "up" THEN "dropped" ELSE link[d]
  BY <1>2 DEF Dropped, RspInv, RspTypes
<1>4. RspTypes'
  BY <1>1, <1>2, <1>3 DEF RspInv, RspTypes, client
<1>5. \A d \in Clients : ClientInv(d)'
  BY <1>1, <1>3, QuietStep
<1>6. ServerInv'
  BY <1>1 DEF RspInv, ServerInv, StopInv, HandleInv, AckInv, WaitingInv,
              Running, client
<1>7. LinkInv'
  <2>1. Running /\ Running' /\ fcli = None
    BY <1>1 DEF Running, RspInv, ServerInv, StopInv
  <2>2. \A d \in Clients : Unserved(d)' = Unserved(d)
    BY <1>1 DEF Unserved, client
  <2>. QED
    BY <1>1, <1>2, <1>3, <2>1, <2>2 DEF RspInv, LinkInv, client
<1>. QED
  BY <1>4, <1>5, <1>6, <1>7 DEF RspInv

\* The client opens or closes its end.
LEMMA ClientMoves ==
  ASSUME RspInv, NEW c \in Clients, Connect(c) \/ Close(c)
  PROVE  RspInv'
<1>1. /\ \/ link[c] = "off" /\ link' = [link EXCEPT ![c] = "up"] /\ backlog' = backlog \cup {c}
         \/ link[c] = "up" /\ link' = [link EXCEPT ![c] = "closed"] /\ backlog' = backlog
      /\ UNCHANGED <<server, state, up, down, client, todo, faults>>
  BY DEF Connect, Close
<1>2. RspTypes'
  BY <1>1 DEF RspInv, RspTypes, client, server
<1>3. \A d \in Clients : ClientInv(d)'
  <2>. SUFFICES ASSUME NEW d \in Clients PROVE ClientInv(d)'
    OBVIOUS
  <2>1. link'[d] # "closed" => link[d] # "closed"
    BY <1>1 DEF RspInv, RspTypes
  <2>2. Held(d)' = Held(d)
    BY <1>1 DEF Held, server
  <2>. QED
    BY <1>1, <2>1, <2>2, ClientFrame DEF RspInv, client
<1>4. ServerInv'
  BY <1>1 DEF RspInv, ServerInv, StopInv, HandleInv, AckInv, WaitingInv, Running,
              client, server
<1>5. LinkInv'
  <2>1. Running' = Running /\ fcli' = fcli /\ call' = call
    BY <1>1 DEF Running,
              client, server
  <2>2. \A d \in Clients : Unserved(d)' = Unserved(d)
    BY <1>1 DEF Unserved, client
  <2>3. \A d \in Clients \ {c} : link'[d] = link[d] /\ (d \in backlog' <=> d \in backlog)
    BY <1>1 DEF RspInv, RspTypes
  <2>4. CASE link[c] = "off"
    <3>1. link'[c] = "up" /\ c \in backlog'
      BY <1>1, <2>4 DEF RspInv, RspTypes
    <3>. QED
      <4>1. Running => c # fcli /\ Unserved(c)
        BY <2>4, BoundsAssumption DEF RspInv, LinkInv
      <4>2. fcli \in Clients \cup {None}
        BY DEF RspInv, RspTypes
      <4>. QED
        BY <2>1, <2>2, <2>3, <3>1, <4>1, <4>2 DEF RspInv, LinkInv
  <2>5. CASE link[c] = "up"
    <3>1. link'[c] = "closed" /\ backlog' = backlog
      BY <1>1, <2>5 DEF RspInv, RspTypes
    <3>. QED
      BY <2>1, <2>2, <2>3, <2>5, <3>1 DEF RspInv, RspTypes, LinkInv
  <2>. QED
    BY <1>1, <2>4, <2>5
<1>. QED
  BY <1>2, <1>3, <1>4, <1>5 DEF RspInv

-----------------------------------------------------------------------------
(* What is written to the line. *)

LEMMA Kinds ==
  /\ \A ch \in Chars : /\ ch.t \in {"+", "-", "0x03", "request"}
                       /\ IsReq(ch) => ch.r \in Requests
  /\ \A ch \in Downs : /\ ch.t \in {"+", "-", "S05", "reply"}
                       /\ IsPkt(ch) => ch \in Packets
  /\ \A p \in Packets : IsPkt(p) /\ ~IsReq(p) /\ ~IsSig(p) /\ p \in Downs /\ p.no \in Nat
  BY DEF Chars, Packets, Downs, Ack, Nak, Interrupt, IsReq, IsPkt, IsSig

LEMMA Signs ==
  /\ Ack \in Chars \cap Downs /\ Ack.t = "+" /\ ~IsPkt(Ack) /\ ~IsReq(Ack) /\ IsSig(Ack)
  /\ Nak \in Chars \cap Downs /\ Nak.t = "-" /\ ~IsPkt(Nak) /\ ~IsReq(Nak) /\ IsSig(Nak)
  /\ Interrupt \in Chars /\ ~IsReq(Interrupt)
  BY DEF Chars, Downs, Ack, Nak, Interrupt, IsReq, IsPkt, IsSig

LEMMA RequestSent ==
  ASSUME NEW r \in Requests, NEW b \in BOOLEAN
  PROVE  LET q == [Request(r) EXCEPT !.ok = b] IN q \in Chars /\ IsReq(q) /\ q.r = r
  BY DEF Request, Chars, IsReq

LEMMA PacketSent ==
  ASSUME NEW p \in Packets, NEW b \in BOOLEAN
  PROVE  LET q == [p EXCEPT !.ok = b] IN q \in Packets /\ q.no = p.no
  BY DEF Packets

LEMMA PacketsMade ==
  ASSUME NEW n \in Nat
  PROVE  Report(n) \in Packets /\ Report(n).no = n /\ Reply(n) \in Packets /\ Reply(n).no = n
  BY DEF Report, Reply, Packets

\* A packet that is not taken for the answer to a later request.
LEMMA SentKeeps ==
  ASSUME RspInv, NEW c \in Clients, NEW p \in Packets, Sent(c, p),
         p.no = asked[c] \/ (gdb[c] # "acked" /\ NoPlus(down[c]))
  PROVE  /\ faults' \in 0..MaxFaults /\ down' \in [Clients -> Seq(Downs)]
         /\ \A d \in Clients \ {c} : down'[d] = down[d]
         /\ \A u, r, todos, h :
              LineInv(u, down[c], gdb[c], r, todos, h)
                => LineInv(u, down'[c], gdb[c], r, todos, h)
         /\ FreshInv(down'[c], gdb[c], asked[c])
         /\ NoPlus(down[c]) => NoPlus(down'[c])
         /\ link[c] # "up" => down' = down
<1>. down \in [Clients -> Seq(Downs)] /\ down[c] \in Seq(Downs)
     /\ FreshInv(down[c], gdb[c], asked[c])
  BY DEF RspInv, RspTypes, ClientInv
<1>1. CASE link[c] # "up"
  BY <1>1 DEF Sent, RspInv, RspTypes
<1>2. CASE link[c] = "up"
  <2>1. PICK bad \in BOOLEAN :
          /\ bad => faults < MaxFaults
          /\ faults' = IF bad THEN faults + 1 ELSE faults
          /\ down' = [down EXCEPT ![c] = Append(@, [p EXCEPT !.ok = ~bad])]
    BY <1>2 DEF Sent
  <2>2. PICK q \in Packets : q.no = p.no /\ q = [p EXCEPT !.ok = ~bad]
    BY PacketSent
  <2>3. faults' \in 0..MaxFaults
    <3>1. faults \in 0..MaxFaults /\ MaxFaults \in Nat
      BY BoundsAssumption DEF RspInv, RspTypes
    <3>2. CASE bad
      BY <2>1, <3>1, <3>2
    <3>3. CASE ~bad
      BY <2>1, <3>1, <3>3
    <3>. QED
      BY <3>2, <3>3
  <2>4. /\ down'[c] = Append(down[c], q) /\ \A d \in Clients \ {c} : down'[d] = down[d]
        /\ down' \in [Clients -> Seq(Downs)]
    BY <2>1, <2>2, AppendAt, Kinds
  <2>5. IsPkt(q) /\ ~IsSig(q) /\ q.t # "+" /\ q.t # "-"
    BY <2>2, Kinds DEF IsSig
  <2>6. FreshInv(down'[c], gdb[c], asked[c])
    <3>1. q.no = asked[c] \/ (gdb[c] # "acked" /\ NoPlus(down[c]))
      BY <2>2
    <3>2. FreshInv(Append(down[c], q), gdb[c], asked[c])
      BY <3>1, FreshAppend
    <3>. QED
      BY <2>4, <3>2
  <2>7. NoPlus(down[c]) => NoPlus(down'[c])
    BY <2>4, <2>5, AppendAt DEF NoPlus
  <2>8. \A u, r, todos, h : LineInv(u, down[c], gdb[c], r, todos, h)
                              => LineInv(u, down'[c], gdb[c], r, todos, h)
    BY <2>4, <2>5, LineDownAppend
  <2>. QED
    BY <1>2, <2>3, <2>4, <2>6, <2>7, <2>8
<1>. QED
  BY <1>1, <1>2

-----------------------------------------------------------------------------
(* The server's steps. *)

\* A packet goes out: the first time, or again.
LEMMA PacketStep ==
  ASSUME RspInv, fcli \in Clients, link[fcli] \in {"up", "closed"},
         NEW p \in Packets, NEW next \in {"sim", "wait", "close"}, PutPacket(p, next),
         p.no = asked[fcli] \/ (gdb[fcli] # "acked" /\ NoPlus(down[fcli])),
         p.no <= asked[fcli],
         p.no = asked[fcli] => todo'[fcli] = <<>> /\ state' = "AVR_STOPPED",
         state' = "AVR_STOPPED", state = "AVR_STOPPED", next = "close" => call[fcli] = "D",
         todo' \in [Clients -> Seq(Requests)],
         \A d \in Clients \ {fcli} : todo'[d] = todo[d] /\ up'[d] = up[d],
         up' \in [Clients -> Seq(Chars)],
         LineInv(up'[fcli], down[fcli], gdb[fcli], call[fcli], todo'[fcli], <<>>),
         client_waiting' = FALSE, Running,
         UNCHANGED <<fserv, fcli, backlog, link, client>>
  PROVE  RspInv'
<1>1. /\ at' = "ack" /\ buf' = p /\ after' = next /\ Sent(fcli, p)
  BY DEF PutPacket
<1>2. /\ faults' \in 0..MaxFaults /\ down' \in [Clients -> Seq(Downs)]
      /\ \A d \in Clients \ {fcli} : down'[d] = down[d]
      /\ LineInv(up'[fcli], down'[fcli], gdb[fcli], call[fcli], todo'[fcli], <<>>)
      /\ FreshInv(down'[fcli], gdb[fcli], asked[fcli])
      /\ NoPlus(down[fcli]) => NoPlus(down'[fcli])
      /\ link[fcli] # "up" => down' = down
  BY <1>1, SentKeeps
<1>3. RspTypes'
  BY <1>1, <1>2 DEF RspInv, RspTypes, client, Places, States
<1>4. \A c \in Clients : Held(c)' = <<>>
  BY <1>1 DEF Held
<1>5. ClientInv(fcli)'
  <2>1. NoFresh(down'[fcli], gdb[fcli]) \/ todo'[fcli] = <<>>
    <3>1. CASE p.no = asked[fcli]
      BY <3>1
    <3>2. CASE gdb[fcli] # "acked" /\ NoPlus(down[fcli])
      BY <1>2, <3>2, FreshNone
    <3>. QED
      BY <3>1, <3>2
  <2>. QED
    BY <1>2, <1>4, <2>1 DEF RspInv, ClientInv, client
<1>6. \A c \in Clients \ {fcli} : ClientInv(c)'
  <2>. SUFFICES ASSUME NEW c \in Clients \ {fcli} PROVE ClientInv(c)'
    OBVIOUS
  <2>1. Held(c) = <<>>
    BY DEF Held
  <2>. QED
    BY <1>2, <1>4, <2>1, ClientFrame DEF RspInv, client
<1>7. ServerInv'
  <2>1. AckInv'
    BY <1>1, <1>2 DEF AckInv, client
  <2>. QED
    BY <1>1, <2>1 DEF ServerInv, StopInv, HandleInv, WaitingInv
<1>8. LinkInv'
  <2>1. \A c \in Clients \ {fcli} : Unserved(c)' = Unserved(c)
    BY <1>2 DEF Unserved, client
  <2>. QED
    BY <2>1 DEF RspInv, LinkInv, client
<1>. QED
  BY <1>3, <1>5, <1>6, <1>7, <1>8 DEF RspInv

LEMMA EnterStep ==
  ASSUME RspInv, Enter
  PROVE  RspInv'
<1>1. /\ at = "sim" /\ state = "AVR_STOPPED"
      /\ UNCHANGED <<fserv, fcli, state, backlog, link, up, client, todo>>
  BY DEF Enter, Polled
<1>2. CASE /\ \/ at' = "failed"
              \/ at' = "accept" /\ fcli = None
              \/ at' = "wait" /\ client_waiting' = FALSE
           /\ client_waiting' \in {client_waiting, FALSE}
           /\ UNCHANGED <<buf, after, down, faults>>
  <2>1. RspTypes'
    BY <1>1, <1>2 DEF RspInv, RspTypes, client, Places
  <2>2. \A c \in Clients : ClientInv(c)'
    BY <1>1, <1>2, QuietStep
  <2>3. ServerInv'
    <3>1. fcli = None => client_waiting = FALSE
      BY <1>1, BoundsAssumption DEF RspInv, RspTypes, ServerInv, WaitingInv, Running
    <3>2. WaitingInv'
      BY <1>2, <3>1 DEF WaitingInv, Running
    <3>. QED
      BY <1>1, <1>2, <3>2 DEF ServerInv, StopInv, HandleInv, AckInv
  <2>4. LinkInv'
    <3>1. Running /\ \A c \in Clients : Unserved(c)' = Unserved(c)
      BY <1>1, <1>2 DEF Unserved, Running, client
    <3>. QED
      BY <1>1, <3>1 DEF RspInv, LinkInv, client
  <2>. QED
    BY <2>1, <2>2, <2>3, <2>4 DEF RspInv
<1>3. CASE /\ client_waiting = TRUE /\ client_waiting' = FALSE /\ fcli # None
           /\ PutPacket(Report(asked[fcli]), "wait")
  <2>1. Running /\ fcli \in Clients /\ todo[fcli] = <<>> /\ link[fcli] \in {"up", "closed"}
    BY <1>1, <1>3 DEF RspInv, ServerInv, WaitingInv, LinkInv, Running
  <2>2. asked[fcli] \in Nat /\ ClientInv(fcli) /\ Held(fcli) = <<>>
    BY <1>1, <2>1 DEF RspInv, RspTypes, Held
  <2>3. LineInv(up'[fcli], down[fcli], gdb[fcli], call[fcli], todo'[fcli], <<>>)
    BY <1>1, <2>2 DEF ClientInv
  <2>4. Report(asked[fcli]) \in Packets /\ Report(asked[fcli]).no = asked[fcli]
    BY <2>2, PacketsMade
  <2>5. todo' \in [Clients -> Seq(Requests)] /\ up' \in [Clients -> Seq(Chars)]
    BY <1>1 DEF RspInv, RspTypes
  <2>6. PICK p \in Packets : p = Report(asked[fcli]) /\ p.no = asked[fcli]
    BY <2>4
  <2>7. PutPacket(p, "wait") /\ p.no <= asked[fcli]
    BY <1>3, <2>2, <2>6
  <2>8. /\ \A d \in Clients \ {fcli} : todo'[d] = todo[d] /\ up'[d] = up[d]
        /\ UNCHANGED <<fserv, fcli, backlog, link, client>>
        /\ todo'[fcli] = <<>> /\ state' = "AVR_STOPPED"
    BY <1>1, <2>1
  <2>. QED
    BY <1>1, <1>3, <2>1, <2>3, <2>5, <2>6, <2>7, <2>8, PacketStep
<1>4. client_waiting \in BOOLEAN
  BY DEF RspInv, RspTypes
<1>. QED
  BY <1>2, <1>3, <1>4 DEF Enter, Attend

\* Clients that are not served expect nothing of the MCU.
LEMMA OthersExpectNothing ==
  ASSUME RspInv, Running, NEW c \in Clients \ {fcli}
  PROVE  NoFresh(down[c], gdb[c]) \/ call[c] \notin Resumes \/ link[c] = "closed"
<1>1. Unserved(c) => NoFresh(down[c], gdb[c])
  BY UnservedNotFresh DEF RspInv
<1>2. Unserved(c) \/ call[c] \notin Resumes \/ link[c] = "closed"
  BY DEF RspInv, RspTypes, LinkInv
<1>. QED
  BY <1>1, <1>2

LEMMA TailOfTwo ==
  ASSUME NEW S, NEW x \in S, NEW y \in S
  PROVE  Tail(Append(<<x>>, y)) = Append(<<>>, y)
<1>. DEFINE t == Append(<<x>>, y)
            e == Append(<<>>, y)
<1>1. <<x>> \in Seq(S) /\ <<>> \in Seq(S) /\ Len(<<x>>) = 1 /\ Len(<<>>) = 0
  OBVIOUS
<1>2. t \in Seq(S) /\ Len(t) = 2 /\ t[2] = y /\ t # <<>>
  BY <1>1, AppendAt
<1>3. Tail(t) \in Seq(S) /\ Len(Tail(t)) = 1 /\ Tail(t)[1] = y
  BY <1>2, TailAt
<1>4. e \in Seq(S) /\ Len(e) = 1 /\ e[1] = y
  BY <1>1, AppendAt
<1>5. \A i \in 1..Len(Tail(t)) : Tail(t)[i] = e[i]
  BY <1>3, <1>4
<1>6. Tail(t) = e
  <2>. HIDE DEF t, e
  <2>. QED
    BY <1>3, <1>4, <1>5, SeqEqual
<1>. QED
  BY <1>6

LEMMA HandleStep ==
  ASSUME RspInv, Handle
  PROVE  RspInv'
<1>1. /\ at = "handle" /\ Running
      /\ state' = Effects[buf.r]
      /\ todo' = [todo EXCEPT ![fcli] = Tail(@)]
      /\ client_waiting' = (client_waiting \/ buf.r \in Resumes)
      /\ UNCHANGED <<fserv, fcli, backlog, link, up, client>>
  BY DEF Handle, Running
<1>2. /\ fcli \in Clients /\ buf \in Chars /\ buf.r \in Requests
      /\ todo[fcli] \in Seq(Requests) /\ todo[fcli] # <<>> /\ Head(todo[fcli]) = buf.r
      /\ buf.r \notin Unanswered =>
           buf.r = call[fcli] /\ todo[fcli] = <<buf.r>> /\ gdb[fcli] # "idle"
      /\ state = "AVR_STOPPED"
  BY <1>1, Kinds DEF RspInv, RspTypes, ServerInv, HandleInv, StopInv
<1>3. /\ client_waiting = FALSE
      /\ link[fcli] \in {"up", "closed"}
  BY <1>1, <1>2, BoundsAssumption DEF RspInv, RspTypes, ServerInv, WaitingInv, LinkInv
<1>4. /\ todo' \in [Clients -> Seq(Requests)] /\ todo'[fcli] = Tail(todo[fcli])
      /\ \A d \in Clients \ {fcli} : todo'[d] = todo[d]
  <2>1. Tail(todo[fcli]) \in Seq(Requests)
    BY <1>2, TailAt
  <2>. QED
    BY <1>1, <1>2, <2>1 DEF RspInv, RspTypes
<1>5. buf.r \notin Unanswered => todo'[fcli] = <<>>
  BY <1>2, <1>4
<1>6. LineInv(up[fcli], down[fcli], gdb[fcli], call[fcli], todo'[fcli], <<>>)
  <2>1. LineInv(up[fcli], down[fcli], gdb[fcli], call[fcli], todo[fcli], <<buf.r>>)
    BY <1>1, <1>2 DEF RspInv, ClientInv, Held
  <2>2. Waits(todo[fcli], <<buf.r>>, call[fcli]) => Waits(todo'[fcli], <<>>, call[fcli])
    <3>1. call[fcli] \in Requests
      BY <1>2 DEF RspInv, RspTypes
    <3>. QED
      BY <1>2, <1>4, <3>1, TailOfTwo DEF Waits
  <2>3. Taken(todo[fcli], <<buf.r>>, call[fcli]) => Taken(todo'[fcli], <<>>, call[fcli])
    BY <1>2, <1>4 DEF Taken
  <2>. QED
    BY <2>1, <2>2, <2>3, LineServed
<1>7. NoFresh(down[fcli], gdb[fcli])
  BY <1>2 DEF RspInv, ClientInv
<1>8. CASE /\ buf.r \in Resumes \cup Unanswered
           /\ at' = "sim" /\ UNCHANGED <<buf, after, down, faults>>
  <2>1. state' \in States /\ client_waiting' \in BOOLEAN
    BY <1>1, <1>2, <1>3 DEF Effects, Requests, States
  <2>2. RspTypes'
    BY <1>1, <1>4, <1>8, <2>1 DEF RspInv, RspTypes, client, Places
  <2>3. \A c \in Clients : Held(c)' = <<>>
    BY <1>8 DEF Held
  <2>4. \A c \in Clients : c = fcli => ClientInv(c)'
    BY <1>1, <1>2, <1>6, <1>7, <1>8, <2>3 DEF RspInv, ClientInv, client
  <2>5. \A c \in Clients \ {fcli} : ClientInv(c)'
    <3>. SUFFICES ASSUME NEW c \in Clients \ {fcli} PROVE ClientInv(c)'
      OBVIOUS
    <3>1. Held(c) = <<>>
      BY DEF Held
    <3>2. NoFresh(down[c], gdb[c]) \/ call[c] \notin Resumes \/ link[c] = "closed"
      BY <1>1, OthersExpectNothing
    <3>. QED
      BY <1>1, <1>4, <1>8, <2>3, <3>1, <3>2, ClientFrame DEF RspInv, client
  <2>6. ServerInv'
    <3>1. WaitingInv'
      <4>1. client_waiting' => buf.r \in Resumes /\ buf.r \notin Unanswered
        BY <1>1, <1>3, Unresumed
      <4>. QED
        BY <1>1, <1>2, <1>5, <1>7, <1>8, <4>1 DEF WaitingInv, client
    <3>. QED
      BY <1>8, <3>1 DEF ServerInv, StopInv, HandleInv, AckInv
  <2>7. LinkInv'
    <3>1. \A c \in Clients : Unserved(c)' = Unserved(c)
      BY <1>1, <1>8 DEF Unserved, client
    <3>. QED
      BY <1>1, <3>1 DEF RspInv, LinkInv, client
  <2>8. \A c \in Clients : ClientInv(c)'
    BY <2>4, <2>5
  <2>. QED
    BY <2>2, <2>6, <2>7, <2>8 DEF RspInv
<1>9. CASE /\ buf.r \notin Resumes \cup Unanswered
           /\ PutPacket(Reply(asked[fcli]), IF buf.r = "D" THEN "close" ELSE "sim")
  <2>1. state' = "AVR_STOPPED" /\ client_waiting' = FALSE
    <3>1. Effects[buf.r] = "AVR_STOPPED"
      BY <1>2, <1>9 DEF Effects, Requests, Resumes, Unanswered
    <3>. QED
      BY <1>1, <1>3, <1>9, <3>1
  <2>2. asked[fcli] \in Nat
    BY <1>2 DEF RspInv, RspTypes
  <2>3. PICK p \in Packets : p = Reply(asked[fcli]) /\ p.no = asked[fcli]
    BY <2>2, PacketsMade
  <2>4. PICK next \in {"sim", "wait", "close"} :
          next = (IF buf.r = "D" THEN "close" ELSE "sim")
    OBVIOUS
  <2>5. PutPacket(p, next) /\ p.no <= asked[fcli]
    BY <1>9, <2>2, <2>3, <2>4
  <2>6. next = "close" => call[fcli] = "D"
    BY <1>2, <1>9, <2>4
  <2>7. /\ \A d \in Clients \ {fcli} : todo'[d] = todo[d] /\ up'[d] = up[d]
        /\ up' \in [Clients -> Seq(Chars)] /\ todo'[fcli] = <<>>
        /\ LineInv(up'[fcli], down[fcli], gdb[fcli], call[fcli], todo'[fcli], <<>>)
    BY <1>1, <1>4, <1>5, <1>6, <1>9 DEF RspInv, RspTypes
  <2>. QED
    BY <1>1, <1>2, <1>3, <1>4, <2>1, <2>3, <2>5, <2>6, <2>7, PacketStep
<1>. QED
  BY <1>8, <1>9 DEF Handle

LEMMA ReadTail ==
  ASSUME RspInv, NEW c \in Clients, up[c] # <<>>, Read(c)
  PROVE  /\ up' \in [Clients -> Seq(Chars)] /\ up'[c] = Tail(up[c])
         /\ \A d \in Clients \ {c} : up'[d] = up[d]
<1>1. up \in [Clients -> Seq(Chars)] /\ up[c] \in Seq(Chars)
  BY DEF RspInv, RspTypes
<1>2. Tail(up[c]) \in Seq(Chars)
  BY <1>1, TailAt
<1>. QED
  BY <1>1, <1>2 DEF Read

\* The server reads something and writes nothing.
LEMMA ReadStep ==
  ASSUME RspInv, at \in {"wait", "ack"}, at' \in {"sim", "wait"},
         fcli \in Clients, up[fcli] # <<>>, Read(fcli),
         UNCHANGED <<fcli, link>> \/ (CloseClient /\ call[fcli] \notin Resumes),
         UNCHANGED <<fserv, client_waiting, buf, after, state, backlog, down, client, todo,
                     faults>>
  PROVE  RspInv'
<1>1. /\ up' \in [Clients -> Seq(Chars)] /\ up'[fcli] = Tail(up[fcli])
      /\ \A d \in Clients \ {fcli} : up'[d] = up[d]
  BY ReadTail
<1>2. /\ link' \in [Clients -> {"off", "up", "closed", "dropped"}]
      /\ \A d \in Clients \ {fcli} : link'[d] = link[d]
      /\ \/ fcli' = fcli /\ link' = link
         \/ /\ fcli' = None /\ link'[fcli] # "up" /\ link'[fcli] \in {link[fcli], "dropped"}
            /\ call[fcli] \notin Resumes
            /\ link[fcli] = "closed" => link'[fcli] = "closed"
  <2>1. CASE UNCHANGED <<fcli, link>>
    BY <2>1 DEF RspInv, RspTypes
  <2>2. CASE CloseClient /\ call[fcli] \notin Resumes
    <3>1. /\ fcli' = None /\ link' = Dropped({fcli})
          /\ link \in [Clients -> {"off", "up", "closed", "dropped"}]
      BY <2>2, BoundsAssumption DEF RspInv, RspTypes, CloseClient
    <3>. QED
      BY <2>2, <3>1 DEF Dropped
  <2>. QED
    BY <2>1, <2>2
<1>3. RspTypes'
  BY <1>1, <1>2 DEF RspInv, RspTypes, client, Places
<1>4. \A c \in Clients : Held(c) = <<>> /\ Held(c)' = <<>>
  BY DEF Held
<1>5. ASSUME NEW c \in Clients PROVE ClientInv(c)'
  <2>1. link'[c] # "closed" => link[c] # "closed"
    BY <1>2
  <2>2. CASE c # fcli
    BY <1>1, <1>4, <2>1, <2>2, ClientFrame DEF RspInv, client
  <2>3. CASE c = fcli
    <3>1. ClientInv(c) /\ up[c] \in Seq(Chars)
      BY DEF RspInv, RspTypes
    <3>2. LineInv(up'[c], down[c], gdb[c], call[c], todo[c], <<>>)
      <4>1. up[c] # <<>> /\ up'[c] = Tail(up[c])
        BY <1>1, <2>3
      <4>2. LineInv(up[c], down[c], gdb[c], call[c], todo[c], <<>>)
        BY <1>4, <3>1 DEF ClientInv
      <4>. QED
        BY <3>1, <4>1, <4>2, LineUpTail
    <3>. QED
      BY <1>4, <2>1, <3>1, <3>2 DEF ClientInv, client
  <2>. QED
    BY <2>2, <2>3
<1>6. ServerInv'
  <2>1. client_waiting = FALSE
    BY DEF RspInv, RspTypes, ServerInv, WaitingInv, Running
  <2>. QED
    BY <2>1 DEF RspInv, ServerInv, StopInv, HandleInv, AckInv, WaitingInv
<1>7. LinkInv'
  <2>1. Running /\ Running' /\ backlog' = backlog /\ call' = call
    BY DEF Running, client
  <2>2. \A c \in Clients : Unserved(c)' = Unserved(c)
    BY DEF Unserved, client
  <2>3. CASE fcli' = fcli /\ link' = link
    BY <2>1, <2>2, <2>3 DEF RspInv, LinkInv
  <2>4. CASE /\ fcli' = None /\ link'[fcli] # "up" /\ link'[fcli] \in {link[fcli], "dropped"}
             /\ call[fcli] \notin Resumes
    <3>1. /\ fcli \notin backlog /\ link[fcli] \in {"up", "closed"}
          /\ \A c \in Clients : c # None
      BY <2>1, BoundsAssumption DEF RspInv, LinkInv
    <3>2. \A c \in Clients \ {fcli} :
            /\ link[c] = "up" => c \in backlog
            /\ c \in backlog => link[c] \in {"up", "closed"} /\ Unserved(c)
            /\ link[c] = "off" => Unserved(c)
            /\ link[c] = "dropped" => call[c] \notin Resumes \/ Unserved(c)
      BY <2>1 DEF RspInv, LinkInv
    <3>. QED
      BY <1>2, <2>1, <2>2, <2>4, <3>1, <3>2 DEF LinkInv
  <2>. QED
    BY <1>2, <2>3, <2>4
<1>. QED
  BY <1>3, <1>5, <1>6, <1>7 DEF RspInv

LEMMA GetAckStep ==
  ASSUME RspInv, GetAck
  PROVE  RspInv'
<1>1. /\ at = "ack" /\ Running /\ up[fcli] # <<>> /\ Read(fcli)
      /\ UNCHANGED <<fserv, client_waiting, state, backlog, client, todo>>
  BY DEF GetAck, Running
<1>2. /\ fcli \in Clients /\ buf \in Packets /\ buf.no <= asked[fcli]
      /\ buf.no = asked[fcli] => todo[fcli] = <<>>
      /\ buf.no # asked[fcli] => gdb[fcli] # "acked" /\ NoPlus(down[fcli])
      /\ after = "close" => call[fcli] = "D"
      /\ after \in {"sim", "wait", "close"} /\ state = "AVR_STOPPED"
  BY <1>1 DEF RspInv, RspTypes, ServerInv, AckInv, StopInv
<1>3. CASE /\ PutReturns /\ UNCHANGED <<buf, after, down, faults>>
           /\ IF after = "close" THEN CloseClient ELSE UNCHANGED <<fcli, link>>
  <2>1. at' \in {"sim", "wait"}
    BY <1>2, <1>3 DEF PutReturns
  <2>2. UNCHANGED <<fcli, link>> \/ (CloseClient /\ call[fcli] \notin Resumes)
    BY <1>2, <1>3, Unresumed
  <2>. QED
    BY <1>1, <1>2, <1>3, <2>1, <2>2, ReadStep
<1>4. CASE PutPacket(buf, after) /\ UNCHANGED <<fcli, link>>
  <2>1. /\ client_waiting = FALSE /\ link[fcli] \in {"up", "closed"}
    BY <1>1, <1>2, BoundsAssumption DEF RspInv, RspTypes, ServerInv, WaitingInv, LinkInv
  <2>2. /\ up' \in [Clients -> Seq(Chars)] /\ up'[fcli] = Tail(up[fcli])
        /\ \A d \in Clients \ {fcli} : up'[d] = up[d]
    BY <1>1, <1>2, ReadTail
  <2>3. LineInv(up'[fcli], down[fcli], gdb[fcli], call[fcli], todo'[fcli], <<>>)
    <3>1. ClientInv(fcli) /\ Held(fcli) = <<>> /\ up[fcli] \in Seq(Chars)
      BY <1>1, <1>2 DEF RspInv, RspTypes, Held
    <3>. QED
      BY <1>1, <2>2, <3>1, LineUpTail DEF ClientInv
  <2>4. PICK p \in Packets : p = buf
    BY <1>2
  <2>5. PICK next \in {"sim", "wait", "close"} : next = after
    BY <1>2
  <2>6. /\ PutPacket(p, next) /\ p.no <= asked[fcli]
        /\ p.no = asked[fcli] \/ (gdb[fcli] # "acked" /\ NoPlus(down[fcli]))
        /\ p.no = asked[fcli] => todo'[fcli] = <<>> /\ state' = "AVR_STOPPED"
        /\ next = "close" => call[fcli] = "D"
    BY <1>1, <1>2, <1>4, <2>4, <2>5
  <2>7. /\ todo' \in [Clients -> Seq(Requests)]
        /\ \A d \in Clients \ {fcli} : todo'[d] = todo[d] /\ up'[d] = up[d]
        /\ state' = "AVR_STOPPED" /\ client_waiting' = FALSE
        /\ UNCHANGED <<fserv, fcli, backlog, link, client>>
    BY <1>1, <1>2, <1>4, <2>1, <2>2 DEF RspInv, RspTypes
  <2>. QED
    BY <1>1, <1>2, <2>1, <2>2, <2>3, <2>6, <2>7, PacketStep
<1>. QED
  BY <1>3, <1>4 DEF GetAck

\* A request is refused, or taken to be carried out.
LEMMA RequestStep ==
  ASSUME RspInv, at = "wait", fcli \in Clients, up[fcli] # <<>>, IsReq(Head(up[fcli])),
         Read(fcli),
         \/ PutChar(fcli, Nak) /\ at' = at /\ buf' = buf
         \/ PutChar(fcli, Ack) /\ at' = "handle" /\ buf' = Head(up[fcli]),
         UNCHANGED <<fserv, fcli, client_waiting, after, state, backlog, link, client,
                     todo, faults>>
  PROVE  RspInv'
<1>1. /\ up' \in [Clients -> Seq(Chars)] /\ up'[fcli] = Tail(up[fcli])
      /\ \A d \in Clients \ {fcli} : up'[d] = up[d]
  BY ReadTail
<1>2. PICK r \in Requests : r = call[fcli]
  BY DEF RspInv, RspTypes
<1>3. /\ up[fcli] \in Seq(Chars) /\ down[fcli] \in Seq(Downs)
      /\ down \in [Clients -> Seq(Downs)] /\ Head(up[fcli]) \in Chars
  BY TailAt DEF RspInv, RspTypes
<1>4. \A c \in Clients : Held(c) = <<>>
  BY DEF Held
<1>5. /\ LineInv(up'[fcli], down[fcli], gdb[fcli], r, todo[fcli], <<>>)
      /\ NoReq(up'[fcli]) /\ NoSig(down[fcli]) /\ gdb[fcli] = "sent"
      /\ Head(up[fcli]).r = r /\ Waits(todo[fcli], <<>>, r)
  <2>1. LineInv(up[fcli], down[fcli], gdb[fcli], r, todo[fcli], <<>>)
    BY <1>2, <1>4 DEF RspInv, ClientInv
  <2>. QED
    BY <1>1, <1>3, <2>1, LineUpTail
<1>6. todo[fcli] = <<r>>
  BY <1>5 DEF Waits
<1>7. PICK x \in {Ack, Nak} :
        /\ PutChar(fcli, x)
        /\ x = Nak => at' = "wait" /\ buf' = buf
        /\ x = Ack => at' = "handle" /\ buf' = Head(up[fcli])
  <2>1. Ack # Nak
    BY DEF Ack, Nak
  <2>. QED
    BY <2>1
<1>8. x \in Downs /\ ~IsPkt(x) /\ IsSig(x) /\ (x.t = "-" <=> x = Nak) /\ (x.t = "+" <=> x = Ack)
  BY Signs
<1>9. PICK h \in {<<>>, <<r>>} :
        /\ h = IF x = Ack THEN <<r>> ELSE <<>>
        /\ x = Nak => Waits(todo[fcli], h, r)
        /\ x = Ack => Taken(todo[fcli], h, r)
  <2>1. Taken(todo[fcli], <<r>>, r) /\ Ack # Nak
    BY <1>6 DEF Taken, Ack, Nak
  <2>2. CASE x = Ack
    BY <2>1, <2>2
  <2>3. CASE x # Ack
    BY <1>5, <2>3
  <2>. QED
    BY <2>2, <2>3
<1>10. /\ at' \in {"wait", "handle"} /\ buf' \in Chars \cup Packets
       /\ Held(fcli)' = h /\ \A c \in Clients \ {fcli} : Held(c)' = <<>>
  BY <1>3, <1>5, <1>7, <1>8, <1>9 DEF Held, RspInv, RspTypes
<1>11. down' = down \/ (down'[fcli] = Append(down[fcli], x)
                        /\ \A d \in Clients \ {fcli} : down'[d] = down[d])
  BY <1>3, <1>7 DEF PutChar
<1>12. down' \in [Clients -> Seq(Downs)]
  <2>1. Append(down[fcli], x) \in Seq(Downs)
    BY <1>3, <1>8, AppendAt
  <2>. QED
    BY <1>3, <1>7, <2>1 DEF PutChar
<1>13. RspTypes'
  BY <1>1, <1>10, <1>12 DEF RspInv, RspTypes, client, Places
<1>14. LineInv(up'[fcli], down'[fcli], gdb[fcli], r, todo[fcli], h)
  <2>1. LineInv(up'[fcli], down[fcli], gdb[fcli], r, todo[fcli], h)
    BY <1>5, LineIdle
  <2>2. LineInv(up'[fcli], Append(down[fcli], x), gdb[fcli], r, todo[fcli], h)
    BY <1>3, <1>5, <1>8, <1>9, <2>1, LineDownAppend
  <2>. QED
    BY <1>11, <2>1, <2>2
<1>15. FreshInv(down'[fcli], gdb[fcli], asked[fcli]) /\ NoFresh(down'[fcli], gdb[fcli])
  <2>1. FreshInv(down[fcli], gdb[fcli], asked[fcli]) /\ NoFresh(down[fcli], gdb[fcli])
    BY <1>3, <1>5, NoSigNoPlus, FreshNone DEF RspInv, ClientInv
  <2>2. /\ FreshInv(Append(down[fcli], x), gdb[fcli], asked[fcli])
        /\ NoFresh(Append(down[fcli], x), gdb[fcli])
    BY <1>3, <1>8, <2>1, FreshAppend
  <2>. QED
    BY <1>11, <2>1, <2>2
<1>16. ASSUME NEW c \in Clients PROVE ClientInv(c)'
  <2>1. CASE c # fcli
    BY <1>1, <1>4, <1>10, <1>11, <2>1, ClientFrame DEF RspInv, client
  <2>2. CASE c = fcli
    <3>1. Held(c)' = h
      BY <1>7, <1>9, <1>5, <1>8, <2>2 DEF Held
    <3>. QED
      BY <1>2, <1>14, <1>15, <2>2, <3>1 DEF RspInv, ClientInv, client
  <2>. QED
    BY <2>1, <2>2
<1>17. ServerInv'
  <2>1. client_waiting = FALSE /\ state = "AVR_STOPPED"
    BY DEF RspInv, RspTypes, ServerInv, WaitingInv, StopInv, Running
  <2>2. HandleInv'
    BY <1>3, <1>2, <1>5, <1>6, <1>7, <1>8 DEF HandleInv, client
  <2>. QED
    BY <1>10, <2>1, <2>2 DEF ServerInv, StopInv, AckInv, WaitingInv
<1>18. LinkInv'
  <2>1. Running /\ \A c \in Clients \ {fcli} : Unserved(c)' = Unserved(c)
    BY <1>11 DEF Unserved, client, Running
  <2>2. fcli \notin backlog /\ link[fcli] \in {"up", "closed"}
    BY <2>1, BoundsAssumption DEF RspInv, LinkInv
  <2>. QED
    BY <2>1, <2>2 DEF RspInv, LinkInv, client
<1>. QED
  BY <1>13, <1>16, <1>17, <1>18 DEF RspInv

LEMMA GetCharStep ==
  ASSUME RspInv, GetChar
  PROVE  RspInv'
<1>1. /\ at = "wait" /\ fcli \in Clients /\ up[fcli] # <<>> /\ Read(fcli)
      /\ UNCHANGED <<fserv, client_waiting, after, state, backlog, client, todo, faults>>
  BY DEF GetChar, RspInv, RspTypes
<1>. DEFINE ch == Head(up[fcli])
<1>2. CASE IsReq(ch) /\ ch.r = "X"
  <2>1. at' = "sim" /\ UNCHANGED <<buf, down>> /\ CloseClient
    BY <1>2 DEF GetChar, IsReq
  <2>2. call[fcli] \notin Resumes
    <3>1. ClientInv(fcli) /\ up[fcli] \in Seq(Chars)
      BY <1>1 DEF RspInv, RspTypes
    <3>2. call[fcli] = "X"
      BY <1>1, <1>2, <3>1, LineUpTail DEF ClientInv
    <3>. QED
      BY <3>2, Unresumed
  <2>. QED
    BY <1>1, <2>1, <2>2, ReadStep
<1>3. CASE IsReq(ch) /\ ch.r # "X"
  <2>1. /\ UNCHANGED <<fcli, link>>
        /\ \/ PutChar(fcli, Nak) /\ at' = at /\ buf' = buf
           \/ PutChar(fcli, Ack) /\ at' = "handle" /\ buf' = ch
    BY <1>3 DEF GetChar, IsReq
  <2>. QED
    BY <1>1, <1>3, <2>1, RequestStep
<1>4. CASE ~IsReq(ch)
  <2>1. at' \in {"wait", "sim"} /\ UNCHANGED <<buf, down, fcli, link>>
    BY <1>1, <1>4 DEF GetChar, IsReq
  <2>. QED
    BY <1>1, <2>1, ReadStep
<1>. QED
  BY <1>2, <1>3, <1>4

-----------------------------------------------------------------------------
(* The clients' steps. *)

LEMMA SendPacketStep ==
  ASSUME RspInv, NEW c \in Clients, NEW r \in Requests, SendPacket(c, r)
  PROVE  /\ faults' \in 0..MaxFaults
         /\ \E q \in Chars : IsReq(q) /\ q.r = r /\ up' = [up EXCEPT ![c] = Append(@, q)]
<1>1. PICK bad \in BOOLEAN :
        /\ bad => faults < MaxFaults
        /\ faults' = IF bad THEN faults + 1 ELSE faults
        /\ up' = [up EXCEPT ![c] = Append(@, [Request(r) EXCEPT !.ok = ~bad])]
  BY DEF SendPacket
<1>2. faults \in 0..MaxFaults /\ MaxFaults \in Nat
  BY BoundsAssumption DEF RspInv, RspTypes
<1>3. faults' \in 0..MaxFaults
  <2>1. CASE bad
    BY <1>1, <1>2, <2>1
  <2>2. CASE ~bad
    BY <1>1, <1>2, <2>2
  <2>. QED
    BY <2>1, <2>2
<1>. QED
  BY <1>1, <1>3, RequestSent

LEMMA HeadOfAppend ==
  ASSUME NEW S, NEW s \in Seq(S), s # <<>>, NEW x \in S
  PROVE  Append(s, x) # <<>> /\ Head(Append(s, x)) = Head(s)
<1>1. Len(s) \in Nat \ {0} /\ Head(s) = s[1]
  BY TailAt
<1>2. /\ Append(s, x) \in Seq(S) /\ Len(Append(s, x)) = Len(s) + 1
      /\ Append(s, x)[1] = s[1]
  BY <1>1, AppendAt
<1>3. Append(s, x) # <<>>
  BY <1>1, <1>2, EmptySeq
<1>. QED
  BY <1>1, <1>2, <1>3, TailAt

LEMMA SendStep ==
  ASSUME RspInv, NEW c \in Clients, NEW r \in Requests, Send(c, r)
  PROVE  RspInv'
<1>1. /\ link[c] = "up" /\ gdb[c] = "idle" /\ call[c] # "D" /\ asked[c] < MaxRequests[c]
      /\ call' = [call EXCEPT ![c] = r] /\ asked' = [asked EXCEPT ![c] = @ + 1]
      /\ todo' = [todo EXCEPT ![c] = Append(@, r)] /\ gdb' = [gdb EXCEPT ![c] = "sent"]
      /\ SendPacket(c, r)
      /\ UNCHANGED <<server, state, backlog, link, down, answered, interrupts>>
  BY DEF Send
<1>2. PICK q \in Chars : IsReq(q) /\ q.r = r /\ up' = [up EXCEPT ![c] = Append(@, q)]
  BY <1>1, SendPacketStep
<1>3. /\ up[c] \in Seq(Chars) /\ down[c] \in Seq(Downs) /\ todo[c] \in Seq(Requests)
      /\ asked[c] \in Nat /\ answered[c] = asked[c] /\ ClientInv(c)
      /\ MaxRequests[c] \in Nat
  BY <1>1, BoundsAssumption DEF RspInv, RspTypes, ClientInv
<1>4. /\ up'[c] = Append(up[c], q) /\ call'[c] = r /\ asked'[c] = asked[c] + 1
      /\ todo'[c] = Append(todo[c], r) /\ gdb'[c] = "sent"
      /\ \A d \in Clients \ {c} :
           /\ up'[d] = up[d] /\ call'[d] = call[d] /\ asked'[d] = asked[d]
           /\ todo'[d] = todo[d] /\ gdb'[d] = gdb[d]
  BY <1>1, <1>2 DEF RspInv, RspTypes
<1>5. RspTypes'
  <2>1. Append(up[c], q) \in Seq(Chars) /\ Append(todo[c], r) \in Seq(Requests)
    BY <1>2, <1>3, AppendAt
  <2>2. /\ up' \in [Clients -> Seq(Chars)] /\ todo' \in [Clients -> Seq(Requests)]
        /\ gdb' \in [Clients -> {"idle", "sent", "acked"}] /\ call' \in [Clients -> Requests]
    BY <1>1, <1>2, <2>1 DEF RspInv, RspTypes
  <2>3. /\ asked' \in [Clients -> Nat] /\ answered' \in [Clients -> Nat]
        /\ \A d \in Clients : asked'[d] <= MaxRequests[d] /\ answered'[d] <= asked'[d]
    BY <1>1, <1>3, <1>4 DEF RspInv, RspTypes
  <2>4. faults' \in 0..MaxFaults
    BY <1>1, SendPacketStep
  <2>. QED
    BY <1>1, <2>2, <2>3, <2>4 DEF RspInv, RspTypes, server
<1>6. \A d \in Clients : Held(d)' = Held(d)
  BY <1>1 DEF Held, server
<1>7. NoReq(up[c]) /\ NoSig(down[c]) /\ Taken(todo[c], Held(c), call[c])
  BY <1>1, <1>3, Kinds DEF ClientInv, LineInv, NoReq, NoSig, IsSig
<1>8. ASSUME NEW d \in Clients PROVE ClientInv(d)'
  <2>1. CASE d # c
    BY <1>1, <1>4, <1>6, <2>1, ClientFrame DEF RspInv
  <2>2. CASE d = c
    <3>1. Waits(todo'[c], Held(c), r)
      BY <1>4, <1>7 DEF Waits, Taken
    <3>2. LineInv(up[c], down[c], "sent", r, todo'[c], Held(c))
      BY <1>7, LineIdle
    <3>3. LineInv(up'[c], down[c], "sent", r, todo'[c], Held(c))
      BY <1>2, <1>3, <1>4, <1>7, <3>1, <3>2, LineUpAppend
    <3>4. NoFresh(down[c], "sent") /\ FreshInv(down[c], "sent", asked'[c])
      BY <1>3, <1>7, FreshNone, NoSigNoPlus DEF NoFresh, FreshInv
    <3>5. answered'[c] # asked'[c]
      BY <1>1, <1>3, <1>4
    <3>. QED
      BY <1>1, <1>4, <1>6, <2>2, <3>3, <3>4, <3>5 DEF ClientInv
  <2>. QED
    BY <2>1, <2>2
<1>9. ServerInv'
  <2>1. StopInv'
    BY <1>1 DEF RspInv, ServerInv, StopInv, server
  <2>2. HandleInv'
    <3>1. CASE fcli = c
      <4>1. ASSUME at = "handle"
            PROVE  /\ buf.r \in Unanswered /\ buf \in Chars /\ IsReq(buf)
                   /\ todo[c] # <<>> /\ Head(todo[c]) = buf.r
        BY <1>1, <3>1, <4>1 DEF RspInv, ServerInv, HandleInv
      <4>2. todo[c] # <<>> => todo'[c] # <<>> /\ Head(todo'[c]) = Head(todo[c])
        BY <1>3, <1>4, HeadOfAppend
      <4>. QED
        BY <1>1, <3>1, <4>1, <4>2 DEF HandleInv, server
    <3>2. CASE fcli # c
      BY <1>1, <1>4, <3>2 DEF RspInv, ServerInv, HandleInv, server
    <3>. QED
      BY <3>1, <3>2
  <2>3. AckInv'
    <3>1. CASE fcli = c
      <4>1. NoPlus(down[c])
        BY <1>7, NoSigNoPlus
      <4>2. ASSUME at = "ack"
            PROVE  /\ buf \in Packets /\ buf.no \in Nat /\ buf.no <= asked[c]
                   /\ after # "close"
        BY <1>1, <3>1, <4>2, Kinds DEF RspInv, ServerInv, AckInv
      <4>3. at = "ack" => buf.no <= asked'[c] /\ buf.no # asked'[c]
        BY <1>3, <1>4, <4>2
      <4>. QED
        BY <1>1, <1>4, <3>1, <4>1, <4>2, <4>3 DEF AckInv, server
    <3>2. CASE fcli # c
      BY <1>1, <1>4, <3>2 DEF RspInv, ServerInv, AckInv, server
    <3>. QED
      BY <3>1, <3>2
  <2>4. WaitingInv'
    <3>1. client_waiting /\ Running => fcli # c
      BY <1>1 DEF RspInv, ServerInv, WaitingInv
    <3>. QED
      BY <1>1, <1>4, <3>1 DEF RspInv, ServerInv, WaitingInv, server, Running
  <2>. QED
    BY <2>1, <2>2, <2>3, <2>4 DEF ServerInv
<1>10. LinkInv'
  <2>1. Running' = Running /\ fcli' = fcli
    BY <1>1 DEF Running, server
  <2>2. \A d \in Clients : Unserved(d) => Unserved(d)'
    BY <1>1, <1>4 DEF Unserved
  <2>3. \A d \in Clients : link[d] = "dropped" => call'[d] = call[d]
    BY <1>1, <1>4
  <2>. QED
    BY <1>1, <2>1, <2>2, <2>3 DEF RspInv, LinkInv
<1>. QED
  BY <1>5, <1>8, <1>9, <1>10 DEF RspInv

LEMMA SendInterruptStep ==
  ASSUME RspInv, NEW c \in Clients, SendInterrupt(c)
  PROVE  RspInv'
<1>1. /\ interrupts < MaxInterrupts /\ interrupts' = interrupts + 1
      /\ up' = [up EXCEPT ![c] = Append(@, Interrupt)]
      /\ UNCHANGED <<server, state, backlog, link, down, gdb, call, asked, answered,
                     todo, faults>>
  BY DEF SendInterrupt
<1>2. /\ up[c] \in Seq(Chars) /\ Append(up[c], Interrupt) \in Seq(Chars)
      /\ up'[c] = Append(up[c], Interrupt) /\ \A d \in Clients \ {c} : up'[d] = up[d]
  BY <1>1, AppendAt, Signs DEF RspInv, RspTypes
<1>3. RspTypes'
  <2>1. interrupts' \in 0..MaxInterrupts
    BY <1>1, BoundsAssumption DEF RspInv, RspTypes
  <2>2. up' \in [Clients -> Seq(Chars)]
    BY <1>1, <1>2 DEF RspInv, RspTypes
  <2>. QED
    BY <1>1, <2>1, <2>2 DEF RspInv, RspTypes, server
<1>4. \A d \in Clients : Held(d)' = Held(d)
  BY <1>1 DEF Held, server
<1>5. ASSUME NEW d \in Clients PROVE ClientInv(d)'
  <2>1. CASE d # c
    BY <1>1, <1>2, <1>4, <2>1, ClientFrame DEF RspInv
  <2>2. CASE d = c
    <3>1. ClientInv(c)
      BY DEF RspInv
    <3>2. LineInv(up'[c], down[c], gdb[c], call[c], todo[c], Held(c))
      BY <1>2, <3>1, Signs, LineUpAppend DEF ClientInv
    <3>. QED
      BY <1>1, <1>4, <2>2, <3>1, <3>2 DEF ClientInv
  <2>. QED
    BY <2>1, <2>2
<1>6. ServerInv'
  BY <1>1 DEF RspInv, ServerInv, StopInv, HandleInv, AckInv, WaitingInv, Running, server
<1>7. LinkInv'
  BY <1>1 DEF RspInv, LinkInv, Running, Unserved, server
<1>. QED
  BY <1>3, <1>5, <1>6, <1>7 DEF RspInv

\* The client reads one thing; g2 and n2 are what it waits for then, and the number
\* of the answer it had last.
LEMMA ReceiveEffect ==
  ASSUME RspInv, NEW c \in Clients, link[c] \in {"up", "dropped"}, down[c] # <<>>,
         down' = [down EXCEPT ![c] = Tail(@)],
         up' \in [Clients -> Seq(Chars)], \A d \in Clients \ {c} : up'[d] = up[d],
         NEW g2 \in {"idle", "sent", "acked"}, gdb' = [gdb EXCEPT ![c] = g2],
         NEW n2 \in Nat, answered' = [answered EXCEPT ![c] = n2], n2 <= asked[c],
         LineInv(up'[c], Tail(down[c]), g2, call[c], todo[c], Held(c)),
         Head(down[c]).t = "+" \/ g2 # "acked" \/ gdb[c] = "acked",
         g2 = "idle" <=> n2 = asked[c],
         g2 = "idle" => gdb[c] = "idle" \/ call[c] \in Unanswered \/ ~NoFresh(down[c], gdb[c]),
         faults' \in 0..MaxFaults,
         UNCHANGED <<server, state, backlog, link, call, asked, interrupts, todo>>
  PROVE  RspInv'
<1>1. /\ down \in [Clients -> Seq(Downs)] /\ down[c] \in Seq(Downs) /\ ClientInv(c)
      /\ Tail(down[c]) \in Seq(Downs)
  BY TailAt DEF RspInv, RspTypes
<1>2. /\ down'[c] = Tail(down[c]) /\ gdb'[c] = g2 /\ answered'[c] = n2
      /\ \A d \in Clients \ {c} :
           down'[d] = down[d] /\ gdb'[d] = gdb[d] /\ answered'[d] = answered[d]
  BY <1>1 DEF RspInv, RspTypes
<1>3. RspTypes'
  <2>1. /\ down' \in [Clients -> Seq(Downs)] /\ answered' \in [Clients -> Nat]
        /\ gdb' \in [Clients -> {"idle", "sent", "acked"}]
    BY <1>1 DEF RspInv, RspTypes
  <2>2. \A d \in Clients : asked'[d] <= MaxRequests[d] /\ answered'[d] <= asked'[d]
    BY <1>2 DEF RspInv, RspTypes
  <2>. QED
    BY <2>1, <2>2 DEF RspInv, RspTypes, server
<1>4. \A d \in Clients : Held(d)' = Held(d)
  BY DEF Held, server
<1>5. /\ FreshInv(Tail(down[c]), g2, asked[c])
      /\ NoFresh(down[c], gdb[c]) => NoFresh(Tail(down[c]), g2)
  BY <1>1, FreshInvTail DEF ClientInv
<1>6. ASSUME NEW d \in Clients PROVE ClientInv(d)'
  <2>1. CASE d # c
    BY <1>2, <1>4, <2>1, ClientFrame DEF RspInv
  <2>2. CASE d = c
    BY <1>1, <1>2, <1>4, <1>5, <2>2 DEF ClientInv
  <2>. QED
    BY <2>1, <2>2
<1>7. ServerInv'
  <2>1. StopInv'
    BY DEF RspInv, ServerInv, StopInv, server
  <2>2. HandleInv'
    <3>1. CASE fcli = c
      <4>1. ASSUME at = "handle", buf.r \notin Unanswered
            PROVE  g2 # "idle"
        BY <1>1, <3>1, <4>1 DEF RspInv, ServerInv, HandleInv, ClientInv
      <4>. QED
        BY <1>2, <3>1, <4>1 DEF RspInv, ServerInv, HandleInv, server
    <3>2. CASE fcli # c
      BY <1>2, <3>2 DEF RspInv, ServerInv, HandleInv, server
    <3>. QED
      BY <3>1, <3>2
  <2>3. AckInv'
    <3>1. CASE fcli = c
      <4>1. NoPlus(down[c]) => Head(down[c]).t # "+" /\ NoPlus(Tail(down[c]))
        BY <1>1, TailAt DEF NoPlus
      <4>. QED
        BY <1>2, <3>1, <4>1 DEF RspInv, ServerInv, AckInv, server
    <3>2. CASE fcli # c
      BY <1>2, <3>2 DEF RspInv, ServerInv, AckInv, server
    <3>. QED
      BY <3>1, <3>2
  <2>4. WaitingInv'
    <3>1. CASE fcli = c
      BY <1>2, <1>5, <3>1, Unresumed DEF RspInv, ServerInv, WaitingInv, server, Running
    <3>2. CASE fcli # c
      BY <1>2, <3>2 DEF RspInv, ServerInv, WaitingInv, server, Running
    <3>. QED
      BY <3>1, <3>2
  <2>. QED
    BY <2>1, <2>2, <2>3, <2>4 DEF ServerInv
<1>8. LinkInv'
  <2>1. Running' = Running /\ fcli' = fcli
    BY DEF Running, server
  <2>2. \A d \in Clients : Unserved(d) => Unserved(d)'
    BY <1>2 DEF Unserved
  <2>. QED
    BY <2>1, <2>2 DEF RspInv, LinkInv
<1>. QED
  BY <1>3, <1>6, <1>7, <1>8 DEF RspInv

\* The client acknowledges or refuses a packet.
LEMMA Reacted ==
  ASSUME RspInv, NEW c \in Clients, NEW x \in {Ack, Nak},
         up' = IF link[c] = "up" THEN [up EXCEPT ![c] = Append(@, x)] ELSE up
  PROVE  /\ up' \in [Clients -> Seq(Chars)] /\ \A d \in Clients \ {c} : up'[d] = up[d]
         /\ \A d, g, r, todos, h :
              LineInv(up[c], d, g, r, todos, h) => LineInv(up'[c], d, g, r, todos, h)
<1>1. up \in [Clients -> Seq(Chars)] /\ up[c] \in Seq(Chars) /\ x \in Chars /\ ~IsReq(x)
  BY Signs DEF RspInv, RspTypes
<1>2. /\ Append(up[c], x) \in Seq(Chars)
      /\ \A d, g, r, todos, h :
           LineInv(up[c], d, g, r, todos, h) => LineInv(Append(up[c], x), d, g, r, todos, h)
  BY <1>1, AppendAt, LineUpAppend
<1>3. up' = up \/ up' = [up EXCEPT ![c] = Append(@, x)]
  OBVIOUS
<1>. QED
  BY <1>1, <1>2, <1>3

\* What the client has before it reads.
LEMMA BeforeReceive ==
  ASSUME RspInv, NEW c \in Clients, down[c] # <<>>
  PROVE  /\ up[c] \in Seq(Chars) /\ down[c] \in Seq(Downs) /\ Tail(down[c]) \in Seq(Downs)
         /\ Head(down[c]) \in Downs
         /\ asked[c] \in Nat /\ answered[c] \in Nat /\ answered[c] <= asked[c]
         /\ faults \in 0..MaxFaults /\ up \in [Clients -> Seq(Chars)]
         /\ call[c] \in Requests /\ gdb[c] \in {"idle", "sent", "acked"}
         /\ gdb = [gdb EXCEPT ![c] = gdb[c]] /\ answered = [answered EXCEPT ![c] = answered[c]]
         /\ gdb[c] = "idle" <=> answered[c] = asked[c]
         /\ LineInv(up[c], Tail(down[c]), gdb[c], call[c], todo[c], Held(c))
         /\ IsSig(Head(down[c])) => NoSig(Tail(down[c])) /\ NoReq(up[c]) /\ gdb[c] = "sent"
         /\ Head(down[c]).t = "-" => Waits(todo[c], Held(c), call[c])
         /\ Head(down[c]).t = "+" => Taken(todo[c], Held(c), call[c])
         /\ gdb[c] = "acked" =>
              NoReq(up[c]) /\ NoSig(Tail(down[c])) /\ Taken(todo[c], Held(c), call[c])
<1>1. up[c] \in Seq(Chars) /\ down[c] \in Seq(Downs) /\ ClientInv(c)
  BY DEF RspInv, RspTypes
<1>2. Tail(down[c]) \in Seq(Downs) /\ Head(down[c]) \in Downs
  BY <1>1, TailAt
<1>3. /\ asked[c] \in Nat /\ answered[c] \in Nat /\ answered[c] <= asked[c]
      /\ faults \in 0..MaxFaults /\ up \in [Clients -> Seq(Chars)]
      /\ call[c] \in Requests /\ gdb[c] \in {"idle", "sent", "acked"}
      /\ gdb = [gdb EXCEPT ![c] = gdb[c]] /\ answered = [answered EXCEPT ![c] = answered[c]]
  BY DEF RspInv, RspTypes
<1>4. gdb[c] = "idle" <=> answered[c] = asked[c]
  BY <1>1 DEF ClientInv
<1>5. /\ LineInv(up[c], Tail(down[c]), gdb[c], call[c], todo[c], Held(c))
      /\ NoSig(down[c]) => NoSig(Tail(down[c]))
      /\ IsSig(Head(down[c])) => NoSig(Tail(down[c])) /\ NoReq(up[c]) /\ gdb[c] = "sent"
      /\ Head(down[c]).t = "-" => Waits(todo[c], Held(c), call[c])
      /\ Head(down[c]).t = "+" => Taken(todo[c], Held(c), call[c])
  BY <1>1, LineDownTail DEF ClientInv
<1>6. gdb[c] = "acked" =>
        NoReq(up[c]) /\ NoSig(down[c]) /\ Taken(todo[c], Held(c), call[c])
  BY <1>1, Kinds DEF ClientInv, LineInv, NoReq, NoSig, IsSig
<1>. QED
  BY <1>1, <1>2, <1>3, <1>4, <1>5, <1>6

LEMMA ReceiveStep ==
  ASSUME RspInv, NEW c \in Clients, Receive(c)
  PROVE  /\ RspInv'
         /\ \/ answered' = answered
            \/ /\ answered' = [answered EXCEPT ![c] = asked[c]] /\ answered[c] # asked[c]
               /\ todo[c] = <<>> \/ call[c] \in Unanswered
               /\ call[c] \in Resumes => state = "AVR_STOPPED"
<1>. DEFINE ch == Head(down[c])
<1>1. /\ link[c] \in {"up", "dropped"} /\ down[c] # <<>>
      /\ down' = [down EXCEPT ![c] = Tail(@)]
      /\ UNCHANGED <<server, state, backlog, link, call, asked, interrupts, todo>>
  BY DEF Receive
<1>2. /\ up[c] \in Seq(Chars) /\ down[c] \in Seq(Downs) /\ Tail(down[c]) \in Seq(Downs)
      /\ ch \in Downs
      /\ asked[c] \in Nat /\ answered[c] \in Nat /\ answered[c] <= asked[c]
      /\ faults \in 0..MaxFaults /\ up \in [Clients -> Seq(Chars)]
      /\ call[c] \in Requests /\ gdb[c] \in {"idle", "sent", "acked"}
      /\ gdb = [gdb EXCEPT ![c] = gdb[c]] /\ answered = [answered EXCEPT ![c] = answered[c]]
      /\ gdb[c] = "idle" <=> answered[c] = asked[c]
      /\ LineInv(up[c], Tail(down[c]), gdb[c], call[c], todo[c], Held(c))
      /\ IsSig(ch) => NoSig(Tail(down[c])) /\ NoReq(up[c]) /\ gdb[c] = "sent"
      /\ ch.t = "-" => Waits(todo[c], Held(c), call[c])
      /\ ch.t = "+" => Taken(todo[c], Held(c), call[c])
      /\ gdb[c] = "acked" =>
           NoReq(up[c]) /\ NoSig(Tail(down[c])) /\ Taken(todo[c], Held(c), call[c])
  BY <1>1, BeforeReceive
<1>3. CASE ch.t = "+" /\ UNCHANGED <<up, faults>>
  <2>1. gdb[c] = "sent" /\ NoSig(Tail(down[c])) /\ NoReq(up[c])
    BY <1>2, <1>3 DEF IsSig
  <2>2. \A g : LineInv(up[c], Tail(down[c]), g, call[c], todo[c], Held(c))
    BY <1>2, <1>3, <2>1, LineIdle
  <2>3. CASE call[c] \in Unanswered
    <3>1. gdb' = [gdb EXCEPT ![c] = "idle"] /\ answered' = [answered EXCEPT ![c] = asked[c]]
      BY <1>3, <2>1, <2>3 DEF Receive
    <3>2. /\ up' \in [Clients -> Seq(Chars)] /\ \A d \in Clients \ {c} : up'[d] = up[d]
          /\ LineInv(up'[c], Tail(down[c]), "idle", call[c], todo[c], Held(c))
          /\ faults' \in 0..MaxFaults
      BY <1>2, <1>3, <2>2
    <3>3. PICK n \in Nat : n = asked[c] /\ n <= asked[c]
      BY <1>2
    <3>4. answered' = [answered EXCEPT ![c] = n]
      BY <3>1, <3>3
    <3>5. RspInv'
      BY <1>1, <1>3, <2>3, <3>1, <3>2, <3>3, <3>4, ReceiveEffect
    <3>. QED
      BY <1>2, <2>1, <2>3, <3>1, <3>5, Unresumed
  <2>4. CASE call[c] \notin Unanswered
    <3>1. gdb' = [gdb EXCEPT ![c] = "acked"] /\ answered' = answered
      BY <1>3, <2>1, <2>4 DEF Receive
    <3>2. answered' = [answered EXCEPT ![c] = answered[c]] /\ answered[c] # asked[c]
      BY <1>2, <2>1, <3>1
    <3>3. RspInv'
      BY <1>1, <1>2, <1>3, <2>2, <2>4, <3>1, <3>2, ReceiveEffect
    <3>. QED
      BY <3>1, <3>3
  <2>. QED
    BY <2>3, <2>4
<1>4. CASE ch.t = "-" /\ UNCHANGED <<gdb, answered>>
  <2>1. gdb[c] = "sent" /\ NoSig(Tail(down[c])) /\ NoReq(up[c])
    BY <1>2, <1>4 DEF IsSig
  <2>2. /\ faults' \in 0..MaxFaults /\ up' \in [Clients -> Seq(Chars)]
        /\ \A d \in Clients \ {c} : up'[d] = up[d]
        /\ LineInv(up'[c], Tail(down[c]), gdb[c], call[c], todo[c], Held(c))
    <3>1. CASE UNCHANGED <<up, faults>>
      BY <1>2, <3>1
    <3>2. CASE SendPacket(c, call[c])
      <4>1. PICK r \in Requests : r = call[c]
        BY <1>2
      <4>2. /\ faults' \in 0..MaxFaults
            /\ \E q \in Chars : IsReq(q) /\ q.r = r /\ up' = [up EXCEPT ![c] = Append(@, q)]
        BY <3>2, <4>1, SendPacketStep
      <4>3. PICK q \in Chars : IsReq(q) /\ q.r = r /\ up' = [up EXCEPT ![c] = Append(@, q)]
        BY <4>2
      <4>4. Append(up[c], q) \in Seq(Chars)
        BY <1>2, AppendAt
      <4>5. /\ up' \in [Clients -> Seq(Chars)] /\ up'[c] = Append(up[c], q)
            /\ \A d \in Clients \ {c} : up'[d] = up[d]
        BY <1>2, <4>3, <4>4
      <4>6. LineInv(Append(up[c], q), Tail(down[c]), gdb[c], r, todo[c], Held(c))
        BY <1>2, <1>4, <2>1, <4>1, <4>3, LineUpAppend
      <4>. QED
        BY <4>1, <4>2, <4>5, <4>6
    <3>. QED
      BY <1>4, <3>1, <3>2 DEF Receive
  <2>3. /\ gdb' = [gdb EXCEPT ![c] = gdb[c]] /\ answered' = [answered EXCEPT ![c] = answered[c]]
        /\ gdb[c] # "idle" /\ gdb[c] # "acked"
    BY <1>2, <1>4, <2>1
  <2>4. RspInv'
    BY <1>1, <1>2, <2>2, <2>3, ReceiveEffect
  <2>. QED
    BY <1>4, <2>4
<1>5. ASSUME NEW x \in {Ack, Nak}, IsPkt(ch), faults' = faults,
             up' = IF link[c] = "up" THEN [up EXCEPT ![c] = Append(@, x)] ELSE up,
             UNCHANGED <<gdb, answered>>
      PROVE  RspInv'
  <2>1. /\ up' \in [Clients -> Seq(Chars)] /\ \A d \in Clients \ {c} : up'[d] = up[d]
        /\ LineInv(up'[c], Tail(down[c]), gdb[c], call[c], todo[c], Held(c))
    BY <1>2, <1>5, Reacted
  <2>2. gdb' = [gdb EXCEPT ![c] = gdb[c]] /\ answered' = [answered EXCEPT ![c] = answered[c]]
    BY <1>2, <1>5
  <2>3. faults' \in 0..MaxFaults
    BY <1>2, <1>5
  <2>4. \/ ch.t = "+" \/ gdb[c] # "acked" \/ gdb[c] = "acked"
    OBVIOUS
  <2>. QED
    BY <1>1, <1>2, <2>1, <2>2, <2>3, <2>4, ReceiveEffect
<1>6. CASE /\ IsPkt(ch) /\ gdb[c] = "acked" /\ faults' = faults
           /\ up' = IF link[c] = "up" THEN [up EXCEPT ![c] = Append(@, Ack)] ELSE up
           /\ gdb' = [gdb EXCEPT ![c] = "idle"] /\ answered' = [answered EXCEPT ![c] = ch.no]
  <2>1. 1 \in 1..Len(down[c]) /\ ch = down[c][1] /\ Fresh(down[c], gdb[c], 1)
    BY <1>1, <1>2, <1>6, FreshHead
  <2>2. /\ ch.no = asked[c] /\ ~NoFresh(down[c], gdb[c]) /\ todo[c] = <<>>
        /\ call[c] \in Resumes /\ link[c] # "closed" => state = "AVR_STOPPED"
    BY <2>1 DEF RspInv, ClientInv, FreshInv, NoFresh
  <2>3. answered[c] # asked[c] /\ answered' = [answered EXCEPT ![c] = asked[c]]
    BY <1>2, <1>6, <2>2
  <2>4. LineInv(up[c], Tail(down[c]), "idle", call[c], todo[c], Held(c))
    BY <1>2, <1>6, LineIdle
  <2>5. /\ up' \in [Clients -> Seq(Chars)] /\ \A d \in Clients \ {c} : up'[d] = up[d]
        /\ LineInv(up'[c], Tail(down[c]), "idle", call[c], todo[c], Held(c))
    BY <1>6, <2>4, Reacted
  <2>6. faults' \in 0..MaxFaults
    BY <1>2, <1>6
  <2>7. RspInv'
    <3>1. PICK n \in Nat : n = asked[c] /\ n <= asked[c]
      BY <1>2
    <3>2. answered' = [answered EXCEPT ![c] = n]
      BY <2>3, <3>1
    <3>. QED
      BY <1>1, <1>6, <2>2, <2>5, <2>6, <3>1, <3>2, ReceiveEffect
  <2>. QED
    BY <1>1, <2>2, <2>3, <2>7
<1>7. CASE IsPkt(ch)
  <2>1. ch.t # "+" /\ ch.t # "-"
    BY <1>7 DEF IsPkt
  <2>. QED
    BY <1>5, <1>6, <1>7, <2>1 DEF Receive
<1>8. CASE ch.t = "+"
  BY <1>3, <1>8 DEF Receive
<1>9. CASE ch.t = "-"
  BY <1>4, <1>9 DEF Receive
<1>. QED
  BY <1>2, <1>7, <1>8, <1>9, Kinds DEF IsPkt

-----------------------------------------------------------------------------
(* The theorems. *)

LEMMA RspInit == Init => RspInv
<1>. SUFFICES ASSUME Init PROVE RspInv
  OBVIOUS
<1>1. /\ fserv \in BOOLEAN /\ fcli = None /\ client_waiting = FALSE /\ state = "AVR_STOPPED"
      /\ at = "sim" /\ buf = Ack /\ after = "sim" /\ backlog = {} /\ faults = 0
      /\ interrupts = 0 /\ link = [c \in Clients |-> "off"]
      /\ up = [c \in Clients |-> <<>>] /\ down = up
      /\ gdb = [c \in Clients |-> "idle"] /\ call = [c \in Clients |-> "ask"]
      /\ asked = [c \in Clients |-> 0] /\ answered = asked
      /\ todo = [c \in Clients |-> <<>>]
  BY DEF Init
<1>2. RspTypes
  <2>1. /\ up \in [Clients -> Seq(Chars)] /\ down \in [Clients -> Seq(Downs)]
        /\ todo \in [Clients -> Seq(Requests)]
    BY <1>1
  <2>2. call \in [Clients -> Requests]
    BY <1>1 DEF Requests, Effects
  <2>3. /\ asked \in [Clients -> Nat] /\ answered \in [Clients -> Nat]
        /\ faults \in 0..MaxFaults /\ interrupts \in 0..MaxInterrupts
        /\ \A c \in Clients : asked[c] <= MaxRequests[c] /\ answered[c] <= asked[c]
    BY <1>1, BoundsAssumption
  <2>4. /\ gdb \in [Clients -> {"idle", "sent", "acked"}]
        /\ link \in [Clients -> {"off", "up", "closed", "dropped"}]
    BY <1>1
  <2>. QED
    BY <1>1, <2>1, <2>2, <2>3, <2>4, Signs DEF RspTypes, States, Places
<1>3. ASSUME NEW c \in Clients PROVE ClientInv(c)
  <2>1. Held(c) = <<>> /\ todo[c] = <<>> /\ down[c] = <<>> /\ up[c] = <<>> /\ gdb[c] = "idle"
    BY <1>1 DEF Held
  <2>2. NoReq(up[c]) /\ NoSig(down[c]) /\ NoFresh(down[c], gdb[c])
        /\ FreshInv(down[c], gdb[c], asked[c])
    BY <2>1 DEF NoReq, NoSig, NoFresh, FreshInv
  <2>3. Taken(todo[c], Held(c), call[c])
    BY <2>1 DEF Taken
  <2>4. LineInv(up[c], down[c], gdb[c], call[c], todo[c], Held(c))
    BY <2>2, <2>3, LineIdle
  <2>. QED
    BY <1>1, <2>2, <2>4 DEF ClientInv
<1>4. ServerInv
  BY <1>1 DEF ServerInv, StopInv, HandleInv, AckInv, WaitingInv
<1>5. LinkInv
  BY <1>1 DEF LinkInv, Unserved
<1>. QED
  BY <1>2, <1>3, <1>4, <1>5 DEF RspInv

LEMMA RspInductive ==
  ASSUME RspInv, [Next]_vars
  PROVE  RspInv'
<1>1. CASE UNCHANGED vars
  <2>1. RspTypes'
    BY <1>1 DEF vars, server, client, RspInv, RspTypes
  <2>2. \A c \in Clients : ClientInv(c)'
    BY <1>1 DEF vars, server, client, RspInv, ClientInv, Held
  <2>3. ServerInv' /\ LinkInv'
    BY <1>1 DEF vars, server, client, RspInv, ServerInv, StopInv, HandleInv, AckInv,
                WaitingInv, LinkInv, Running, Unserved
  <2>. QED
    BY <2>1, <2>2, <2>3 DEF RspInv
<1>2. CASE ServerNext
  BY <1>2, EnterStep, QuietFailures, QuietSignal, GetCharStep, QuietEof, HandleStep,
     GetAckStep, QuietAccept, QuietAcceptFails DEF ServerNext
<1>3. CASE StepEnds \/ BreakReached
  BY <1>3, QuietStop
<1>4. CASE ClientNext
  BY <1>4, ClientMoves, SendInterruptStep, ReceiveStep, SendStep DEF ClientNext
<1>. QED
  BY <1>1, <1>2, <1>3, <1>4 DEF Next

\* Every variable keeps its range; a server that handles a packet or sends one has
\* a client, whatever the connections do in the meantime.
THEOREM ServerKeepsRange == Spec => []TypeOK
<1>1. RspInv => TypeOK
  <2>. SUFFICES ASSUME RspInv PROVE TypeOK
    OBVIOUS
  <2>1. States = {Effects[r] : r \in Requests}
    BY DEF States, Effects, Requests
  <2>2. /\ at = "handle" => fcli # None /\ buf.t = "request"
        /\ at = "ack" => fcli # None /\ buf.t \in {"S05", "reply"}
    BY BoundsAssumption, Kinds DEF RspInv, ServerInv, HandleInv, AckInv, IsReq, IsPkt
  <2>3. \A c \in Clients :
          /\ \A i \in 1..Len(up[c]) : up[c][i] \in Chars
          /\ \A i \in 1..Len(down[c]) : down[c][i] \in {Ack, Nak} \cup Packets
    BY ElementOfSeq DEF RspInv, RspTypes, Downs
  <2>4. \A c \in Clients : \A i \in 1..Len(todo[c]) : todo[c][i] \in Requests
    BY ElementOfSeq DEF RspInv, RspTypes
  <2>5. \A c \in Clients : asked[c] \in 0..MaxRequests[c] /\ answered[c] \in 0..asked[c]
    <3>1. \A c \in Clients : /\ asked[c] \in Nat /\ answered[c] \in Nat
                              /\ asked[c] <= MaxRequests[c] /\ answered[c] <= asked[c]
      BY DEF RspInv, RspTypes
    <3>2. \A c \in Clients : MaxRequests[c] \in Nat
      BY BoundsAssumption
    <3>3. \A k, m, n \in Nat : k <= m /\ m <= n => m \in 0..n /\ k \in 0..m
      OBVIOUS
    <3>. QED
      BY <3>1, <3>2, <3>3
  <2>. QED
    BY <2>1, <2>2, <2>3, <2>4, <2>5 DEF RspInv, RspTypes, TypeOK
<1>. QED
  BY <1>1, RspInit, RspInductive, PTL DEF Spec

LEMMA SessionSteps ==
  ASSUME RspInv, [Next]_vars
  PROVE  [Session!SessionNext]_(Session!sessionVars)
<1>. USE DEF Session!sessionVars
<1>1. CASE UNCHANGED vars
  BY <1>1 DEF vars, client
<1>2. CASE Handle
  <2>1. /\ fcli \in Clients /\ state = "AVR_STOPPED" /\ todo[fcli] # <<>>
        /\ Head(todo[fcli]) = buf.r
    BY <1>2 DEF Handle, RspInv, ServerInv, HandleInv, StopInv
  <2>2. Session!Serve(fcli)
    BY <1>2, <2>1 DEF Handle, client, Session!Serve
  <2>. QED
    BY <2>1, <2>2 DEF Session!SessionNext
<1>3. CASE Enter \/ PollFails \/ Signal \/ GetChar \/ GetEof \/ GetAck \/ AckEof
           \/ SigPipe \/ Finish \/ \E c \in Clients : Accept(c) \/ AcceptFails(c)
  BY <1>3 DEF Enter, PollFails, Signal, GetChar, GetEof, GetAck, AckEof, SigPipe, Finish,
              Accept, AcceptFails, client
<1>4. CASE StepEnds \/ BreakReached
  <2>1. Session!Halt
    BY <1>4 DEF StepEnds, BreakReached, McuStops, client, Session!Halt
  <2>. QED
    BY <2>1 DEF Session!SessionNext
<1>5. ASSUME NEW c \in Clients, Connect(c) \/ SendInterrupt(c) \/ Close(c)
      PROVE  UNCHANGED Session!sessionVars
  BY <1>5 DEF Connect, SendInterrupt, Close, client
<1>6. ASSUME NEW c \in Clients, Receive(c)
      PROVE  [Session!SessionNext]_(Session!sessionVars)
  <2>1. UNCHANGED <<call, asked, todo, state>>
    BY <1>6 DEF Receive
  <2>2. answered' = answered \/ Session!Answer(c)
    BY <1>6, <2>1, ReceiveStep DEF Session!Answer
  <2>. QED
    BY <2>1, <2>2 DEF Session!SessionNext
<1>7. ASSUME NEW c \in Clients, NEW r \in Requests, Send(c, r)
      PROVE  Session!SessionNext
  <2>1. answered[c] = asked[c]
    BY <1>7 DEF Send, RspInv, ClientInv
  <2>2. Session!Ask(c, r)
    BY <1>7, <2>1 DEF Send, Session!Ask
  <2>. QED
    BY <2>2 DEF Session!SessionNext, Requests
<1>. QED
  BY <1>1, <1>2, <1>3, <1>4, <1>5, <1>6, <1>7 DEF Next, ServerNext, ClientNext

\* What is asked is carried out once, in order, on a stopped MCU, and each answer
\* is to its own request: with any number of clients and requests, packets damaged,
\* refused and sent again, calls that fail, and clients that leave at any time.
THEOREM RspImplementsSession == Spec => ImplementsSession
<1>1. Init => Session!SessionInit
  BY DEF Init, Session!SessionInit, Requests, Effects
<1>2. RspInv /\ [Next]_vars => [Session!SessionNext]_(Session!sessionVars)
  BY SessionSteps
<1>. QED
  BY <1>1, <1>2, RspInit, RspInductive, PTL DEF Spec, ImplementsSession, Session!SessionSpec
=============================================================================
