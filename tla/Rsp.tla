--------------------------------- MODULE Rsp ----------------------------------
(***************************************************************************)
(* The link between MCUSim and its debuggers (avr_gdb.c): the server       *)
(* socket, one client at a time, packets with checksums, and replies that  *)
(* are sent again until the client acknowledges them.  MSIM_AVR_RSPHandle  *)
(* is called by the simulation loop while the MCU is stopped; "at" says    *)
(* where in it the simulator is:                                           *)
(*                                                                         *)
(*   sim -> accept -> wait -> handle -> ack -> sim     (ack -> wait for the *)
(*    `---------------^                                 report of a stop)   *)
(*                                                                         *)
(* Packets are records: ok says that the checksum fits.  TCP neither loses *)
(* nor reorders, so what can happen to a packet is what the code guards    *)
(* against: a bad checksum, an interrupt character in its place, or the    *)
(* end of the connection.  The client keeps to the protocol of GDB: one    *)
(* request at a time, sent again when it is refused.  What requests do to  *)
(* memories and registers is in RspFormats.                                *)
(***************************************************************************)
EXTENDS Naturals, Sequences

CONSTANTS
  Clients, None,
  MaxRequests,    \* number of requests each client makes
  MaxFaults,      \* packets damaged on their way, and calls that fail
  MaxInterrupts   \* characters 0x03 a client sends while it waits for a stop

VARIABLES
  \* The server.
  fserv,          \* the server socket is open
  fcli,           \* the client being served, or None (-1)
  client_waiting, \* a resumed MCU owes its client the report of a stop
  state,          \* mcu->state
  at,
  buf,            \* the packet being handled or sent
  after,          \* where put_packet returns to
  \* The sockets.
  backlog,        \* clients connected and not accepted yet
  link,           \* what has become of a client's connection
  up, down,       \* characters and packets to the server, to the client
  \* The clients.
  gdb,            \* what a client is waiting for
  call,           \* its last request
  asked, answered,
  todo,           \* history: its requests that have not been carried out
  faults, interrupts

server == <<fserv, fcli, client_waiting, at, buf, after>>
client == <<gdb, call, asked, answered, interrupts>>
vars   == <<server, state, backlog, link, up, down, client, todo, faults>>

ASSUME BoundsAssumption ==
  /\ MaxRequests \in [Clients -> Nat] /\ MaxFaults \in Nat /\ MaxInterrupts \in Nat
  /\ None \notin Clients

(***************************************************************************)
(* Requests by what they do to the session: "ask" stands for everything    *)
(* that is answered and leaves the MCU stopped (!, ?, g, G, H, m, M, p, P, *)
(* q, v with vRun and vKill, X, z, Z), "c" also for C and "s" also for S,   *)
(* "R" for everything that is only acknowledged (R itself, requests the    *)
(* server does not know); "X" is a binary write with a byte 0xFF in it.     *)
(***************************************************************************)
Effects == [ask  |-> "AVR_STOPPED", c |-> "AVR_RUNNING", s |-> "AVR_MSIM_STEP",
            D    |-> "AVR_STOPPED", k |-> "AVR_MSIM_STOP", R |-> "AVR_STOPPED",
            X    |-> "AVR_STOPPED"]
Requests   == DOMAIN Effects
Resumes    == {"c", "s"}
Unanswered == {"k", "R"}

Ack       == [t |-> "+"]
Nak       == [t |-> "-"]
Interrupt == [t |-> "0x03"]
Request(r)  == [t |-> "request", r |-> r, ok |-> TRUE]
Report(n)   == [t |-> "S05", no |-> n, ok |-> TRUE]
Reply(n)    == [t |-> "reply", no |-> n, ok |-> TRUE]

Places == {"sim", "accept", "wait", "handle", "ack", "failed", "killed", "done"}
Running == at \notin {"failed", "killed", "done"}

Init ==
  /\ fserv \in BOOLEAN           \* MSIM_AVR_RSPInit may fail: port taken
  /\ fcli = None /\ client_waiting = FALSE
  /\ state = "AVR_STOPPED" /\ at = "sim" /\ buf = Ack /\ after = "sim"
  /\ backlog = {} /\ link = [c \in Clients |-> "off"]
  /\ up = [c \in Clients |-> <<>>] /\ down = up
  /\ gdb = [c \in Clients |-> "idle"] /\ call = [c \in Clients |-> "ask"]
  /\ asked = [c \in Clients |-> 0] /\ answered = asked
  /\ todo = [c \in Clients |-> <<>>]
  /\ faults = 0 /\ interrupts = 0

-----------------------------------------------------------------------------
(* Sockets. *)


\* What is written to a client that has closed its end is lost.
Sent(c, p) ==
  IF link[c] # "up" THEN UNCHANGED <<down, faults>>
  ELSE \E bad \in BOOLEAN :
         /\ bad => faults < MaxFaults
         /\ faults' = IF bad THEN faults + 1 ELSE faults
         /\ down' = [down EXCEPT ![c] = Append(@, [p EXCEPT !.ok = ~bad])]

PutChar(c, ch) ==
  down' = IF link[c] = "up" THEN [down EXCEPT ![c] = Append(@, ch)] ELSE down

\* close() on the server's side: what the client has not read yet still arrives.
Dropped(cs) == [c \in Clients |-> IF c \in cs /\ link[c] = "up" THEN "dropped" ELSE link[c]]

CloseClient == fcli' = None /\ link' = IF fcli = None THEN link ELSE Dropped({fcli})

\* Both sockets; connections not accepted yet are reset with the server socket.
CloseAll == fcli' = None /\ fserv' = FALSE /\ backlog' = {}
            /\ link' = Dropped(backlog \cup {fcli})

-----------------------------------------------------------------------------
(* The server. *)

\* put_packet: the packet goes out for the first time.
PutPacket(p, next) ==
  /\ buf' = p /\ after' = next /\ at' = "ack"
  /\ Sent(fcli, p)

\* The part of MSIM_AVR_RSPHandle behind the loop that waits for a client.  The
\* code clears client_waiting when put_packet is back; nobody reads it until then.
Attend ==
  IF client_waiting
  THEN PutPacket(Report(asked[fcli]), "wait")
  ELSE at' = "wait" /\ UNCHANGED <<buf, after, down, faults>>

\* MSIM_AVR_SimStep calls MSIM_AVR_RSPHandle for a stopped MCU only.
PolledAlways == state \in {"AVR_STOPPED", "AVR_RUNNING"}      \* mutant
Polled == state = "AVR_STOPPED"

Enter ==
  /\ at = "sim" /\ Polled
  /\ \/ /\ ~fserv
        /\ at' = "failed"
        /\ UNCHANGED <<client_waiting, buf, after, down, faults>>
     \/ /\ fserv /\ fcli = None
        /\ at' = "accept"
        /\ UNCHANGED <<client_waiting, buf, after, down, faults>>
     \/ /\ fserv /\ fcli # None
        /\ Attend /\ client_waiting' = FALSE
  /\ UNCHANGED <<fserv, fcli, state, backlog, link, up, client, todo>>

\* rsp_server_request
Accept(c) ==
  /\ at = "accept" /\ c \in backlog /\ fserv
  /\ backlog' = backlog \ {c} /\ fcli' = c
  /\ client_waiting' = FALSE
  /\ at' = "wait"
  /\ UNCHANGED <<fserv, state, buf, after, link, up, down, client, todo, faults>>

\* The socket of the new client cannot be set up, or accept() itself fails: then
\* the server socket is closed, and the loop goes on to poll the descriptor -1.
AcceptFails(c) ==
  /\ at = "accept" /\ c \in backlog /\ faults < MaxFaults
  /\ faults' = faults + 1
  /\ \/ /\ backlog' = backlog \ {c} /\ link' = Dropped({c})
        /\ UNCHANGED fserv
     \/ backlog' = {} /\ link' = Dropped(backlog) /\ fserv' = FALSE
  /\ UNCHANGED <<fcli, client_waiting, at, buf, after, state, up, down, client, todo>>

\* poll() fails for another reason than a signal.
PollFails ==
  /\ at \in {"accept", "wait"} /\ faults < MaxFaults
  /\ faults' = faults + 1
  /\ at' = "failed" /\ CloseAll
  /\ UNCHANGED <<client_waiting, buf, after, state, up, down, client, todo>>

\* A signal ends a poll() that blocks with EINTR (dump_flash_handler returns).
Signal ==
  /\ at = "wait" /\ at' = "sim"
  /\ fcli # None => up[fcli] = <<>> /\ link[fcli] = "up"
  /\ UNCHANGED <<fserv, fcli, client_waiting, buf, after, state, backlog, link, up,
                 down, client, todo, faults>>

Read(c) == up' = [up EXCEPT ![c] = Tail(@)]

\* get_packet: anything but an interrupt or a packet is passed over; a packet with
\* a bad checksum is refused, and the next one awaited.
GetChar ==
  /\ at = "wait" /\ fcli # None /\ up[fcli] # <<>>
  /\ Read(fcli)
  /\ LET ch == Head(up[fcli]) IN
     \/ /\ ch.t \in {"+", "-"}
        /\ UNCHANGED <<at, buf, down>>
     \/ /\ ch.t = "0x03"                       \* the MCU is stopped: no effect
        /\ at' = "sim" /\ UNCHANGED <<buf, down>>
     \/ /\ ch.t = "request" /\ ~ch.ok /\ ch.r # "X"
        /\ PutChar(fcli, Nak) /\ UNCHANGED <<at, buf>>
     \/ /\ ch.t = "request" /\ ch.ok /\ ch.r # "X"
        /\ PutChar(fcli, Ack) /\ buf' = ch /\ at' = "handle"
     \/ /\ ch.t = "request" /\ ch.r = "X"      \* (int8_t)0xFF is -1: end of link
        /\ at' = "sim" /\ UNCHANGED <<buf, down>>
  /\ IF Head(up[fcli]).t = "request" /\ Head(up[fcli]).r = "X"
     THEN CloseClient ELSE UNCHANGED <<fcli, link>>
  /\ UNCHANGED <<fserv, client_waiting, after, state, backlog, client, todo, faults>>

\* The end of the connection: get_packet returns NULL.
GetEof ==
  /\ at = "wait" /\ fcli # None /\ up[fcli] = <<>> /\ link[fcli] = "closed"
  /\ CloseClient /\ at' = "sim"
  /\ UNCHANGED <<fserv, client_waiting, buf, after, state, backlog, up, down, client,
                 todo, faults>>

\* rsp_client_request.  Its branch for a running MCU is not modelled: it is never
\* polled then, and the interrupt character is not seen before the MCU stops.
Handle ==
  /\ at = "handle"
  /\ state' = Effects[buf.r]
  /\ todo' = [todo EXCEPT ![fcli] = Tail(@)]
  /\ client_waiting' = (client_waiting \/ buf.r \in Resumes)
  /\ \/ /\ buf.r \in Resumes \cup Unanswered
        /\ at' = "sim" /\ UNCHANGED <<buf, after, down, faults>>
     \/ /\ buf.r \notin Resumes \cup Unanswered
        /\ PutPacket(Reply(asked[fcli]), IF buf.r = "D" THEN "close" ELSE "sim")
  /\ UNCHANGED <<fserv, fcli, backlog, link, up, client>>

\* put_packet has its acknowledgement, or no client any more.
PutReturns == at' = IF after = "close" THEN "sim" ELSE after

AnyAck(ch) == ch.t \in {"+", "-"}      \* mutant
IsAck(ch) == ch.t = "+"

\* Whatever else comes in the place of the acknowledgement has the packet sent
\* again, once per character; the rest of a request is a character like any other.
GetAck ==
  /\ at = "ack" /\ up[fcli] # <<>>
  /\ Read(fcli)
  /\ \/ /\ IsAck(Head(up[fcli]))
        /\ PutReturns
        /\ IF after = "close" THEN CloseClient ELSE UNCHANGED <<fcli, link>>
        /\ UNCHANGED <<buf, after, down, faults>>
     \/ /\ ~IsAck(Head(up[fcli]))
        /\ PutPacket(buf, after) /\ UNCHANGED <<fcli, link>>
  /\ UNCHANGED <<fserv, client_waiting, state, backlog, client, todo>>

\* The client has closed its end: the put fails silently.  A "wait" to return to
\* is the poll of a descriptor that is -1 by now.
AckEof ==
  /\ at = "ack" /\ up[fcli] = <<>> /\ link[fcli] = "closed"
  /\ PutReturns /\ CloseClient
  /\ UNCHANGED <<fserv, client_waiting, buf, after, state, backlog, up, down, client,
                 todo, faults>>

\* Nothing handles SIGPIPE: a second write to a closed connection ends the process.
SigPipe ==
  /\ at = "ack" /\ link[fcli] = "closed"
  /\ at' = "killed" /\ CloseAll
  /\ UNCHANGED <<client_waiting, buf, after, state, up, down, client, todo, faults>>

\* The end of a step stops the MCU, and so does BREAK or a trap, if it is reached.
McuStops(how) ==
  /\ at = "sim" /\ state = how
  /\ state' = "AVR_STOPPED"
  /\ UNCHANGED <<server, backlog, link, up, down, client, todo, faults>>

\* The simulation ends, and MSIM_AVR_RSPClose closes the sockets.
Finish ==
  /\ at = "sim" /\ state = "AVR_MSIM_STOP"
  /\ at' = "done" /\ CloseAll
  /\ UNCHANGED <<client_waiting, buf, after, state, up, down, client, todo, faults>>

ServerNext ==
  \/ Enter \/ PollFails \/ Signal \/ GetChar \/ GetEof \/ Handle \/ GetAck
  \/ AckEof \/ SigPipe \/ Finish
  \/ \E c \in Clients : Accept(c) \/ AcceptFails(c)

-----------------------------------------------------------------------------
(* The client: GDB, or a script that speaks its protocol. *)

\* listen() lets it connect, and even send, before it is accepted.
Connect(c) ==
  /\ fserv /\ Running /\ link[c] = "off"
  /\ link' = [link EXCEPT ![c] = "up"] /\ backlog' = backlog \cup {c}
  /\ UNCHANGED <<server, state, up, down, client, todo, faults>>

SendPacket(c, r) ==
  \E bad \in BOOLEAN :
    /\ bad => faults < MaxFaults
    /\ faults' = IF bad THEN faults + 1 ELSE faults
    /\ up' = [up EXCEPT ![c] = Append(@, [Request(r) EXCEPT !.ok = ~bad])]

\* After "D" a debugger asks nothing more.
Send(c, r) ==
  /\ link[c] = "up" /\ gdb[c] = "idle" /\ call[c] # "D" /\ asked[c] < MaxRequests[c]
  /\ call' = [call EXCEPT ![c] = r] /\ asked' = [asked EXCEPT ![c] = @ + 1]
  /\ todo' = [todo EXCEPT ![c] = Append(@, r)]
  /\ gdb' = [gdb EXCEPT ![c] = "sent"]
  /\ SendPacket(c, r)
  /\ UNCHANGED <<server, state, backlog, link, down, answered, interrupts>>

\* The user presses Ctrl-C while the program runs.
SendInterrupt(c) ==
  /\ link[c] = "up" /\ gdb[c] = "acked" /\ call[c] \in Resumes
  /\ interrupts < MaxInterrupts /\ interrupts' = interrupts + 1
  /\ up' = [up EXCEPT ![c] = Append(@, Interrupt)]
  /\ UNCHANGED <<server, state, backlog, link, down, gdb, call, asked, answered,
                 todo, faults>>

\* A request without an answer is over as soon as it is acknowledged.
Receive(c) ==
  /\ link[c] \in {"up", "dropped"} /\ down[c] # <<>>
  /\ down' = [down EXCEPT ![c] = Tail(@)]
  /\ LET ch == Head(down[c])
         Reacts(x) == up' = IF link[c] = "up" THEN [up EXCEPT ![c] = Append(@, x)] ELSE up
     IN
     \/ /\ ch.t = "+"
        /\ IF gdb[c] # "sent" THEN UNCHANGED <<gdb, answered>>
           ELSE IF call[c] \in Unanswered
           THEN /\ gdb' = [gdb EXCEPT ![c] = "idle"]
                /\ answered' = [answered EXCEPT ![c] = asked[c]]
           ELSE gdb' = [gdb EXCEPT ![c] = "acked"] /\ UNCHANGED answered
        /\ UNCHANGED <<up, faults>>
     \/ /\ ch.t = "-"
        /\ IF gdb[c] = "sent" /\ link[c] = "up" THEN SendPacket(c, call[c])
           ELSE UNCHANGED <<up, faults>>
        /\ UNCHANGED <<gdb, answered>>
     \/ /\ ch.t \in {"S05", "reply"} /\ ~ch.ok
        /\ Reacts(Nak) /\ UNCHANGED <<gdb, answered, faults>>
     \/ /\ ch.t \in {"S05", "reply"} /\ ch.ok
        /\ Reacts(Ack)
        /\ IF gdb[c] = "acked"
           THEN /\ gdb' = [gdb EXCEPT ![c] = "idle"]
                /\ answered' = [answered EXCEPT ![c] = ch.no]
           ELSE UNCHANGED <<gdb, answered>>
        /\ UNCHANGED faults
  /\ UNCHANGED <<server, state, backlog, link, call, asked, interrupts, todo>>

\* The debugger quits, or its machine goes down, whatever it was doing.
Close(c) ==
  /\ link[c] = "up"
  /\ link' = [link EXCEPT ![c] = "closed"]
  /\ UNCHANGED <<server, state, backlog, up, down, client, todo, faults>>

ClientNext ==
  \E c \in Clients :
    \/ Connect(c) \/ SendInterrupt(c) \/ Receive(c) \/ Close(c)
    \/ \E r \in Requests : Send(c, r)

StepEnds   == McuStops("AVR_MSIM_STEP")
BreakReached == McuStops("AVR_RUNNING")

Next == ServerNext \/ StepEnds \/ BreakReached \/ ClientNext
Spec == Init /\ [][Next]_vars

(***************************************************************************)
(* The loop of the simulator goes on by itself, and a client reads what is *)
(* there for it; nothing makes a client connect, ask or close, a running   *)
(* program stop, or a signal arrive.                                       *)
(***************************************************************************)
Progress == Enter \/ GetChar \/ GetEof \/ Handle \/ GetAck \/ AckEof \/ Finish
            \/ StepEnds \/ \E c \in Clients : Accept(c)
FairSpec ==
  /\ Spec
  /\ WF_vars(Progress)
  /\ \A c \in Clients : WF_vars(Receive(c))

-----------------------------------------------------------------------------
(* Properties. *)

\* Every variable stays in its range: at most one client, and no packet in the
\* hands of a server that does not handle or send one.
Packets == [t : {"S05", "reply"}, no : Nat, ok : BOOLEAN]
Chars   == {Ack, Nak, Interrupt} \cup [t : {"request"}, r : Requests, ok : BOOLEAN]
TypeOK ==
  /\ fserv \in BOOLEAN /\ fcli \in Clients \cup {None} /\ client_waiting \in BOOLEAN
  /\ state \in {Effects[r] : r \in Requests} /\ at \in Places
  /\ buf \in Chars \cup Packets /\ after \in {"sim", "wait", "close"}
  /\ backlog \subseteq Clients
  /\ link \in [Clients -> {"off", "up", "closed", "dropped"}]
  /\ \A c \in Clients :
       /\ \A i \in 1..Len(up[c]) : up[c][i] \in Chars
       /\ \A i \in 1..Len(down[c]) : down[c][i] \in {Ack, Nak} \cup Packets
  /\ gdb \in [Clients -> {"idle", "sent", "acked"}]
  /\ call \in [Clients -> Requests]
  /\ \A c \in Clients : asked[c] \in 0..MaxRequests[c]
  /\ \A c \in Clients : \A i \in 1..Len(todo[c]) : todo[c][i] \in Requests
  /\ \A c \in Clients : answered[c] \in 0..asked[c]
  /\ at = "handle" => fcli # None /\ buf.t = "request"
  /\ at = "ack" => fcli # None /\ buf.t \in {"S05", "reply"}
  /\ faults \in 0..MaxFaults /\ interrupts \in 0..MaxInterrupts

\* Packets refused and sent again, duplicated by an interrupt, or left behind by a
\* client that went away: none of it is carried out twice or in the wrong state,
\* and no answer is taken for that of another request.
Session == INSTANCE RspSession WITH mcu <- state
ImplementsSession == Session!SessionSpec

\* What an accepted client asked is answered, and its connection is kept until
\* then, unless it leaves, the simulation ends, the program does not stop, an
\* interrupt was sent on the way, or the request has a byte 0xFF.
Excused(c) ==
  \/ link[c] = "closed" \/ call[c] = "X" \/ ~Running \/ state = "AVR_RUNNING" \/ interrupts > 0
RequestsAnswered ==
  \A c \in Clients :
    gdb[c] # "idle" /\ fcli = c ~> gdb[c] = "idle" \/ Excused(c)

\* "If there is no RSP client, poll the server socket until we get one" (248):
\* a client that connects to a stopped MCU is accepted when the one before it has
\* left, or the simulation ends.
WaitsAlone(c) ==
  c \in backlog /\ link[c] = "up" /\ \A d \in Clients \ {c} : link[d] \in {"closed", "dropped"}
NextClientAccepted ==
  \A c \in Clients :
    WaitsAlone(c) ~> c \notin backlog \/ link[c] # "up" \/ ~Running \/ state # "AVR_STOPPED"
=============================================================================
