------------------------------ MODULE RspSession ------------------------------
(***************************************************************************)
(* What a debugging session is to the debugger: a client asks, the         *)
(* simulator serves what was asked exactly once and only while the MCU is  *)
(* stopped, in the order of asking, and the answer is to that request.     *)
(* The answer to a request that resumes the MCU comes when the MCU has     *)
(* stopped again; some requests have none and are only acknowledged,       *)
(* possibly before they are carried out.                                   *)
(***************************************************************************)
EXTENDS Naturals, Sequences

CONSTANTS Clients, Effects, Resumes, Unanswered

VARIABLES
  call,     \* the request a client has made last
  asked,    \* requests made by a client
  todo,     \* requests of a client that have not been carried out
  answered, \* number of the request whose answer a client obtained last
  mcu       \* state of the MCU

sessionVars == <<call, asked, todo, answered, mcu>>

SessionInit ==
  /\ call \in [Clients -> DOMAIN Effects]
  /\ asked = [c \in Clients |-> 0] /\ answered = asked
  /\ todo = [c \in Clients |-> <<>>]
  /\ mcu = "AVR_STOPPED"

Ask(c, r) ==
  /\ answered[c] = asked[c]
  /\ asked' = [asked EXCEPT ![c] = @ + 1]
  /\ call' = [call EXCEPT ![c] = r]
  /\ todo' = [todo EXCEPT ![c] = Append(@, r)]
  /\ UNCHANGED <<answered, mcu>>

Serve(c) ==
  /\ mcu = "AVR_STOPPED" /\ todo[c] # <<>>
  /\ mcu' = Effects[Head(todo[c])]
  /\ todo' = [todo EXCEPT ![c] = Tail(@)]
  /\ UNCHANGED <<call, asked, answered>>

Answer(c) ==
  /\ answered[c] # asked[c]
  /\ todo[c] = <<>> \/ call[c] \in Unanswered
  /\ call[c] \in Resumes => mcu = "AVR_STOPPED"
  /\ answered' = [answered EXCEPT ![c] = asked[c]]
  /\ UNCHANGED <<call, asked, todo, mcu>>

Halt ==
  /\ mcu \in {"AVR_RUNNING", "AVR_MSIM_STEP"} /\ mcu' = "AVR_STOPPED"
  /\ UNCHANGED <<call, asked, todo, answered>>

SessionNext ==
  \/ \E c \in Clients : Serve(c) \/ Answer(c) \/ \E r \in DOMAIN Effects : Ask(c, r)
  \/ Halt

SessionSpec == SessionInit /\ [][SessionNext]_sessionVars
=============================================================================
