--------------------------------- MODULE Pty ----------------------------------
(***************************************************************************)
(* The pseudo-terminal of an MCU (msim_pty.c): its master side is read by  *)
(* a thread of its own, which hands what it has read to the simulation     *)
(* through a buffer under a mutex.  A critical section is one step, a call *)
(* of read() two: it may block between them.                               *)
(*                                                                         *)
(* The terminal itself is external: what is typed waits in its line, and a *)
(* read() returns a part of that, or -1 once nobody holds the slave side   *)
(* open.  MSIM_PTY_Open holds it open as well.                             *)
(***************************************************************************)
EXTENDS Naturals, Sequences

CONSTANTS
  BUFSIZE,     \* MSIM_PTY_BUFSIZE
  Typed,       \* number of bytes typed at the terminal, which are 1..Typed
  Chunk        \* most bytes of a read()

ASSUME PtyAssumption == BUFSIZE \in Nat /\ Typed \in Nat /\ Chunk \in Nat \ {0}

VARIABLES
  opened,      \* how MSIM_PTY_Open ended: "ok", "nomaster" (no descriptor) or
               \* "stale" (both descriptors closed again, their numbers kept)
  phase,       \* of the simulation: "run", then the steps of MSIM_PTY_Close
  slave,       \* slave_fd is open
  attached,    \* a terminal program holds the slave side open
  typed,       \* number of bytes typed so far
  line,        \* bytes typed and not read yet
  reader,      \* where the reading thread is: [at, buf], buf <<>> if read() failed
  thr,         \* the thread's buffer and its flag: [buf, stop]
  dropped      \* history: bytes that the buffer had no room for

ptyVars == <<opened, phase, slave, attached, typed, line, reader, thr, dropped>>

\* MSIM_PTY_Open
PtyInit ==
  /\ opened \in {"ok", "nomaster", "stale"}
  /\ phase = "run"
  /\ slave = (opened = "ok")
  /\ attached \in BOOLEAN
  /\ typed = 0 /\ line = <<>>
  /\ reader = [at |-> IF opened = "ok" THEN "loop" ELSE "none", buf |-> <<>>]
  /\ thr = [buf |-> <<>>, stop |-> FALSE]
  /\ dropped = <<>>

master == phase \in {"run", "marked", "hung up"}   \* master_fd is open

-----------------------------------------------------------------------------
(* The user of the terminal. *)

Type ==
  /\ attached /\ typed < Typed /\ opened = "ok" /\ master
  /\ typed' = typed + 1 /\ line' = Append(line, typed + 1)
  /\ UNCHANGED <<opened, phase, slave, attached, reader, thr, dropped>>
Detach ==
  /\ attached /\ attached' = FALSE
  /\ UNCHANGED <<opened, phase, slave, typed, line, reader, thr, dropped>>

-----------------------------------------------------------------------------
(* read_from_pty *)

ReadCalled ==
  /\ reader.at = "loop"
  /\ reader' = [at |-> IF master THEN "read" ELSE "lock", buf |-> <<>>]
  /\ UNCHANGED <<opened, phase, slave, attached, typed, line, thr, dropped>>
ReadReturns ==
  /\ reader.at = "read"
  /\ \/ \E n \in 1..Chunk :
          /\ n <= Len(line)
          /\ reader' = [at |-> "lock", buf |-> SubSeq(line, 1, n)]
          /\ line' = SubSeq(line, n + 1, Len(line))
     \/ /\ line = <<>> /\ ~slave /\ ~attached
        /\ reader' = [at |-> "lock", buf |-> <<>>] /\ UNCHANGED line
  /\ UNCHANGED <<opened, phase, slave, attached, typed, thr, dropped>>

\* What was read is appended if there is room for all of it.
Filled(buf, more) == IF Len(buf) + Len(more) > BUFSIZE THEN buf ELSE buf \o more
Locked ==
  /\ reader.at = "lock"
  /\ thr' = [thr EXCEPT !.buf = Filled(thr.buf, reader.buf)]
  /\ dropped' = IF Len(thr.buf) + Len(reader.buf) > BUFSIZE THEN dropped \o reader.buf ELSE dropped
  /\ reader' = [at |-> IF thr.stop THEN "done" ELSE "loop", buf |-> <<>>]
  /\ UNCHANGED <<opened, phase, slave, attached, typed, line>>

Reader == ReadCalled \/ ReadReturns \/ Locked

-----------------------------------------------------------------------------
(* Calls of the simulation's thread. *)

\* MSIM_PTY_Read: the bytes, and what is left
PtyRead(len) ==
  LET n == IF len < Len(thr.buf) THEN len ELSE Len(thr.buf)
  IN  [buf |-> SubSeq(thr.buf, 1, n), left |-> SubSeq(thr.buf, n + 1, Len(thr.buf))]

\* MSIM_PTY_Close, of a terminal that was opened.  (It joins a thread that was never
\* created where there is none.)
CloseMarks ==
  /\ phase = "run" /\ opened = "ok"
  /\ phase' = "marked" /\ thr' = [thr EXCEPT !.stop = TRUE]
  /\ UNCHANGED <<opened, slave, attached, typed, line, reader, dropped>>
\* Mutant: slave_fd is left open.
MasterClosedOnly == phase = "marked" /\ phase' = "hung up" /\ slave' = slave
SlaveClosed      == phase = "marked" /\ phase' = "hung up" /\ slave' = FALSE
CloseSlave  == SlaveClosed /\ UNCHANGED <<opened, attached, typed, line, reader, thr, dropped>>
CloseMaster ==
  /\ phase = "hung up" /\ phase' = "closed"
  /\ UNCHANGED <<opened, slave, attached, typed, line, reader, thr, dropped>>
Join ==
  /\ phase = "closed" /\ reader.at = "done"
  /\ phase' = "joined"
  /\ UNCHANGED <<opened, slave, attached, typed, line, reader, thr, dropped>>

Close == CloseMarks \/ CloseSlave \/ CloseMaster \/ Join
=============================================================================
