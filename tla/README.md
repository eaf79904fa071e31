# A verification development for MCUSim

MCUSim is a cycle-accurate simulator of AVR microcontrollers with a debugger
interface.  These TLA+ modules model it from the simulation loop to the configuration
file; TLC checks them on small instances and TLAPS proves the main properties for all
instances.  Paths are relative to the root of the repository; `PROJECT.json` maps every
definition to the lines it stands for.

## 1. Inventory

| component | sources | state it keeps | operations |
|---|---|---|---|
| simulation loop | `src/avr/avr_simcore.c` | `state`, `tick`, `tovf`, `intr` (latched requests, `exec_main`) | one clock cycle (`MSIM_AVR_SimStep`), interrupt passing and serving, stack, initialization, program dumps |
| instruction decoder | `src/avr/avr_decoder.c`, `private/macro.h` | `pc`, `mci`, `ic_left`, `read_from_mpm`, SREG, data memory, lists of registers read and written in this cycle | one cycle of an instruction (`MSIM_AVR_Step`) |
| timers/counters | `src/avr/avr_timer.c`, `sim/timer.h` | registers, prescaler count, direction, buffers of OCR and TOP, pending flags | `update_timer` in every cycle of an active MCU |
| GDB RSP server | `src/avr/avr_gdb.c` | sockets, `client_waiting`, matchpoint memory | accept, packets with checksum and acknowledgement, registers, memory, breakpoints, resume |
| register tables | `sim/io_regs.h`, `sim/private/io_macro.h`, `sim/m8`, `sim/m328` | places, masks and reset values of the I/O registers | reading and writing bits of registers |
| thread-safe queue | `src/msim_tsq.c` | ring buffer, mutex, two conditions | init, enqueue, dequeue, destroy; nothing in the tree calls it yet |
| pseudo-terminal | `src/msim_pty.c` | descriptors, reader thread, its buffer and stop flag | open, read, write, close |
| ATmega8A peripherals | `src/avr/avr_m8a.c`, `sim/m8/m8a.h` | USART registers and their shadows, SPM countdown, fuses, device tables | tick, SPM reset, fuse and lock setters |
| ATmega328P, 328, 2560 | `src/avr/avr_m328p.c`, ... | fuses, device tables | fuse and lock setters; the 2560 is not built |
| I/O ports | `src/avr/avr_io.c` | pending value of every PINx | `MSIM_AVR_IOSyncPinx` in every cycle |
| value change dump | `src/avr/avr_vcd.c` | last value of every dumped register | open, frame, close |
| Lua models and API | `src/avr/avr_lua.c`, `avr_luaapi.c` | Lua states | load, tick in every cycle, register access, setting the MCU state |
| configuration | `src/msim_config.c` | the configuration record | read a file line by line |
| Intel HEX, memory files | `src/msim_ihex.c`, `avr_simcore.c` | none | read and write records, load and save the program memory |
| main, signals | `src/msim_main.c` | none | start-up, shut-down, memory dump from a signal handler |
| others | `avr_wdt.c` (a stub), `msim_getopt.c`, `msim_log.c`, `xspice/` | | |

**Interactions.**  Everything of a simulation runs in one thread and meets in
`MSIM_AVR_SimStep`: the debugger is polled (only for a stopped MCU between two
instructions), timers, peripherals and Lua models are ticked, `pc` is tested, a
cycle of an instruction is executed, PINx is synchronized, interrupt flags are
latched and the first request is served, the cycle is counted and a finished
step halts the MCU.  They share the data memory (registers), `state`, `pc` and
`irq`.  Two things run beside it: the reader thread of the pseudo-terminal, and
the signal handler that saves the program memory.

**What is hard, and what makes a component right.**

* *Loop and decoder.*  An instruction lives across cycles in which anything else
  may happen: requests to stop, a debugger's writes, new interrupts.  Right means:
  an effect in exactly the cycle it is due; termination, debugging and
  interrupts between instructions only; a step or trap that stops where it
  says; one instruction of the main program between two service routines;
  no fetch outside the flash; priority without starvation.
* *Timers.*  Registers may be rewritten at any point of a period.  Right means:
  buffers change at their update moment only, so the counter does not run past
  TOP and every period has its duty cycle; a match is flagged in time, an
  overflow again and again; mode changes leave nothing behind.
* *Queue.*  Right means a bounded FIFO under every interleaving, without lost
  wake-ups and without a caller left behind by a destroyed queue.
* *GDB server.*  Requests at the wrong time, disconnections, retransmission,
  breakpoints that overlap or are removed; right means every request is carried out once
  and in a stopped MCU, gets its answer and no other, and matchpoints lose no program.
* *Pseudo-terminal and USART.*  Data races the reader's buffer, the firmware races the
  shift registers, closing races a blocked `read`; right means bytes in order, none
  twice, none lost but where the code loses it, and a close that returns.
* *Program memory, SPM, HEX files.*  Pages written in the unit they are
  addressed in; what is saved is what is loaded, whenever the process was killed.
* *I/O ports and dump.*  A pin follows its driver one cycle late, an input keeps its
  external value, and who reads the dump knows the registers.
* *Tables and conversions.*  A word has one length wherever it is asked for, what a
  debugger writes it reads back, a record that was damaged is refused, the registers of
  a timer do not overlap, and a device starts with the clock its fuses say.

The hazards, each at its line and with the properties that would notice it, are
listed in `PROJECT.json`.

## 2. Modules

| module | models | uses |
|---|---|---|
| `SimCore` | loop, fetch, cycles of an instruction, interrupts, effect of debugger requests, what Lua models write | |
| `Instructions` | what the handlers of `avr_decoder.c` do to registers, SREG, memory, stack and `pc` | |
| `Firmware` | routines such as a compiler writes and what their callers expect | `Instructions` |
| `Timer` | `avr_timer.c` with firmware writes and `pass_irqs` | |
| `RspSession` | abstract specification of a debugging session | |
| `Rsp` | sockets, packets, acknowledgements and polling of `avr_gdb.c`; refines `RspSession` | `RspSession` (INSTANCE) |
| `ProgMem` | program memory: loading, matchpoints, writes, SPM, saving, signals, kills | `ProgWords` |
| `BoundedFifo` | abstract specification of `tsq.h` | |
| `TSQ` | `msim_tsq.c`, refines `BoundedFifo` | `BoundedFifo` (INSTANCE) |
| `Pty` | pseudo-terminal and its reader thread | |
| `Usart` | USART of the ATmega8A, composed with its terminal | `Pty` |
| `Board` | Lua models, dump, instruction and pin synchronization at the I/O ports | |
| `ProgWords` | words of the program memory: bytes, BREAK, length | |
| `Decoder` | the nest of tests of `decode_inst` | `ProgWords` |
| `RspFormats` | contents of a debugger's requests and answers | `ProgWords` |
| `IHex` | records of Intel HEX files | |
| `Registers`, `Devices` | register tables; timers of the devices and the access to their bits | |
| `Startup` | configuration files, fuses, clock | |
| `SimCoreProofs`, `FirmwareProofs`, `TSQProofs`, `TimerProofs`, `RspProofs`, `ProgMemProofs`, `BoardProofs`, `UsartProofs` | invariants and theorems | their modules, TLAPS |
| `MCSimCore`, `MCInstructions`, `MCTimer`, `MCRsp`, `MCProgMem`, `MCTSQ`, `MCUsart`, `MCBoard`, `MCData` | instances for TLC | |

How they meet: `SimCore` stops, resumes and fetches, and leaves to `Instructions` what an
instruction does, to `Rsp` how a request reaches it, to `ProgMem` what a request or SPM
leaves in the memory it fetches from, to `Timer` and `Usart` where interrupts come from, to
`Board` what models do in their part of the cycle.  `Decoder` finds the handlers that
`Instructions` describes, `Devices` has the tables that `Timer` takes as constants.

### SimCore

One call of `MSIM_AVR_SimStep` is the cycle of phases check, rsp, tick, scope,
exec, irq, finish, named by `phase`; each action is a phase or an alternative of
one.  The interleaving that matters is not between threads but between parties
that act in different phases of the same cycle while an instruction is half done.

* State: the fields of `MSIM_AVR` under their own names; `irq` is the set of
  requests latched, `raised` and `enabled` are the timer vectors whose flag and
  enable bit are set; `stack` holds the return addresses.
* Instructions are records: a class `op`, the argument `cyc` of `SKIP_CYCLES`, a
  jump target, a set of enable bits.  Arithmetic, loads and stores are all
  `"seq"`: they advance `pc` and touch nothing the loop looks at; `Instructions` has what they do.  An instruction word
  is fetched again in each of its cycles, as in the code.
* A debugger's request is served by `RspResume` (c, C, s, S), `RspKill` (k),
  `RspRestart` (R, vRun, vKill), `RspWriteReg` (P, G), `RspWriteData` and
  `RspWriteFlash` (M, X, Z, z), or is one that changes nothing (`RspWriteReg` with the
  old values).  What `Z` and `z` write is given by `DebugImages`, pairs of program
  and matchpoint memories; the matchpoint memory only ever holds zeroes or single
  bytes, so its words are NOP or no instruction at all (`MatchMemoriesAssumption`).
* In `TickPeripherals` timers raise flags, peripherals request interrupts, and Lua models
  (`LuaModelsWrite`) may set the state and write SREG, SP, TIMSK and TIFR.
* `spent`, `owed`, `stepped`, `fresh` are history variables; no action reads them.

Abstracted: GDB's connection (an error of the server ends the simulation,
`RspFail`), VCD and log, `IOSyncPinx` (no action here reads a pin), the width of
`pc` on the stack.  After the debugger or firmware changes SP, `RETI` finds either what was
there or an unknown word of the flash.  `VolatileIO` says whether a bit tested
by SBIS/SBIC may change between two cycles of the instruction.

### Timer

`Tick` is one `update_timer`: `TickStopped` (no clock or disabled),
`TickRunning` (prescaler, and in every `Presc[cs]`-th cycle a count, `Clocked`)
and `TickUndefined`.  The moments are tested on the value before the count, in
the order of the code: flags pending, capture, buffers and TOV at TOP, compare
match and pin, TOV, buffers and pin at BOTTOM, counter.  The tables of a device
(`WgmOp`, `ComOp`) are constants, as they are initializers in the code.  Between
ticks the firmware writes any register and `pass_irqs` takes any flag.
`bottomed` and `topped` are history: since the last disturbance (a write to
anything but OCR and ICR) the counter has been at BOTTOM, and then at TOP; a duty cycle
is only promised from then on.  Left out: the external clock pin (its
selections have no code in `avr_timer.c`), 16-bit access byte by byte, the edge
select of the capture pin (the edge selected is the rising one).

### Instructions and Firmware

`SimCore` has the cycles of an instruction and what may happen between them;
`Instructions` has its effect, one instruction a step.  An action is a handler or a
group of handlers that differ in an operand, and its LET follows the local variables of
the handler, with the width they have: `r` of CP is an `int`, of ADIW a `uint32_t`, of SBIW
an `int16_t`.  `sreg` is the set of bits set in SREG, `sp` stands for SPL and SPH, every other
register, I/O register and byte of SRAM is in `dm`, and a store goes through the access mask
of an I/O register as in `WRITE_DS`.  The word of an instruction is a
record of its operation and operands (a second word is `"data"`): the decoding of bit
patterns is left out.  The handlers of single branches and of single flags are
reached by no word, since the tests for BRBS, BRBC, BSET and BCLR come first in `decode_inst`;
the same holds for the 16-bit forms of LDS and STS.  The firmware does not address SPL and
SPH, and `read_io` and `writ_io`, which tell the peripherals what was touched, are left out.

An instruction taken alone is hardly ever wrong in a way one can state: its flags matter
to the next one.  So `Firmware` is a set of routines as a compiler and its library write them
(sums, comparisons and products of words from instructions on bytes, loops, copies with
pointers, saved registers, a service routine, all calls, jumps and skips), and
the properties are what a caller expects.  A state starts behind the call of a routine, with
its arguments in registers, any two words of the bytes in `ByteValues`, and SREG clear or
full; `fn` and `arg` remember the call.

### Decoder, ProgWords

`decode_inst` looks at the upper four bits of a word and then tries masks one after the
other.  `Groups` is that nest as sixteen sequences of tests `<<mask, value, handler>>`;
`Handler` is the first that claims a word, `Shadowed` the handlers that come too late.
The length of an instruction is told in two other places, `MSIM_AVR_Is32` (`Is32`, in
`ProgWords` because `ProgMem` and the debugger need it too) and the handler itself.  What
shadowed handlers would do to SREG and `pc` is modelled; the others are in `Instructions`.

### Rsp and RspSession

`Rsp` is the link between the simulator and its debuggers.  `at` says where in
`MSIM_AVR_RSPHandle` the simulator is: outside (`sim`), waiting for a client
(`accept`), in `get_packet` (`wait`), with a request (`handle`), in the loop of
`put_packet` that waits for `+` (`ack`), or at one of three ends.  A step is what the
server does with one character or packet.

* The server: `Enter` is the call with its three beginnings (no server socket, no client,
  a client that may be owed a report, `client_waiting`), `Accept` and `AcceptFails` are
  `rsp_server_request`, `GetChar` and `GetEof` are `get_packet`, `Handle` is
  `rsp_client_request`, `GetAck`, `AckEof` and `SigPipe` are what may come in the place
  of an acknowledgement, `Finish` is `MSIM_AVR_RSPClose`.
* The client is external and keeps to GDB's protocol: one request at a time, sent again when
  refused, answers acknowledged or refused.  It may connect at any time, also while another one is
  served, press Ctrl-C, and leave in the middle of anything.
* The link is TCP: nothing is lost or reordered while it is up.  What may go wrong is
  what the code guards against: a damaged packet in either direction, a system call that
  fails (`MaxFaults` of both), an interrupt character, the end of a connection.
* Requests are told apart by what they do to the session (`Effects`): a resuming one is
  answered when the MCU stops, some are only acknowledged, `X` is a binary write with a
  byte 0xFF in it, which `get_packet` takes for the end of the connection.

`RspSession` is what a debugger may rely on: `Ask`, `Serve`, `Answer`.  A request is served
once, in the order of asking, in a stopped MCU; the answer comes after that.
`ImplementsSession` maps `todo` (requests made and not carried out, a history) and
`asked`, `answered`, `state` to it.  Packets, acknowledgements and everything that goes
wrong on the way are stutters.

### RspFormats

What is in the packets: registers and memory as digits, `G`, `P`, `M` and `X` with its
escapes, and the bounds the code tests.  A target is a record of `pm`, `dm` and `pc`; a
request takes it to another one, and a refused one leaves it as it is.

### ProgMem

The array of 16-bit words and everything that writes it, in the units the code uses.
Loading, saving and memory requests divide a byte address by two, while matchpoints and SPM
use the byte address as an index, and a matchpoint puts bytes into words.  So
a matchpoint takes two words, or four if what it finds looks like an instruction of two
words, and their upper bytes are gone.

* `InsertMatchpoint`, `RemoveMatchpoint`: `rsp_insert_matchpoint` and
  `rsp_remove_matchpoint` with their test for a BREAK that is already there.
* `WriteMem`: `rsp_write_mem` and its binary form on whole words.  `Erase`, `Fill`,
  `WritePage`: `exec_spm`.
* `Start`: `MSIM_AVR_Init`, with the choice between `.mcusim.flash` and the firmware
  file and the verification behind it.  `Exit`, `Signal`: `MSIM_AVR_SaveProgMem` at the
  end of `main` and from the handler, after which the process goes on.  `Kill`: the
  process dies, in the middle of a save or not; `fopen` has then emptied the file,
  and a prefix of its records is there.
* `view`, `torn`, `lost`, `bps` are histories: the memory without matchpoints,
  the words whose upper byte one has taken, the words for which matchpoints and writes got in each
  other's way, the matchpoints inserted with the words they took.  `Covered` and `InTheWay` are
  about them; no guard of the code depends on them.  A debugger may insert a matchpoint once
  more, which finds its own BREAK and changes nothing, and removes what it has inserted.
* `Verified` is the second pass of `load_mem16`, which compares the checksum of what is in the memory with
  that of the record.

### Usart and Pty

A cycle of `Usart` is `MSIM_M8AUpdate` (`Ticked`) followed by what the firmware does in
it: nothing, a write to UDR, a read of UDR, or another register.  `Loaded`, `Taken`,
`ReadSeen`, `Received`, `Transmitted`, `Watched` are the parts of a tick in
the order of the code.  `did` is `writ_io[0]` and `read_io[0]`, through which the USART learns one
cycle later what was touched.  UBRRH and UCSRC are one cell, as in the data memory.

`Pty` is composed with it: the thread reads from the line and appends under the mutex
(`ReadCalled`, `ReadReturns`, `Locked`), `MSIM_PTY_Read` takes from the buffer inside the tick, and
closing is four steps, since the thread may be anywhere between them.  `opened` says how
`MSIM_PTY_Open` ended.  The line and the program at its other end are external.
The code modelled is that of a build with `MSIM_POSIX_PTY`; see the findings.

### Board

A cycle at the I/O ports, in the order of `MSIM_AVR_SimStep`: timers and `tick_perf`
(`Peripherals`), models (`Tick`, one after the other, with every function of the API that writes a
register and the address checks it makes), dump (`Frame`), `Instruction`, `IOSyncPinx`.  A peripheral and an
instruction store to any one I/O register, PINx included.  A register is the set of its bits that
are one.  `pending` is the value of PINx that the next synchronization will write, `old` is
`old_val`.  `file`, `printed` and `before` are histories: what a reader of the
dump takes a register for, what has been printed at all, what the last
synchronization saw.

### Registers, Devices, IHex, Startup

Conversions and tables, as operators.  `Registers` has the registers a device may have
(`io_regs.h`), those the two devices have, with their addresses, masks and reset values;
`Devices` the timers of `m8a.h` and `m328p.h` and the macros `IOBIT_RD`, `IOBIT_RDA`, `IOBIT_WR`
and `IOBIT_WRA` through which `avr_timer.c` reaches them.  `IHex` writes and
reads a record; `Startup` folds `read_line` over the lines of the configuration files and
writes the fuses of the outcome in the order of `MSIM_AVR_Init`.  `MCData` gives them
their inputs one at a time.

### TSQ and BoundedFifo

A thread holds the mutex from `pthread_mutex_lock` or the return of
`pthread_cond_wait` to `pthread_cond_wait` or the unlock, so each such stretch is a step.
A thread is idle, in `lock`, in `wait`, or `woken`: signalled but without the mutex,
which others may take first.  `Destroy` is documented as not thread-safe; it is
modelled under that contract: no thread is about to enter, those blocked inside
are told.  These lock the mutex once more on their way out, when `MSIM_TSQ_Destroy` may have destroyed it
and the conditions (`msim_tsq.c:94-114`); what happens then POSIX does not say, and it is outside the model, in
which they stay usable.  The copied bytes are an element, `length` is a `uint32_t`
(`LengthMod`, scaled down).  `SpuriousWakeups` allows `pthread_cond_wait` to return unasked;
the runs leave it out.

`ImplementsFifo` is the refinement: the queue of `BoundedFifo` is `Contents`, the
ring from `head` on; a producer blocked with an element offers it, a consumer in a
call asks; taking or storing the element is the abstract step, waiting is a
stutter.

### Correspondence in short

| in the modules | in the code |
|---|---|
| `phase` | position in `MSIM_AVR_SimStep`; `"done"` is the return of `MSIM_AVR_Simulate` with `rc` |
| `Executing`, `IsActive` | the guard at `avr_simcore.c:250` and `IS_MCU_ACTIVE` |
| `FirstSkip`, `LastCycle`, `ExecSkipCycle` | the three cases of `SKIP_CYCLES` |
| `ServeIrq`, `PassIrqs` | `pass_irqs` followed by `handle_irq` with and without a request served |
| `Clocked`, `UpdatesAtTop`, `AtBottom`, `Compared` | a prescaled cycle of `update_timer` and its helpers |
| `ExecAdd`, `ExecSub`, ... | `exec_adc_rol` and `exec_add_lsl`, `exec_sub` and `exec_subi`, ... |
| `UpdSr`, `Written`, `Masked` | `UPDSR`, `WRITE_DS`, `IO` |
| `at` of `Rsp` | position in `MSIM_AVR_RSPHandle`, `get_packet`, `put_packet` |
| `InsertMatchpoint`, `RemoveMatchpoint`, `WriteMem` | `rsp_insert_matchpoint`, `rsp_remove_matchpoint`, `rsp_write_mem` |
| `Erase`, `Fill`, `WritePage` | the three cases of `exec_spm` |
| `Ticked` of `Usart` | `MSIM_M8AUpdate` |
| `ReadCalled`, `ReadReturns`, `Locked` | the reader thread before `read`, after it, and with the mutex |
| `Frame` | `MSIM_AVR_VCDDumpFrame` |
| `Ppin` | `ppin` of `MSIM_AVR_IOSyncPinx` |
| `EnqbLock`, `EnqbWake`, ... | the stretch of `MSIM_TSQ_Enqb` after the lock, after the wait, ... |

Operators commented as mutants are plausible bugs of a definition. They are part
of no specification; put in place of the definition, each makes one property fail
in its run, which shows that the property depends on that piece of the code.

## 3. Runs

| run | checks | shows |
|---|---|---|
| `simcore` | `TypeOK`, `InstructionBoundary`, `FetchInFlash`, `StepExecutesOne`, `TrapStopsAtIsr`, `CycleExact`, `MainBetweenIsrs`, `StopTerminates`, `HighestServed` | the loop under two firmwares, a debugger and Lua models |
| `tsq` | `TypeOK`, `Bounded`, `NoLostWakeup`, `ImplementsFifo`, `DestroyFreesAll` | with one producer and one consumer the ring is the FIFO of `tsq.h` |
| `tsq_steal` | `Bounded` fails | see findings |
| `timer` | `TypeOK`, `NeverPastTop`, `FastPwmDuty`, `DualSlopeDuty`, `MatchFlaggedInTime` | buffered registers and flags under arbitrary register writes |
| `timer_capture` | `Overflows` | a timer left alone overflows for ever, from any register contents |
| `instructions` | `ArithmeticExact`, `ProductsExact`, `MemoryCopied`, `CallsReturn`, `SkipsWhole`, `EveryRoutineReturns` | twenty-four routines do on the simulator what they would do on the MCU |
| `gdb` | `ImplementsSession`, `RequestsAnswered` | two debuggers, damaged packets, interrupts, failures and disconnections in any order are a session of requests carried out once |
| `progmem` | `FlashRecoverable`, `LoadsWhatWasSaved` | matchpoints, writes, SPM, saves, signals, kills and restarts in any order lose no program |
| `usart` | `SentOnce`, `ReadOnce`, `CloseReturns` | firmware, terminal, reader thread and USART in any order: bytes once, in order, and a close that returns |
| `data_reset` | `ResetInFlash` fails | see findings |
| `ports` | `WaveformTrue`, `PinsFollow` | models, dump, instruction and synchronization in every cycle |
| `data` | `DecodingAgrees`, `RequestsReadBack`, `RecordsGuarded`, `TimersSound`, `StartsAsConfigured` | every instruction word, requests, records, timers, configurations and fuses, one at a time |

`tlc -config MCTSQ.cfg MCTSQ` runs `tsq`, and so on (`gdb` is `MCRsp`, `ports` is
`MCBoard`).  Further configurations show one finding each and are not among the runs:
`MCSimCoreVolatile`, `MCSimCoreRestart`, `MCTimerPresc1`, `MCTimerDirection`,
`MCTimerDuty`, `MCInstructionsPoll`, `MCUsartBaud`, `MCRspHang`, `MCProgMemExit`,
`MCBoardInputs`.
Deadlock is checked in `simcore`, `tsq`, `timer` and `instructions`: `Done` and the last
disjunct of the queue's `Next` stand for the states in which the program has legitimately
ended.  The others stop when a bound on inputs is reached.

**Bounds of `SimCore`.**  Eight words of flash hold either of two firmwares.  `Driven`
is interrupt driven: it enables an interrupt, loops over instructions of two
cycles, has a BREAK and two routines.  `Polling` skips on an I/O bit and ends in
an instruction the device lacks and a word that is none.  Between them every class
of instruction occurs, in the main program and, where the code treats it
differently, next to a service routine.  One timer vector and one peripheral
vector are the two ways a request reaches `irq`, and two priorities are enough for
one to starve the other.  `PmSize` is the least
with which the scope test admits the last word of the flash.
`DebugPCs = {8}` is the first word outside the flash; the firmware itself
brings `pc` everywhere inside.  `LuaStates` are a stop and a termination, the
states that interrupt an instruction half done; `Modes` are the debugger with and
without `trap_at_isr`, and firmware test.  `MaxStack = 1`: a routine is not
interrupted by another one without `SEI` or `RETI` in it, and an older return
address is forgotten, after which `RETI` finds an unknown word (one that every word of
the flash, and `FlashEnd + 1` for all the others, stands for).  `PUSH`,
`POP`, `CALL` and `RET` are not told apart from other instructions: the firmware is one that
keeps its stack balanced.  `TicksMax = 1`: `tick` and `tovf` influence
nothing, and both sides of the limit are reached.

**Bounds of `Timer`.**  `Max = 7` (3 with capture), a prescaler of 2, one channel, and
one mode of each kind and each place of TOP.  The channels do not interact;
the prescaler 2 has a cycle that counts and one that does not, and the moment
`presc - 2` at which pending flags are raised.  (A firmware that changes between two
prescalers may delay a pending flag past the next count, because `scnt` is kept;
`MatchFlaggedInTime` is about one prescaler.)  `RegValues = {0, 3, 7}` are BOTTOM, MAX and
a value with room on both sides; the neighbours of BOTTOM and TOP are left to
`MCTimerDuty`, where they violate the duty cycle.  `ModeChanges` lets the firmware switch
between modes 0 and 3; leaving a mode of two slopes is left to `MCTimerDirection`.  In
every mode a run may also start: `Init` has every mode.

**Bounds of `TSQ`.**  Three elements of space, two different elements, so that an
order can be wrong and the indices wrap.  `LengthMod` is below the real 2^32 and
far above the size, which is enough to tell a wrapped length.

**Bounds of `Instructions`.**  A routine has every pair of words made of the bytes 0, 1, 127, 128
and 255: zero, carries in and out of every byte, and both sides of every change of sign.  Between them the
routines execute every instruction modelled but NOP, FMULS and FMULSU.  Each state keeps
the program memory with the one routine it is about, behind a caller that waits at 0.  SRAM lies around a page boundary,
so pointers carry.  The two I/O registers are one that can be written in
full and one with read-only bits (PORTB and MCUCSR).  `PcBits = 12` is the ATmega8A; the third byte of
a return address exists on no device that is built.

**Bounds of `Rsp`.**  Two clients, the first with two requests and the second with one:
a second request meets what the first left behind, and a second client what the
first one did.  One packet damaged or one call that fails, and one interrupt: each may
come at every point, and what they do is undone by the next step of the protocol.  About
500,000 states.

**Bounds of `ProgMem`.**  A flash of four words (`flashend = 7`) in an array of twelve, so
that indices that are byte addresses stay inside, as they do in the real
array of `MSIM_AVR_PMSZ` words; pages of two words, records of three, so that the last record is short.
One firmware has a JMP at the start, one the bytes of a BREAK, one is refused because two records
disagree.  Five operations: two matchpoints that overlap, a write between them and two
removals, or a save, a kill and a start.  About 1,220,000 states.

**Bounds of `Usart` and `Pty`.**  A buffer of two bytes, three typed, at most two in a
`read()`: the buffer is full with room for some or none of the next chunk.  Two bytes
written and two settings, out of: frames of up to eight bits, of nine bits, synchronous with eight
bits.  A tick of the baud clock is two cycles, one at double speed, so that a cycle with and
one without a shift exist.  About 1,600,000 states.

**Bounds of `Board`.**  One model, one port of two pins and a list of ports that goes on
behind its end; a dumped pair of registers and a dumped single bit; two synchronizations,
the second of which writes what the first one left.  About 4,500,000 states.

**Inputs of `MCData`.**  All 65536 words; registers 0, 1, 31, SREG and SP with digits at the edges;
memory in the flash, in the registers and at both ends of RAM, with the bytes that are
escaped; records of up to two bytes with every truncation and every digit damaged; the six
timers; three configuration files, two of them of up to two lines that may be
refused half-way; all clock selections, boot sections and three frequencies on both devices, and the fuses of the test `usart-optiboot`.

### What the properties say

* `InstructionBoundary`: `ic_left = 0`, which guards termination, the debugger,
  interrupts and the end of a step, means no instruction is half done.  `ic_left` and
  `mci` are written by macros in forty handlers, and several parties act between two
  cycles.
* `FetchInFlash`: the only test of `pc` is in the loop, before the decoder;
  `pc` comes from jumps, the stack, vectors and the debugger.
* `CycleExact`: the effect of an instruction comes in its last cycle, also when
  it was stopped meanwhile.
* `StepExecutesOne`, `TrapStopsAtIsr`: what a user of the debugger sees: one step
  is one instruction and a trap stops before the routine.
* `MainBetweenIsrs`: after `RETI` one instruction of the interrupted program.
* `StopTerminates`, `HighestServed`: a stop in the middle of an instruction still
  ends the simulation; no vector starves the one of highest priority.
* `Bounded`, `NoLostWakeup`, `ImplementsFifo`, `DestroyFreesAll`: no element is
  overwritten or read twice, nobody sleeps through a signal, calls are
  linearizable, and nobody is left in a destroyed queue.
* `NeverPastTop`, `FastPwmDuty`, `DualSlopeDuty`: what the buffers are for.
* `MatchFlaggedInTime`, `Overflows`: flags neither late nor missing.
* `ArithmeticExact`, `ProductsExact`: results, and the flags branches and longer
  chains rely on, are those of 16-bit and 32-bit arithmetic.  ADIW's ZERO is not among them: it is taken from
  a sum of 32 bits, and 0xFFFF + 1 leaves it clear.  Nor are the fractional products, which keep four bits
  of each byte: no document says what they should be.
* `MemoryCopied`: bytes arrive where they were sent, through pointers that carry.
* `CallsReturn`, `EveryRoutineReturns`: control comes back with the stack and the
  saved registers as they were.
* `SkipsWhole`: CPSE, SBRC and SBRS skip one whole instruction or none; SBIC and SBIS, each before a CALL
  and before an INC, skip one whole instruction when their condition holds; `pc` is never inside an
  instruction.  SBIC and SBIS whose condition does not hold are finding 7.
* `ImplementsSession`: a packet sent twice is not a request made twice, nothing is
  carried out for a client that has not asked, or while the MCU runs, and no answer is
  taken for that of another request.
* `RequestsAnswered`: an accepted debugger gets its answer, unless one of the reasons
  that `Excused` names keeps it from it.
* `FlashRecoverable`: the lower byte of every word, and both bytes of a word no matchpoint
  has touched, are in the memory or saved in the matchpoint memory.  It is what the code
  achieves; that upper bytes get lost is a finding.
* `LoadsWhatWasSaved`: a file written at the end of a simulation is accepted by the next
  one and holds the program, whatever a killed process left before.
* `SentOnce`, `ReadOnce`: bytes between firmware and terminal; `lost` and `dropped` are
  exactly the places where the code gives a byte up.
* `CloseReturns`: the thread that `MSIM_PTY_Close` joins leaves its `read()`, because
  both ends are closed, unless a terminal program holds the line.
* `WaveformTrue`, `PinsFollow`: what a user of the dump sees, and when firmware can read
  back what it drives.
* `DecodingAgrees`: the three places that know an instruction's length and effect agree.
* `RequestsReadBack`, `RecordsGuarded`: conversions in two directions are inverses, and a
  damaged record is noticed.  Register 34, `pc`, is left out: see below.
* `TimersSound`: tables written by hand fit each other and the masks of the registers.
* `StartsAsConfigured`: one file decides, the clock is one that the comments allow its source (but for
  finding 14), and the boot section ends with the flash and has the size its fuse bits tell.  Where a reset leads
  is `ResetInFlash`, finding 13.

### Fairness

* `SimCore`: `WF(Loop)`.  One thread runs the loop and blocks nowhere but in the
  debugger's socket; the debugger's requests are under no fairness, so a stopped MCU may
  wait for ever.  `HighestServed` assumes, in the formula, that the firmware comes back again
  and again to a point where interrupts may be served.
* `TSQ`: `WF(Continue(t))` for each thread.  A thread that may take the mutex does so at
  last: the critical sections are finite.  No call has to be made, so a blocked
  thread may stay blocked for ever, unless the queue is destroyed.
* `Instructions`: `WF(Next)`, the loop executes one instruction after the other.
* `Timer`: `WF(Tick)`, the loop calls `update_timer` in every cycle of an active
  MCU.  No prescaler or firmware action is fair.  `Overflows` assumes in the
  formula that the firmware leaves the timer alone from some time on.
* `Rsp`: `WF(Progress)`, the simulator goes on with what is there for it, and a step of the MCU
  ends; `WF(Receive(c))`, a client reads what has been sent to it.  Nothing makes a
  client connect, ask or leave, a running program stop, a signal come or a call fail.
* `Usart`: weak fairness of the reader thread and of the steps of
  `MSIM_PTY_Close` behind its first.  Firmware and terminal program owe nothing.
* `ProgMem`, `Board`, `MCData`: only safety properties, no fairness.

## 4. Findings

Places where the code does not do what its comments, headers or structure say.  The first
eleven and the thirteenth are counterexamples of a run or a configuration, the twelfth an excuse that one
needs, the fourteenth a setting that one leaves out.

1. `MCSimCoreVolatile`, `avr_decoder.c:1117`.  SBIS and SBIC read the I/O bit in every cycle of a
   skip.  If the bit changes after the first cycle the instruction completes by
   the branch without `SKIP_CYCLES`, `mci` and `ic_left` stay set, the next
   instruction begins in the middle of its cycles, and a step ("Halt MCU after a
   single step performed") executes two.
2. `MCSimCoreRestart`, `avr_gdb.c:1163`.  A restart, or a new `pc`, after a BREAK leaves
   `read_from_mpm` set, and the first word at the new address comes from the
   matchpoint memory, where no instruction was saved.
3. `tsq_steal`, `msim_tsq.c:135`.  `pthread_cond_wait` is under an `if`.  With a second producer,
   the space a woken producer was promised may be gone, and it overwrites the
   oldest element.
4. `MCTimerPresc1`, `avr_timer.c:463`.  With the prescaler 1 a pending flag is never raised.
5. `MCTimerDirection`, `avr_timer.c:291`.  A timer taken out of a phase correct mode
   while it counts down keeps counting down.
6. `MCTimerDuty`, `avr_timer.c:329`.  A match next to BOTTOM or TOP does not act on the pin in one
   of the two directions.
7. `MCInstructionsPoll`, `avr_decoder.c:1101`.  SBIS and SBIC advance `pc` by two words also when their
   condition does not hold, and SBIC compares the whole register with its bit ("Skip if Bit in I/O Register is
   Set", "... Cleared"): of two opposite skips on one bit, both may pass over their instruction, and before an
   instruction of two words `pc` is left on its second word.
8. `MCUsartBaud`, `avr_m8a.c:200`.  UMSEL is tested where URSEL should be ("that URSEL (MSB bit)
   should be checked additionally to understand which register should be updated",
   `avr_m8a.c:147`): a UCSRC for asynchronous operation becomes the upper part of the baud rate, and
   the reset value 0x82 of the shared cell does so before the firmware has written anything.
9. `MCBoardInputs`, `avr_io.c:57`.  "The only bits which are configured to output will be
   updated", yet the whole pending byte is stored, with input bits a cycle old: what a model
   wrote to an input meanwhile is gone.
10. `MCRspHang`, `avr_gdb.c:246`.  "If there is no RSP client, poll the server socket until we get one":
    after a client has left while its report was awaited, the simulator polls the
    descriptor -1 and the next client is never accepted.
11. `MCProgMemExit`, `avr_simcore.c:971`.  "It can be loaded back instead of the regular AVR
    firmware": matchpoints still inserted at the end are saved as BREAKs, with the upper
    bytes of their words gone.
12. `MCRsp`, request `X`.  `get_packet` compares an `int8_t` with -1: a binary write that
    contains the byte 0xFF drops its client.  `RequestsAnswered` excuses it.
13. `data_reset`, `avr_m8a.c:597` and `avr_m328p.c:211`.  With BOOTRST programmed `reset_pc` and `pc` become
    `bls.start`, which counts bytes, although both count words (`avr_simcore.c:206` compares `pc` with
    `flashend>>1`).  The fuses of the test `usart-optiboot` (hfuse 0xCC) put the boot section at the word
    0x0F00, and its README says "reset vector address: 0x000F00" (line 39) and "bootloader
    section: 0x000F00-0x000FFF" (line 42); a reset leads to 0x1E00, in a flash of 0x1000 words.
14. `ClockAsCommented` of `MCData`, `avr_m8a.c:503`.  The external RC oscillator with CKSEL 7 is set to 8 MHz
    under the comment "max 4 MHz" (for `m8a` and a low fuse of 7; shown by `MCData.cfg` with this as its only invariant).
    `StartsAsConfigured` leaves this one setting out.

Met while modelling, and modelled as they are (the definitions named in `PROJECT.json`
show the lines):

* *Debugger.*  Unknown requests are acknowledged and get no answer.  `G` is parsed from the letter
  itself.  `P` takes `pc` most significant byte first, while `p` and `g` give it lowest byte first.
  A BREAK of the program itself is taken for a matchpoint.
* *Decoder and instructions.*  Handlers of single branches, single flags, 16-bit LDS and STS
  are never reached; `exec_brne` among them keeps bits of the opcode in the distance, `exec_brlt` and
  `exec_brge` do not use SIGN.  `exec_ld_z` without displacement takes one cycle, with it two.
  RETI pops the bytes of its return address in operands of one expression, in an order C leaves open; the
  model takes them from left to right.
* *Interrupts and start.*  A request latched into `irq` stays pending when the firmware disables
  it (`avr_simcore.c:659`).  `ivt` is 2 on the ATmega8A, whose vectors are one word
  apart (line 621).  `trap_at_isr` is stored before `setup_avr` overwrites the record, so the option
  has no effect.  A configuration refused half-way leaves `mcu`, `mcu_freq`, `vcd_file`,
  `rsp_port` and `trap_at_isr` in effect for the next file.  A high fuse alone sets 16 MHz
  on the ATmega8A whatever the clock source.
* *Timers.*  `update_wgm_buffers` stops at the first undefined mode of the table, so modes
  14 and 15 of timer 1 of the ATmega8A never have their buffer filled.  Mode 7 of that timer has TOP 0x01FF.
  The fast PWM rows of timer 2 of the ATmega328P are those of phase correct PWM.
* *USART.*  Transmission and reception are compiled only under `MSIM_POSIX_PTY`, while the
  build defines `WITH_POSIX_PTY`: in such a build UDRE never comes back.  UDR is one
  register in both directions, so a write takes the place of an unread byte.  The ninth bit
  received goes to TXB8, and half a frame of nine bits loses its byte.  No interrupt of the
  USART is raised.  TXC is stored as written.  The frame after a reset has six bits.  In the table of
  registers UBRRH and UCSRC are two entries at one address; the mask and reset value of the last one hold.
* *SPM.*  The countdown of an SPM that is done may clear a SPMEN that has been set again.
* *Pseudo-terminal.*  `main` closes it also for an MCU that has not opened one, and after a failed
  open it closes numbers that are no longer its descriptors.  A chunk for which the buffer has not
  enough room is dropped as a whole.
* *Dump and models.*  `old_val` begins with zero while `$dumpvars` prints the real values.
  `AVR_WriteIO16` checks the upper address only.  A model that writes PINx is overwritten by the pending
  value.  The timers read bit 0 of PORTB as their capture pin.  The ATmega8A has no list of ports, so its
  pins are never synchronized.
* *Signals.*  The handler saves the flash and returns: SIGTERM does not end the process.

## 5. Proofs

The theorems hold for every value of the constants that meets the assumptions of the
modules and of the theorem.

**`SimCoreProofs`** (`TypeCorrect`, `BoundaryCorrect`, `FetchCorrect`).  Assumed: sizes,
vectors and addresses are natural numbers, an instruction without `SKIP_CYCLES` has no cycles to
skip, the matchpoint memory holds zeroes and bytes.  `IInv` is `TypeOK`,
`InstructionBoundary` and `FetchInFlash`.  `TypeOK` alone is not inductive: the word
fetched is an instruction only because `CheckScope` came before, and `ic_left - 1`
stays in range only because `mci` and `ic_left` agree.  There is a lemma for each
phase, with a step for each action.  `VolatileIO` is left open: the three hold
even with volatile I/O bits.

Then the cycles (`CyclesExact`, `OneInstructionPerStep`, `TrapStopsFirst`, `MainRunsBetweenIsrs`).  Each property
is proved from an account, an invariant that ties the history to the variables of the
program: `CycleAccount` (cycles spent and left add up to the length of the
instruction), `StepAccount` (after the first instruction of a step the MCU is
halted or about to be), `TrapAccount`, `OwedAccount` (`exec_main` is still set when interrupts are
looked at).  The first two theorems assume `~VolatileIO`, and `MCSimCoreVolatile` shows that
they must.

**`FirmwareProofs`** (`ArithmeticCorrect`, `ProductsCorrect`, `MemoryCorrect`, `CallsCorrect`, `SkipsCorrect`).
The run takes words of five bytes, no flags or all of them, and one width of pc; the theorems take any two words, any SREG
and either width of pc.  `FirmwareSetup` says that the routines are linked behind their caller with the stack at
the end of SRAM, and that SREG and the masks of the two I/O registers are those of the device, as in the
run.  The proof is that of a program: `AddAt`, ..., `MulsAt` say what holds before every instruction of each of
the 25 routines, and `FirmwareInv` (`FirmwareRuns`) that the routine is at one of its instructions and the assertion there
holds, or that its caller waits with its stack as it was and the promise kept.  The promise alone is not inductive: it says nothing
of a routine that runs.  That `pc` is never on the second word of an instruction is what the assertions say of `pc`
(`AtInstruction`).

* *Arithmetic.*  `avr_decoder.c` computes its flags from single bits of operands and result; `AddCarries` and the lemmas beside it
  say that they are the carry, the borrow, the sign and the half carry of the numbers.  From these `AddRuns`, ...,
  `RetRuns` state what an instruction leaves to the next one as a number (`dm'[24] + 256 * Carry' = dm[24] +
  dm[22]`), or as a set of bits for the logical ones, and one lemma per routine puts two of them together to a
  word.  `ByteOf`, the byte of a set of bits, is written as a sum of eight, because what a fold computes cannot be proved
  here.
* *Products.*  `mul` adds the crossed products to a high byte and loses their carries (`AddedLow`, `LowSum`).  In `muls` the
  carry of MULSU is the sign of the product, and `SBC r19, r2` extends it: the 32-bit number in r19:r16
  is the sum of the products so far but for multiples of 2^32 (`Same32`, `AddingRuns`), and at the end its words are those of
  the signed product (`SignedHalves`).
* *Memory.*  `Holds` says which of the four bytes stand in which of three areas; an access through X, Y or Z with
  its increment or decrement is `PointerWritten`, whose pointer carries over from one byte to the other.  A write
  above the registers leaves the other cells (`Writes`), so the loops keep what they have copied.
* *Calls and skips.*  `Running` says that the address 0 of the caller is on the stack at `Floor`, and `CalledFrom` that
  another is below it; a push, a pop or a store below `Floor` leaves both (`FrameKept`, `CalledStays`).  `SkipRuns` takes
  the condition of CPSE, SBRC or SBRS and the length of the next instruction, `SbisSkips` an SBIS or SBIC whose
  condition holds; `PortClear` and `PortSet` are what the assertions of `skip` say of the bit.

**`TSQProofs`** (`QueueTypes`, `QueueBounded`, `WakeupsNotLost`, `RingIsFifo`).  `QueueTypes` is for any
threads, with or without spurious wake-ups.  The others are for one producer, one consumer, no spurious
wake-ups, any size.  `RingInv` adds what the code relies on when it does not test the condition again: a
thread that has been woken finds what it was woken for, because the other thread
can only add to it.  `tsq_steal` shows that one producer is necessary.  `RingIsFifo` is the
refinement: `CallInv` types the array and the elements of the callers, `Place` is a
position of the ring with its wrap (`Wrapped`), `PutAppends` and `GetTakesFirst` say that the two writes
to the array are `Append` and `Tail` on `Contents`, and `StepIsFifoStep` goes through the actions.

**`TimerProofs`** (`RegistersKeepWidth`, `CounterBelowTop`, `FlagsInTime`, `FastPwmExact`,
`DutyExactAwayFromEnds`, `DualSlopeExact`).  Any width, any table of modes,
any channels.  `TypeOK` is inductive.  `NeverPastTop` is not: what a count does depends on the
direction the mode before left behind, and buffers are also filled while the timer is
stopped; `Directed` says that a mode of one slope counts up and that a stopped timer has promised
nothing.  It needs `KeepsDirection`, that modes of two slopes are left only for such
modes, and `MCTimerDirection` shows why.  `FlagsInTime` is for one prescaler greater than one
(`MCTimerPresc1` shows why not one): `Waits` says that a pending match is younger than the cycle that
raises its flag.

The duty cycles need `PwmTables`: fast PWM updates its buffers at BOTTOM and no mode of two slopes works without
buffers, as in every table of `m8a.h` and `m328p.h`.  `FastInv` adds to `TopInv` that a counter of one slope
is not above TOP even when TOP is 0; then a count either is the one from TOP to 0, where the buffers change, or goes
one step up with the buffers as they are (`SingleSlopeCount`).  `DutyInv` follows the swing of two slopes: between
BOTTOM and the first TOP the counter is on its way up (`Rising`), later anywhere (`Swinging`), and the pin is
right from the first match on.  It does not need `KeepsDirection`, because at BOTTOM the direction is known.
`DutyExactAwayFromEnds` is the strongest statement that holds of the code: for matches more than two counts from
BOTTOM and TOP.  Nearer ones are those `trigger_oc_pin` skips or the direction hides, as `MCTimerDuty`
shows.  `DualSlopeExact` states `DualSlopeDuty` itself for a firmware that writes no others (`ClearOfEnds`,
met by the values of `MCTimer`) to a timer without input capture, since a capture may leave any value in ICR.

**`RspProofs`** (`RspImplementsSession`, `ServerKeepsRange`).  Any number of clients, requests, damaged packets,
failing calls and interrupts.  The refinement mapping is the identity on the history of the
clients; `Send` is `Ask`, `Handle` is `Serve`, a step of the MCU that ends is `Halt`, and `Receive` is
`Answer` when it makes the client idle.  That it may be so then is the hard part.  `LineInv` says that a request is
in one place only: on its way, refused, held by the server, carried out or acknowledged, so that
nothing is carried out twice.  `FreshInv` says that a packet behind the acknowledgement of a request
answers that request, and `AckInv` why one sent again does: it has the number of the last request, or its client
waits for nothing.  `WaitingInv` is what `client_waiting` promises between a resume and the report of the stop,
and `LinkInv` says that clients that are not served have nothing to read.  The lemmas about `LineInv` and `FreshInv` are
about sequences alone; then there is one lemma per action, or per group of actions that leave
what is on the line alone.

**`ProgMemProofs`** (`ProgramRecoverable`, `SavedFilesLoad`).  Any size of memory, page and record, any
firmware made of records, any number of operations; `SizesAssumption` says that the array has
room for a matchpoint and a page at the end of the flash.  `FlashRecoverable` says nothing of what a removal will read.
`MatchpointInv` adds, for a matchpoint that nothing got in the way of (`Kept`), that it stands alone in its
words, that its BREAK is in the program memory, and that the saved bytes tell the
same number of words as when it was inserted.  `FileInv` is about the file: what a save leaves is `ImageOf` of
the memory, whose records cover the flash once (`RecordsAssumption`), so that the checksum of each is that of the memory (`RecordOfImage`).

**`BoardProofs`** (`DumpTrue`, `PinsFollowDrivers`).  Any ports, registers, models and steps.  `WaveInv`
says at the other moments of a cycle that `old_val` is what a reader has been told, or zero
if it has been told nothing; `PinInv` that the pending value has the outputs of the last
synchronization.

**`UsartProofs`** (`EveryByteOnce`, `EveryFrameOnce`).  Any buffer, any chunks of `read()`, any settings the
firmware makes, any rates, with or without a terminal program.  Assumed: settings are bytes, weights and limits natural
numbers (`UsartAssumption`), and fewer than 32 bytes are typed (`FramesAssumption`), so that a
frame of five bits still tells which one it was.  `PathTypes` says where bytes can be, and `ReadOnce` with it is inductive: the tick is followed
function by function, `InOrder` says that a step of the receiver moves bytes along the way, drops some to
`lost` and keeps the order of the rest, and `TakeOut` that this is all that `ReadOnce` asks.  `SentInv` strengthens `SentOnce`
with what the transmitter owes: the byte in `txb`, or in UDR until the next tick.  Neither speaks of clocks:
whichever tick a byte moves in, it moves once.

**Only model-checked.**  Liveness under fairness is not within the prover's reach: `StopTerminates`,
`HighestServed`, `DestroyFreesAll`, `Overflows`, `EveryRoutineReturns`, `RequestsAnswered`, `CloseReturns`.
Conversions and tables (`data`) are checked on inputs that are
enumerated; what a recursive function computes for all inputs would need induction over data.  No module has a recursive
operator.

`tlapm SimCoreProofs.tla` and so on check the proofs.

## 6. Not modelled

* SLEEP and DES have no handler.  EICALL and EIJMP are an illegal instruction in `SimCore` and
  nothing else.
* Formatting and wording: the log, the header of a dump, the texts of `qSupported` and other
  queries, the printed configuration.
* The watchdog, which is a stub, and the 2560, which is not built.
* XSPICE: glue to an external program that calls `MSIM_AVR_SimStep` in
  firmware-test mode, which is one of `Modes` of `SimCore`.
* Lua itself and the scripts, which are not part of the program: a model may call any
  function of the API at any tick.
* The lock bits, which are stored and read by nothing; the options of the command line; the
  vendored `getopt`.
* The external clock of the timers, whose selections have no code.
* The public headers that firmware includes (`avr/io*.h`, `pgmspace.h`, `power.h`): names
  for the registers in `Registers`, with no state.

## 7. Plan

1. **Instructions**: the cycles of every instruction as the `cyc` of `SimCore`.
2. **Composition**: `SimCore` with the memory of `ProgMem` instead of `DebugImages`, so that a step over
   a matchpoint that has been removed in a stopped MCU is one behaviour.
3. **SPM countdown** of `avr_m8a.c` together with `exec_spm`, in cycles.
4. **Shutdown**: the order in which `main` closes terminal, dump, debugger and models, with
   a signal between any two of them.
