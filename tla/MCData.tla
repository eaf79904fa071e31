------------------------------- MODULE MCData ---------------------------------
(***************************************************************************)
(* The conversions and tables of the code, each on inputs that TLC takes   *)
(* one by one: words of the program memory, requests of a debugger,        *)
(* records of a memory file, the timers of the devices, configurations.    *)
(***************************************************************************)
EXTENDS Integers, Sequences, FiniteSets

Words  == INSTANCE Decoder
Packet == INSTANCE RspFormats WITH SPL <- 93, SPH <- 94, SREGADDR <- 95, flashend <- 15,
                                   ramend <- 97, GDB_BUF_MAX <- 16
File   == INSTANCE IHex
Device == INSTANCE Devices
Start  == INSTANCE Startup

VARIABLES sort, input
vars == <<sort, input>>

Init == sort = "none" /\ input = <<>>

Free == sort = "none"
Take(s, i) == sort' = s /\ input' = i

TakeWord == Free /\ \E w \in Words!Words16 : Take("word", <<w>>)

Nibbles == {0, 1, 8, 15}
Bytes   == {0, 29, 35, 93, 125, 128}     \* with '#', '}' and what these are escaped to
Sequences(S, n) == UNION {[1..k -> S] : k \in 0..n}
TakeRegister == Free /\ \E n \in {0, 1, 31, 32, 33}, d \in [1..4 -> Nibbles] : Take("register", <<n, d>>)
TakeMemory   == Free /\ \E addr \in {0, 6, Packet!Data, Packet!Data + 31, Packet!Data + 97},
                           s \in Sequences(Bytes, 2) : Take("memory", <<addr, s>>)

TakeRecord == Free /\ \E a \in {0, 16, 256, 40975}, t \in {0, 1}, s \in Sequences({0, 1, 171, 255}, 2) :
                Take("record", <<[address |-> a, type |-> t, data |-> s]>>)

DeviceOf(name) == IF name = "m8a" THEN Device!M8A ELSE Device!M328P
TakeTimer == Free /\ \E name \in {"m8a", "m328p"}, t \in 1..3 : Take("timer", <<name, t>>)

\* Files of up to two lines, the first two of which may be refused half-way.
Options == {<<"mcu_lfuse", 1>>, <<"mcu_hfuse", 2>>, <<"lua_model", 3>>, <<"reset_flash", Start!Bad>>,
            <<"mcu_efuse", Start!Bad>>, <<"unknown", 4>>}
SomeFiles == {Start!Missing} \cup {<<l>> : l \in Options} \cup (Options \X Options)
TakeFiles == Free /\ \E f, g \in SomeFiles, h \in {Start!Missing, <<<<"lua_model", 5>>>>} :
               Take("files", <<f, g, h>>)

\* A fuse byte that matters: clock selection, boot section and reset vector, CKOPT; and
\* the fuses of the test usart-optiboot.
FuseBytes == [mcu_lfuse : 0..15] \cup [mcu_hfuse : {v + k : v \in 0..7, k \in {0, 16}}]
             \cup [mcu_lfuse : 0..15, mcu_hfuse : {v + k : v \in 0..7, k \in {0, 16}}]
             \cup {[mcu_lfuse |-> \hEF, mcu_hfuse |-> \hCC]}
TakeFuses == Free /\ \E name \in {"m8a", "m328p"}, f \in FuseBytes, freq \in {0, 32000, 9000000} :
               Take("fuses", <<name, f, freq>>)

Next == TakeWord \/ TakeRegister \/ TakeMemory \/ TakeRecord \/ TakeTimer \/ TakeFiles \/ TakeFuses
Spec == Init /\ [][Next]_vars

\* Decoder: the length and the effect of an instruction are told in two places of the code.
DecodingAgrees == sort = "word" => Words!DecodingAgrees(input[1])

\* RspFormats: what a debugger writes is what it reads.
RequestsReadBack ==
  /\ sort = "register" => Packet!RegisterReadsBack(input[1], input[2])
  /\ sort = "memory" => Packet!MemoryReadsBack(input[1], input[2])

\* IHex: a record is read as it was written, and one that was damaged is refused.
RecordsGuarded == sort = "record" => File!RecordGuarded(input[1])

\* Devices: the tables of a timer fit each other and the masks of the registers.
TimersSound ==
  sort = "timer" =>
    LET d == DeviceOf(input[1])
        t == d.timers[input[2]]
    IN  /\ Device!NothingShared(d) /\ Device!ModesFit(t)
        /\ \A bs \in Device!WrittenBits(t) \cup Device!FirmwareBits(t), v \in {0, 1, 2, 165, 65535} :
             Device!BitsReadBack(d, bs, v)

OrigOf(name) == IF name = "m8a" THEN Start!OrigM8A ELSE Start!OrigM328P

\* Startup: one file is in use, and its fuses make a clock and a boot section that fit.
StartsAsConfigured ==
  /\ sort = "files" => Start!OneFileInUse(input)
  /\ sort = "fuses" => Start!FusesFit(OrigOf(input[1]), input[2], input[3])

\* Startup: a reset leads into the flash, to its first word or to that of the boot section.
ResetInFlash == sort = "fuses" => Start!ResetInFlash(OrigOf(input[1]), input[2])

\* Startup: no fuses give a clock faster than the comments beside the assignments say.
ClockAsCommented == sort = "fuses" => Start!ClockAsCommented(OrigOf(input[1]), input[2], input[3])
=============================================================================
