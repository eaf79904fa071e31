------------------------------- MODULE ProgMem --------------------------------
(***************************************************************************)
(* The program memory and who writes to it: the file it is loaded from,    *)
(* the debugger with matchpoints and memory writes (avr_gdb.c), the        *)
(* firmware with SPM (avr_decoder.c), and the file it is saved to when the *)
(* simulation ends or a signal arrives (avr_simcore.c, msim_main.c).       *)
(*                                                                         *)
(* The memory is an array of 16-bit words.  Loading, saving and the        *)
(* debugger's reads and writes take a byte address and divide it by two;   *)
(* matchpoints and SPM use the byte address as an index, and a matchpoint  *)
(* stores bytes into words: two words, or four for an instruction that     *)
(* looks like one of two words, lose their upper byte.                     *)
(*                                                                         *)
(* view is the memory as it would be without matchpoints.                  *)
(***************************************************************************)
EXTENDS ProgWords, Sequences, FiniteSets

CONSTANTS
  PmSize,       \* words of the array (MSIM_AVR_PMSZ)
  flashend,     \* last byte address of the flash
  PageBytes,    \* spm_pagesize
  RecordWords,  \* words of a record of a saved file
  Firmwares,    \* firmware files: sequences of records [address, data]
  Payloads,     \* what a debugger writes: sequences of words
  Fills,        \* words the firmware programs
  MaxOps        \* writes to the memory, saves and starts of a behaviour

VARIABLES
  pm, mpm,      \* program memory, match points memory
  pmp,          \* page buffer of SPM
  file,         \* records of FLASH_FILE, or NoFile
  up,           \* the process: "running", "exited" (by itself) or "killed"
  bps,          \* matchpoints inserted, with the words each was put into
  view,
  torn,         \* words whose upper byte a matchpoint took away
  lost,         \* words for which matchpoints and writes got in each other's way
  ops

flash == <<pm, mpm, pmp, file, up, bps, view, torn, lost>>
pmVars == <<flash, ops>>

Index  == 0..(PmSize - 1)
Words  == 0..((flashend + 1) \div 2 - 1)      \* of the flash
PageWords == PageBytes \div 2
Word == 0..65535

ASSUME SizesAssumption ==
  /\ PmSize \in Nat /\ flashend \in Nat /\ PageBytes \in Nat /\ RecordWords \in Nat \ {0}
  /\ PmSize > flashend + 4 /\ PmSize > flashend + PageBytes
  /\ MaxOps \in Nat
  /\ Fills \subseteq Word /\ Payloads \subseteq Seq(Word)
  /\ Firmwares \subseteq Seq([address : Nat, data : Seq(Word)])
  /\ \A p \in Payloads : flashend + Len(p) < PmSize

\* No saved file has a record without data.
NoFile == <<[address |-> 0, data |-> <<>>]>>
Zeroed == [i \in Index |-> 0]

-----------------------------------------------------------------------------
(* Files. *)

\* MSIM_AVR_SaveProgMem: the records of the flash; the last one may reach over its
\* end.  The record that ends the file has no data, and load_mem16 looks for none.
\* Mutant: words behind the last full record are not saved.
RecordsFull == Cardinality(Words) \div RecordWords
Records == (Cardinality(Words) + RecordWords - 1) \div RecordWords
ASSUME RecordsAssumption == RecordWords * Records <= PmSize
ImageOf(m) ==
  [r \in 1..Records |->
     [address |-> 2 * RecordWords * (r - 1),
      data |-> [j \in 1..RecordWords |-> m[RecordWords * (r - 1) + (j - 1)]]]]

Covers(r, i) == i - (r.address \div 2) \in 0..(Len(r.data) - 1)
DataAt(r, i) == r.data[i - (r.address \div 2) + 1]

\* load_mem16: a later record overwrites an earlier one, and then the bytes in the
\* memory of every record must have its checksum, or the file is refused.  A record
\* that cannot be read ends the file: f has the records in front of it.
LoadedWord(f, i) ==
  LET rs == {n \in 1..Len(f) : Covers(f[n], i)}
  IN  IF rs = {} THEN 0 ELSE DataAt(f[CHOOSE n \in rs : \A k \in rs : k <= n], i)
Loaded(f) == [i \in Index |-> LoadedWord(f, i)]
InMemory(f, r) == [j \in 1..Len(r.data) |-> LoadedWord(f, (r.address \div 2) + (j - 1))]
Checksum(s) ==
  LET sum[n \in 0..Len(s)] ==
        IF n = 0 THEN 0 ELSE (sum[n - 1] + Lo(s[n]) + (s[n] \div 256)) % 256
  IN  sum[Len(s)]
Verified(f) == \A n \in 1..Len(f) : Checksum(InMemory(f, f[n])) = Checksum(f[n].data)

-----------------------------------------------------------------------------
(* The start: MSIM_AVR_Init and setup_avr. *)

\* reset_flash prefers the firmware file, otherwise the saved one is taken if it is
\* there.  A file of which only a part was written is loaded without a complaint.
Chosen(reset_flash, firmware) ==
  IF reset_flash \/ file = NoFile THEN firmware ELSE file

Started(f) ==
  /\ pm' = Loaded(f) /\ view' = Loaded(f)
  /\ mpm' = Zeroed /\ pmp' = Zeroed
  /\ bps' = {} /\ torn' = {} /\ lost' = {}

Init ==
  /\ file = NoFile
  /\ \E f \in Firmwares : Verified(f) /\ pm = Loaded(f) /\ view = Loaded(f)
  /\ mpm = Zeroed /\ pmp = Zeroed
  /\ up = "running" /\ bps = {} /\ torn = {} /\ lost = {} /\ ops = 0

Count == ops < MaxOps /\ ops' = ops + 1

Start(reset_flash, firmware) ==
  /\ up # "running" /\ Count
  /\ UNCHANGED file
  /\ LET f == Chosen(reset_flash, firmware) IN
       IF Verified(f) THEN up' = "running" /\ Started(f)
       ELSE UNCHANGED <<pm, mpm, pmp, up, bps, view, torn, lost>>

-----------------------------------------------------------------------------
(* Matchpoints. *)

Inst(m, a) == Lo(m[a]) + (256 * Lo(m[a + 1]))
Span(a, inst) == IF Is32(inst) THEN a..(a + 3) ELSE a..(a + 1)

Covered(w) == \E b \in bps : w \in b.words

\* Words to give up when words ws are written: a matchpoint in the way, as a whole.
InTheWay(ws) == UNION {b.words : b \in {c \in bps : c.words \cap ws # {}}}

\* Mutant: the second word of an instruction is not saved.
SavedFirstOnly(m, a, ws) ==
  [i \in Index |-> IF i \in ws THEN IF i <= a + 1 THEN Lo(pm[i]) ELSE 0 ELSE m[i]]
Saved(m, a, ws) == [i \in Index |-> IF i \in ws THEN Lo(pm[i]) ELSE m[i]]

\* rsp_insert_matchpoint.  Inserted once more it stays as it is, unless a write has
\* taken its BREAK away.  A BREAK of the program itself is taken for a matchpoint
\* inserted before; nothing is saved, and its removal loses it.
InsertMatchpoint(a) ==
  /\ LET inst == Inst(pm, a)
         ws   == Span(a, inst)
     IN
     \/ /\ inst = BREAK /\ \E b \in bps : b.at = a
        /\ UNCHANGED <<pm, mpm, bps, torn, lost>>
     \/ /\ inst = BREAK /\ \A b \in bps : b.at # a
        /\ bps' = bps \cup {[at |-> a, words |-> a..(a + 1)]}
        /\ lost' = lost \cup a..(a + 3) \cup InTheWay(a..(a + 3))
        /\ UNCHANGED <<pm, mpm, torn>>
     \/ /\ inst # BREAK
        /\ pm' = [i \in Index |-> IF i = a THEN BREAK_LOW
                                  ELSE IF i = a + 1 THEN BREAK_HIGH
                                  ELSE IF i \in ws THEN 0 ELSE pm[i]]
        /\ mpm' = Saved(mpm, a, ws)
        /\ bps' = bps \cup {[at |-> a, words |-> ws]}
        /\ torn' = torn \cup ws
        /\ lost' = IF InTheWay(ws) = {} /\ ws \cap lost = {} THEN lost
                   ELSE lost \cup ws \cup InTheWay(ws)
  /\ UNCHANGED <<pmp, file, up, view>>

\* rsp_remove_matchpoint: how many words come back is read off the saved ones.
RemoveMatchpoint(b) ==
  /\ b \in bps /\ bps' = bps \ {b}
  /\ LET ws == Span(b.at, Inst(mpm, b.at)) IN
     IF Inst(pm, b.at) = BREAK
     THEN /\ pm' = [i \in Index |-> IF i \in ws THEN Lo(mpm[i]) ELSE pm[i]]
          /\ torn' = torn \cup ws
          /\ lost' = IF b.words \cap lost = {} THEN lost
                     ELSE lost \cup ws \cup UNION {c.words : c \in {d \in bps : d.words \cap ws # {}}}
     ELSE UNCHANGED <<pm, torn, lost>>
  /\ UNCHANGED <<mpm, pmp, file, up, view>>

-----------------------------------------------------------------------------
(* Writes. *)

\* Words from index i on become s, for a debugger and for the memory alike; what is
\* written over a matchpoint is lost with it.
Overwrite(i, s) ==
  LET ws == i..(i + Len(s) - 1)
      put(m) == [k \in Index |-> IF k \in ws THEN s[k - i + 1] ELSE m[k]]
  IN  /\ pm' = put(pm) /\ view' = put(view)
      /\ torn' = torn \ (ws \ InTheWay(ws))
      /\ lost' = (lost \ ws) \cup InTheWay(ws)

\* rsp_write_mem and rsp_write_mem_bin, of whole words.
WriteMem(addr, s) ==
  /\ addr < flashend
  /\ Overwrite(addr \div 2, s)
  /\ UNCHANGED <<mpm, pmp, file, up, bps>>

\* exec_spm: erase, fill, write.  Z is an address in bytes.
Erase(z) ==
  /\ Overwrite(z, [i \in 1..PageWords |-> 65535])
  /\ UNCHANGED <<mpm, pmp, file, up, bps>>

Fill(z, v) ==
  /\ pmp' = [pmp EXCEPT ![z] = v]
  /\ UNCHANGED <<pm, mpm, file, up, bps, view, torn, lost>>

WritePage(z) ==
  /\ Overwrite(z, [i \in 1..PageWords |-> pmp[z + (i - 1)]])
  /\ UNCHANGED <<mpm, pmp, file, up, bps>>

-----------------------------------------------------------------------------
(* The end. *)

Save == file' = ImageOf(pm)

\* main saves the memory behind the simulation, dump_flash_handler at any time; its
\* signals do not end the process, for the handler returns.
Exit ==
  /\ Save /\ up' = "exited"
  /\ UNCHANGED <<pm, mpm, pmp, bps, view, torn, lost>>
Signal ==
  /\ Save
  /\ UNCHANGED <<pm, mpm, pmp, up, bps, view, torn, lost>>

\* The process is killed, while it saves or not.  fopen has emptied the file then,
\* and a record written in part cannot be read.
Kill ==
  /\ up' = "killed"
  /\ \/ UNCHANGED file
     \/ \E n \in 0..Records : file' = SubSeq(ImageOf(pm), 1, n)
  /\ UNCHANGED <<pm, mpm, pmp, bps, view, torn, lost>>

Addresses == {a \in 0..(flashend - 1) : a % 2 = 0}     \* of instructions, and in Z

FlashStep ==
  \/ \E a \in Addresses : InsertMatchpoint(a) \/ Erase(a) \/ WritePage(a)
  \/ \E b \in bps : RemoveMatchpoint(b)
  \/ \E a \in Addresses, s \in Payloads : WriteMem(a, s)
  \/ \E a \in Addresses, v \in Fills : Fill(a, v)
  \/ Exit \/ Signal \/ Kill

Next ==
  \/ up = "running" /\ Count /\ FlashStep
  \/ \E reset_flash \in BOOLEAN, f \in Firmwares : Start(reset_flash, f)

Spec == Init /\ [][Next]_pmVars

-----------------------------------------------------------------------------
(* Properties. *)

TypeOK ==
  /\ pm \in [Index -> Word] /\ mpm \in [Index -> 0..255] /\ pmp \in [Index -> Word]
  /\ view \in [Index -> Word]
  /\ up \in {"running", "exited", "killed"}
  /\ bps \subseteq [at : Addresses, words : SUBSET Index]
  /\ torn \subseteq Index /\ lost \subseteq Index
  /\ ops \in 0..MaxOps

\* However matchpoints come and go between writes of the debugger and of the
\* firmware: the lower byte of every word is in the memory, or saved while a
\* matchpoint is in its place, and a word no matchpoint has touched is whole.
FlashRecoverable ==
  \A w \in Index \ lost :
    /\ Lo(IF Covered(w) THEN mpm[w] ELSE pm[w]) = Lo(view[w])
    /\ w \notin torn => pm[w] = view[w]

\* What a simulation without matchpoints saves when it ends is what the next one
\* loads, whatever happened to an earlier file.
LoadsWhatWasSaved ==
  up = "exited" =>
    /\ Verified(file)
    /\ bps = {} => \A w \in Words \ (torn \cup lost) : LoadedWord(file, w) = view[w]

\* "It can be loaded back instead of the regular AVR firmware" (avr_simcore.c:971):
\* the program that comes back is the one that was simulated.
ProgramComesBack ==
  up = "exited" => \A w \in Words : LoadedWord(file, w) = view[w]
=============================================================================
