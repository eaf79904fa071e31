--------------------------------- MODULE IHex ---------------------------------
(***************************************************************************)
(* Records of Intel HEX files (msim_ihex.c).  A line is a sequence of      *)
(* characters: the hexadecimal digits are the numbers 0 to 15.             *)
(***************************************************************************)
EXTENDS Integers, Sequences

StartCode == 16     \* ':'
EndOfLine == 17     \* "\r\n"; fgets keeps it, and the reader cuts it off

OkOf(r) == [ok |-> TRUE, record |-> r]
Refused == [ok |-> FALSE]

Sum(s) ==
  LET upTo[n \in 0..Len(s)] == IF n = 0 THEN 0 ELSE upTo[n - 1] + s[n] IN upTo[Len(s)]

\* MSIM_IHEX_CalcChecksum
\* Mutant: the upper byte of the address is left out.
ChecksumLowAddress(r) == (256 - ((Len(r.data) + r.type + (r.address % 256) + Sum(r.data)) % 256)) % 256
Checksum(r) ==
  LET sum == Len(r.data) + r.type + r.address + (r.address \div 256) + Sum(r.data)
  IN  (256 - (sum % 256)) % 256

NumberOf(d) ==
  LET upTo[n \in 0..Len(d)] == IF n = 0 THEN 0 ELSE (16 * upTo[n - 1]) + d[n] IN upTo[Len(d)]
Two(b)  == <<b \div 16, b % 16>>
Four(a) == Two(a \div 256) \o Two(a % 256)
DataDigits(s) == [i \in 1..(2 * Len(s)) |-> Two(s[(i + 1) \div 2])[IF i % 2 = 1 THEN 1 ELSE 2]]

\* MSIM_IHEX_NewRec and MSIM_IHEX_WriteRec
WriteRec(r) ==
  <<StartCode>> \o Two(Len(r.data)) \o Four(r.address) \o Two(r.type) \o DataDigits(r.data)
  \o Two(Checksum(r)) \o <<EndOfLine>>

Cut(line) ==
  LET ends == {i \in 1..Len(line) : line[i] = EndOfLine}
  IN  IF ends = {} THEN line ELSE SubSeq(line, 1, (CHOOSE i \in ends : \A j \in ends : i <= j) - 1)

\* MSIM_IHEX_ReadRec: count, address, type, data and checksum begin at 2, 4, 8, 10 and
\* behind the data.
Fields(b) ==
  LET count == NumberOf(SubSeq(b, 2, 3)) IN
  [address |-> NumberOf(SubSeq(b, 4, 7)), type |-> NumberOf(SubSeq(b, 8, 9)),
   data |-> [i \in 1..count |-> NumberOf(SubSeq(b, 8 + (2 * i), 9 + (2 * i)))]]
ReadRec(line) ==
  LET b == Cut(line) IN
  IF Len(b) < 9 THEN Refused
  ELSE IF b[1] # StartCode THEN Refused
  ELSE LET count == NumberOf(SubSeq(b, 2, 3)) IN
       IF Len(b) < 11 + (2 * count) THEN Refused
       ELSE IF NumberOf(SubSeq(b, 10 + (2 * count), 11 + (2 * count))) # Checksum(Fields(b))
       THEN Refused
       ELSE OkOf(Fields(b))

-----------------------------------------------------------------------------
\* A saved record is read as it was written; a file that ends in the middle of one, as
\* after a crash, or in which one digit behind the count is another one, is noticed.
RecordGuarded(r) ==
  LET line == WriteRec(r) IN
  /\ ReadRec(line) = OkOf(r)
  /\ \A n \in 0..(Len(line) - 2) : ReadRec(SubSeq(line, 1, n)) = Refused
  /\ \A i \in 4..(Len(line) - 1), d \in 0..15 :
       line[i] # d => ReadRec([line EXCEPT ![i] = d]) = Refused
=============================================================================
