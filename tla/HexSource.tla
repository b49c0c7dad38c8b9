----------------------------- MODULE HexSource -----------------------------
(***************************************************************************)
(* The hex data source as the bootloader sees it: open_source and          *)
(* read_record of hexreader.c over SDCARD_Initialize, SDCARD_OpenFile,     *)
(* SDCARD_ReadLine and SDCARD_Dispose of sdcard.c, with the state of the   *)
(* Petit FatFs object that they share.                                     *)
(*                                                                         *)
(* A file is a sequence of lines.  A line is one hex record, already       *)
(* parsed, or "JUNK": a line that does not begin with a colon.  The card   *)
(* may be absent, platform.hex may be missing, and any transfer may fail;  *)
(* the history variable fault remembers that one of these has happened     *)
(* since power came on.                                                    *)
(***************************************************************************)
EXTENDS Integers, Sequences, Bytes

CONSTANTS
  Files,            \* the contents platform.hex may have
  HighUnit,         \* weight of an extended linear address      (0x10000)
  HighCount         \* values of it that a 24-bit address keeps      (256)

RecordTypes == {"DATA", "EOF", "ELA", "OTHER"}

LineTypes == RecordTypes \cup {"JUNK"}

Lines == [type : LineTypes, off : Nat, hi : Nat, data : Seq(Byte)]

ASSUME SourceAssumption ==
  /\ HighUnit \in Nat \ {0}
  /\ HighCount \in Nat \ {0}
  /\ \A f \in Files : f \in Seq(Lines)

VARIABLES
  file,             \* the content of platform.hex on the card
  sspen,            \* SSPCON1.SSPEN: the SPI port is on
  mounted,          \* FatFs is set
  opened,           \* FA_OPENED is set in fileSystem.flag
  named,            \* currentFile holds "platform.hex"
  pos,              \* the line the file pointer is at
  high,             \* currentHighAddress
  rec,              \* the caller's currentRecord
  fault             \* history: the card or a transfer has failed

sourceVars == <<file, sspen, mounted, opened, named, pos, high, rec, fault>>

Records == [type : RecordTypes, addr : Nat, data : Seq(Byte)]

SourceTypeOK ==
  /\ file \in Files
  /\ sspen \in BOOLEAN
  /\ mounted \in BOOLEAN
  /\ opened \in BOOLEAN
  /\ named \in BOOLEAN
  /\ pos \in Nat \ {0}
  /\ high \in Nat
  /\ rec \in Records
  /\ fault \in BOOLEAN

(* A record variable before the first read_record into it: its type is     *)
(* whatever the stack holds.  The other fields are written before any use. *)
Unread(t) == [type |-> t, addr |-> 0, data |-> <<>>]

-----------------------------------------------------------------------------
(* parse_hex_line.  Only a line with a colon sets the record's type; the   *)
(* others leave the type of the previous record, with no data, at the      *)
(* current high address.  An extended linear address record moves the      *)
(* high address; of its two bytes only the lower fits in 24 bits.          *)
HighAddress(line) == (line.hi % HighCount) * HighUnit

ParsedAnyType(line, old) ==        \* mutant: no test for the colon
  [type |-> line.type, addr |-> high + line.off, data |-> line.data]

Parsed(line, old) ==
  IF line.type = "JUNK"
    THEN [type |-> old.type, addr |-> high, data |-> <<>>]
    ELSE [type |-> line.type, addr |-> high + line.off, data |-> line.data]

HighAfter(line) == IF line.type = "ELA" THEN HighAddress(line) ELSE high

EndOfFile(old) == [old EXCEPT !.type = "EOF"]

(* SDCARD_Initialize: the volume is mounted; or disk_initialize fails,     *)
(* which turns the port off, and pf_mount is not called, so that FatFs     *)
(* stays as it was; or pf_mount fails, having cleared FatFs.               *)
SdcardInitialize ==
  /\ named' = FALSE
  /\ \/ /\ sspen' = TRUE /\ mounted' = TRUE /\ opened' = FALSE
        /\ UNCHANGED fault
     \/ /\ fault' = TRUE /\ sspen' = FALSE
        /\ UNCHANGED <<mounted, opened>>
     \/ /\ fault' = TRUE /\ sspen' \in BOOLEAN /\ mounted' = FALSE
        /\ UNCHANGED opened
  /\ UNCHANGED <<file, pos, high, rec>>

(* open_source: the second open of the same name only rewinds the file,    *)
(* and rewinding a file that is not open does nothing.                     *)
Rewind ==
  /\ named
  /\ pos' = IF mounted /\ opened THEN 1 ELSE pos
  /\ UNCHANGED <<opened, named, fault>>

OpenByName ==
  /\ ~named
  /\ named' = TRUE
  /\ \/ ~mounted /\ UNCHANGED <<opened, pos, fault>>
     \/ mounted /\ sspen /\ opened' = TRUE /\ pos' = 1 /\ UNCHANGED fault
     \/ mounted /\ opened' = FALSE /\ fault' = TRUE /\ UNCHANGED pos

OpenSourceHighKept ==              \* mutant: currentHighAddress is kept
  /\ Rewind \/ OpenByName
  /\ UNCHANGED <<file, sspen, mounted, high>>

OpenSource ==
  /\ high' = 0
  /\ Rewind \/ OpenByName
  /\ UNCHANGED <<file, sspen, mounted>>

(* pf_open with a FatFs that is set though the port is off: it closes the  *)
(* file, and the first byte that dir_find asks for never comes (xchg_spi). *)
(* The caller does not get control back.                                   *)
OpenHangs ==
  /\ ~named /\ mounted /\ ~sspen
  /\ named' = TRUE
  /\ opened' = FALSE
  /\ high' = 0
  /\ UNCHANGED <<file, sspen, mounted, pos, fault>>

(* read_record into a record that holds old: the end of the file, a file   *)
(* that is not open and a failed transfer all give the same answer, and a  *)
(* failed transfer also closes the file (pf_read clears the flag).  A file *)
(* that is open was opened through a port that is on.                      *)
CanRead == mounted /\ opened /\ pos <= Len(file)

ReadNothing(old) ==
  /\ ~CanRead
  /\ rec' = EndOfFile(old)
  /\ UNCHANGED <<opened, pos, high, fault>>

ReadFails(old) ==
  /\ CanRead
  /\ rec' = EndOfFile(old)
  /\ opened' = FALSE
  /\ fault' = TRUE
  /\ UNCHANGED <<pos, high>>

ReadLine(old) ==
  /\ CanRead
  /\ rec' = Parsed(file[pos], old)
  /\ high' = HighAfter(file[pos])
  /\ pos' = pos + 1
  /\ UNCHANGED <<opened, fault>>

ReadRecord(old) ==
  /\ ReadNothing(old) \/ ReadFails(old) \/ ReadLine(old)
  /\ UNCHANGED <<file, sspen, mounted, named>>

SdcardDispose ==
  /\ mounted' = FALSE
  /\ UNCHANGED <<file, sspen, opened, named, pos, high, rec, fault>>

(* Power is lost, and the card may be back with another file on it.  The   *)
(* port is off.  The start-up code (c018i.o) does not clear RAM: FatFs and *)
(* the flag hold anything, or what they held before.  The variables that   *)
(* get a value here are written before they are read.                      *)
SourceReset ==
  /\ file' \in Files
  /\ sspen' = FALSE
  /\ mounted' \in BOOLEAN
  /\ opened' \in BOOLEAN
  /\ named' = FALSE
  /\ pos' = 1
  /\ high' = 0
  /\ rec' = Unread("DATA")
  /\ fault' = FALSE

(* The source on its own, used in any order but that a record is read only *)
(* after an open.                                                          *)
SourceInit ==
  /\ file \in Files
  /\ sspen = FALSE
  /\ mounted \in BOOLEAN
  /\ opened \in BOOLEAN
  /\ named = FALSE
  /\ pos = 1
  /\ high = 0
  /\ rec = Unread("DATA")
  /\ fault = FALSE

SourceNext ==
  \/ SdcardInitialize
  \/ (OpenSource \/ OpenHangs) /\ UNCHANGED rec
  \/ named /\ ReadRecord(rec)
  \/ SdcardDispose

SourceSpec == SourceInit /\ [][SourceNext]_sourceVars

-----------------------------------------------------------------------------
(* What a file says, however it is read: the address of line i is its      *)
(* offset above the extended linear address in force there, as far as 24   *)
(* bits hold it - what stands beyond them is lost here as it is in the     *)
(* program, and Bootldr's WellFormed asks for files without it - and the   *)
(* lines from the first end-of-file record on say nothing.                 *)
IsLatestEla(f, i, j) ==
  /\ j \in 1 .. i - 1
  /\ f[j].type = "ELA"
  /\ \A k \in j + 1 .. i - 1 : f[k].type # "ELA"

HighAt(f, i) ==
  IF \E j \in 1 .. i - 1 : IsLatestEla(f, i, j)
    THEN HighAddress(f[CHOOSE j \in 1 .. i - 1 : IsLatestEla(f, i, j)])
    ELSE 0

AddrOf(f, i) == HighAt(f, i) + f[i].off

EndOf(f, i) == AddrOf(f, i) + Len(f[i].data)

DataLines(f) ==
  {i \in 1 .. Len(f) : /\ f[i].type = "DATA"
                       /\ \A j \in 1 .. i : f[j].type # "EOF"}

(* The records of the file are in the order of their addresses and do not  *)
(* overlap: what compilers and linkers write.                              *)
Ascending(f) ==
  \A i, j \in DataLines(f) : i < j => EndOf(f, i) <= AddrOf(f, j)
=============================================================================
