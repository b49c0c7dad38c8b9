------------------------------ MODULE SdReader ------------------------------
(***************************************************************************)
(* The hex data source byte by byte: read_record and open_source of        *)
(* hexreader.c with SDCARD_ReadLine's loop over pf_read and the line       *)
(* buffer it fills.  It is shown to implement HexSource, which reads a     *)
(* line in one step.                                                       *)
(*                                                                         *)
(* The card holds the text of a sequence of lines as HexSource describes   *)
(* them, in the notation of Intel hex files.                               *)
(***************************************************************************)
EXTENDS HexLine, SequencesExt

CONSTANTS
  Contents,         \* <<lines, ends the last one with CR LF>> to choose from
  BufferSize,       \* of dataBuffer                                  (64)
  MaxPayload        \* MAX_HEX_PAYLOAD_SIZE_IN_BYTES                  (32)

ASSUME ReaderAssumption == BufferSize \in Nat \ {0} /\ MaxPayload \in Nat

(* A record's length is one byte.                                          *)
WordValues == {n \in Nat : n < 65536}

LineTypes == {"DATA", "EOF", "ELA", "OTHER", "JUNK"}

FileLines ==
  [type : LineTypes, off : WordValues, hi : WordValues, data : Seq(ByteValues)]

ASSUME ContentsAssumption ==
  \A c \in Contents :
    /\ c[1] \in Seq(FileLines) /\ c[2] \in BOOLEAN
    /\ \A i \in DOMAIN c[1] : Len(c[1][i].data) < 256

-----------------------------------------------------------------------------
(* The text of a file.                                                     *)

ByteDigits(b) == <<b \div 16, b % 16>>

WordDigits(w) == ByteDigits(w \div 256) \o ByteDigits(w % 256)

TypeNumber(t) == CASE t = "DATA" -> 0 [] t = "EOF" -> 1
                   [] t = "ELA" -> 4 [] t = "OTHER" -> 5

Payload(line) ==
  FlattenSeq([i \in 1 .. Len(line.data) |-> ByteDigits(line.data[i])])

(* A line of junk is one odd character; the checksum is left at zero.      *)
LineText(line) ==
  IF line.type = "JUNK" THEN <<OtherChar>>
  ELSE <<Colon>> \o ByteDigits(Len(Payload(line)) \div 2)
       \o WordDigits(line.off) \o ByteDigits(TypeNumber(line.type))
       \o Payload(line) \o <<0, 0>>

Terminated(line) == LineText(line) \o <<Cr, Lf>>

TextOf(content) ==
  LET lines == content[1]
      n == Len(lines)
  IN  FlattenSeq([i \in 1 .. n |->
        IF i < n \/ content[2] THEN Terminated(lines[i])
        ELSE LineText(lines[i])])

-----------------------------------------------------------------------------
VARIABLES
  lines,            \* history: the lines of the file
  text,             \* the bytes of platform.hex
  sspen,            \* SSPCON1.SSPEN: the SPI port is on
  mounted,          \* FatFs is set
  flag,             \* FA_OPENED in fileSystem.flag
  currentFile,      \* is it "platform.hex"?
  fptr,             \* bytes read so far
  dataBuffer,       \* the line buffer
  index,            \* the next place in it
  currentChar,
  previousChar,
  record,           \* the caller's HexRecord
  currentHighAddress,
  pc,               \* "idle", "reading", "overrun" or "hung"
  lineStart,        \* history: fptr when ReadLine was last entered or done
  fault             \* history: the card or a transfer has failed

vars == <<lines, text, sspen, mounted, flag, currentFile, fptr, dataBuffer,
          index, currentChar, previousChar, record, currentHighAddress, pc,
          lineStart, fault>>

cardVars == <<lines, text>>
lineVars == <<dataBuffer, index, currentChar, previousChar>>

TypeOK ==
  /\ text \in Seq(Chars)
  /\ sspen \in BOOLEAN /\ mounted \in BOOLEAN /\ flag \in BOOLEAN
  /\ currentFile \in BOOLEAN /\ fault \in BOOLEAN
  /\ fptr \in 0 .. Len(text)
  /\ lineStart \in 0 .. fptr
  /\ dataBuffer \in [0 .. BufferSize - 1 -> Chars]
  /\ index \in 0 .. BufferSize
  /\ currentChar \in Chars /\ previousChar \in Chars
  /\ record \in HexRecords
  /\ currentHighAddress \in Addresses
  /\ pc \in {"idle", "reading", "overrun", "hung"}

(* After a reset: FatFs and the flag hold what RAM holds.                  *)
Init ==
  /\ \E c \in Contents : lines = c[1] /\ text = TextOf(c)
  /\ sspen = FALSE
  /\ mounted \in BOOLEAN
  /\ flag \in BOOLEAN
  /\ currentFile = FALSE
  /\ fptr = 0
  /\ dataBuffer = [i \in 0 .. BufferSize - 1 |-> Nul]
  /\ index = 0
  /\ currentChar = Nul
  /\ previousChar = Nul
  /\ record = [RecordType |-> "DATA", Address |-> 0, Data |-> <<>>]
  /\ currentHighAddress = 0
  /\ pc = "idle"
  /\ lineStart = 0
  /\ fault = FALSE

(* SDCARD_Initialize: the volume is mounted; disk_initialize fails and     *)
(* turns the port off; or pf_mount fails.                                  *)
MountOrNot ==
  \/ sspen' = TRUE /\ mounted' = TRUE /\ flag' = FALSE /\ UNCHANGED fault
  \/ fault' = TRUE /\ sspen' = FALSE /\ UNCHANGED <<mounted, flag>>
  \/ fault' = TRUE /\ sspen' \in BOOLEAN /\ mounted' = FALSE
                    /\ UNCHANGED flag

InitializeNameKept ==              \* mutant: currentFile is not cleared
  /\ pc = "idle"
  /\ MountOrNot
  /\ UNCHANGED <<cardVars, currentFile, fptr, lineVars, record,
                 currentHighAddress, pc, lineStart>>

Initialize ==
  /\ pc = "idle"
  /\ currentFile' = FALSE
  /\ MountOrNot
  /\ UNCHANGED <<cardVars, fptr, lineVars, record, currentHighAddress, pc,
                 lineStart>>

(* open_source and SDCARD_OpenFile.                                        *)
SeekToStart ==
  /\ currentFile
  /\ IF mounted /\ flag THEN fptr' = 0 /\ lineStart' = 0
                        ELSE UNCHANGED <<fptr, lineStart>>
  /\ UNCHANGED <<currentFile, flag, fault>>

OpenNamed ==
  /\ ~currentFile
  /\ currentFile' = TRUE
  /\ \/ ~mounted /\ UNCHANGED <<flag, fptr, lineStart, fault>>
     \/ mounted /\ sspen /\ flag' = TRUE /\ fptr' = 0 /\ lineStart' = 0
                /\ UNCHANGED fault
     \/ mounted /\ flag' = FALSE /\ fault' = TRUE
                /\ UNCHANGED <<fptr, lineStart>>

OpenSource ==
  /\ pc = "idle"
  /\ currentHighAddress' = 0
  /\ SeekToStart \/ OpenNamed
  /\ UNCHANGED <<cardVars, sspen, mounted, lineVars, record, pc>>

(* pf_open finds FatFs set though the port is off: it closes the file and  *)
(* waits for a byte from the card that never comes.                        *)
OpenHangs ==
  /\ pc = "idle"
  /\ ~currentFile /\ mounted /\ ~sspen
  /\ currentFile' = TRUE
  /\ flag' = FALSE
  /\ currentHighAddress' = 0
  /\ pc' = "hung"
  /\ UNCHANGED <<cardVars, sspen, mounted, fptr, lineVars, record, lineStart,
                 fault>>

-----------------------------------------------------------------------------
(* read_record, called after an open_source, enters SDCARD_ReadLine.       *)
EnterReadLine ==
  /\ pc = "idle"
  /\ currentFile
  /\ pc' = "reading"
  /\ index' = 0
  /\ currentChar' = Nul
  /\ UNCHANGED <<cardVars, sspen, mounted, flag, currentFile, fptr, dataBuffer,
                 previousChar, record, currentHighAddress, lineStart, fault>>

(* ReadLine returns NULL: an end-of-file record, the rest of it as it was. *)
ReturnNullAlone ==                 \* mutant: the record's type is not set
  /\ pc' = "idle"
  /\ UNCHANGED <<record, currentHighAddress>>

ReturnNull ==
  /\ record' = [record EXCEPT !.RecordType = "EOF"]
  /\ pc' = "idle"
  /\ UNCHANGED currentHighAddress

(* ReadLine returns the buffer: read_record parses it.                     *)
ReturnLine(buffer) ==
  /\ record' = ParseHexLine(buffer, record, currentHighAddress)
  /\ currentHighAddress' = HighAfterParse(buffer, currentHighAddress)
  /\ pc' = "idle"

Readable == mounted /\ flag

AtEnd == fptr = Len(text)

NotOpen ==
  /\ pc = "reading"
  /\ ~Readable
  /\ ReturnNull
  /\ UNCHANGED <<cardVars, sspen, mounted, flag, currentFile, fptr, lineVars,
                 lineStart, fault>>

(* pf_read fails and closes the file; the part of the line that is already *)
(* in the buffer is dropped.                                               *)
TransferFails ==
  /\ pc = "reading"
  /\ Readable /\ ~AtEnd
  /\ flag' = FALSE
  /\ fault' = TRUE
  /\ ReturnNull
  /\ UNCHANGED <<cardVars, sspen, mounted, currentFile, fptr, lineVars,
                 lineStart>>

EndOfText ==
  /\ pc = "reading"
  /\ Readable /\ AtEnd /\ index = 0
  /\ ReturnNull
  /\ UNCHANGED <<cardVars, sspen, mounted, flag, currentFile, fptr, lineVars,
                 lineStart, fault>>

(* A byte outside the buffer is written over what the linker put there.    *)
Overrun ==
  /\ pc' = "overrun"
  /\ UNCHANGED <<cardVars, sspen, mounted, flag, currentFile, fptr, lineVars,
                 record, currentHighAddress, lineStart, fault>>

Room(i) == i < BufferSize

LastLineWithoutEnd ==
  /\ pc = "reading"
  /\ Readable /\ AtEnd /\ index > 0
  /\ IF Room(index)
       THEN /\ dataBuffer' = [dataBuffer EXCEPT ![index] = Nul]
            /\ ReturnLine(dataBuffer')
            /\ lineStart' = fptr
            /\ UNCHANGED <<cardVars, sspen, mounted, flag, currentFile, fptr,
                           index, currentChar, previousChar, fault>>
       ELSE Overrun

(* One byte; CR LF ends the line.                                          *)
EndsLineSwapped(previous, current) ==        \* mutant: LF CR ends it
  previous = Lf /\ current = Cr

EndsLine(previous, current) == previous = Cr /\ current = Lf

ReadChar ==
  /\ pc = "reading"
  /\ Readable /\ ~AtEnd
  /\ LET c == text[fptr + 1]
         stored == [dataBuffer EXCEPT ![index] = c]
         ended == [stored EXCEPT ![index + 1] = Nul]
     IN  IF ~Room(index) \/ (EndsLine(currentChar, c) /\ ~Room(index + 1))
           THEN Overrun
         ELSE
           /\ fptr' = fptr + 1
           /\ index' = index + 1
           /\ previousChar' = currentChar
           /\ currentChar' = c
           /\ IF EndsLine(currentChar, c)
                THEN /\ dataBuffer' = ended
                     /\ ReturnLine(ended)
                     /\ lineStart' = fptr + 1
                ELSE /\ dataBuffer' = stored
                     /\ UNCHANGED <<record, currentHighAddress, pc, lineStart>>
           /\ UNCHANGED <<cardVars, sspen, mounted, flag, currentFile, fault>>

Dispose ==
  /\ pc = "idle"
  /\ mounted' = FALSE
  /\ UNCHANGED <<cardVars, sspen, flag, currentFile, fptr, lineVars, record,
                 currentHighAddress, pc, lineStart, fault>>

(* After an overrun nothing is known; the wait for a byte has no end.      *)
Lost == pc \in {"overrun", "hung"} /\ UNCHANGED vars

ReadLine ==
  NotOpen \/ TransferFails \/ EndOfText \/ LastLineWithoutEnd \/ ReadChar

Next ==
  \/ Initialize \/ OpenSource \/ OpenHangs \/ EnterReadLine \/ ReadLine
  \/ Dispose \/ Lost

Spec == Init /\ [][Next]_vars

-----------------------------------------------------------------------------
(* The state of HexSource that this state stands for; a byte is a set of   *)
(* bits there.                                                             *)
BitsOf(b) == {i \in 0 .. 7 : (b \div 2^i) % 2 = 1}

AbstractData(data) == [i \in 1 .. Len(data) |-> BitsOf(data[i])]

AbstractLine(line) == [line EXCEPT !.data = AbstractData(line.data)]

AbstractFile == [i \in 1 .. Len(lines) |-> AbstractLine(lines[i])]

LinesRead ==
  Cardinality({i \in 2 .. lineStart : text[i - 1] = Cr /\ text[i] = Lf})

(* A last line without CR LF counts once it has been read.                 *)
AbstractPos ==
  1 + LinesRead
    + IF lineStart > 0 /\ lineStart = Len(text) /\ text[lineStart] # Lf
        THEN 1 ELSE 0

AbstractRecord ==
  [type |-> record.RecordType, addr |-> record.Address,
   data |-> AbstractData(record.Data)]

Source == INSTANCE HexSource WITH
  Bits <- 0 .. 7,
  HighUnit <- 65536,
  HighCount <- 256,
  Files <- {[i \in 1 .. Len(c[1]) |-> AbstractLine(c[1][i])] : c \in Contents},
  file <- AbstractFile,
  opened <- flag,
  named <- currentFile,
  pos <- AbstractPos,
  high <- currentHighAddress,
  rec <- AbstractRecord

(* Reading a file byte by byte through the line buffer, and parsing what   *)
(* the buffer holds, gives record for record what HexSource says, with the *)
(* same failures.                                                          *)
ImplementsSource == Source!SourceSpec

(* A byte is asked for only through a port that is on: a file counts as    *)
(* open, under its name, only once it was opened since the card was last   *)
(* initialized.                                                            *)
ReadsOnLivePort == pc = "reading" /\ Readable => sspen

(* The line buffer is overrun only by a line that does not fit into it     *)
(* with its CR LF and a terminating zero.                                  *)
OverrunOnlyByLongLine ==
  pc = "overrun" =>
    \E i \in 1 .. Len(lines) : Len(Terminated(lines[i])) + 1 > BufferSize

(* bootldr.h:13: a record may have MAX_HEX_PAYLOAD_SIZE_IN_BYTES bytes of  *)
(* data; the buffer takes the line of every such record.                   *)
PayloadFitsBuffer ==
  (\A i \in 1 .. Len(lines) : Len(lines[i].data) <= MaxPayload)
    => pc # "overrun"
=============================================================================
