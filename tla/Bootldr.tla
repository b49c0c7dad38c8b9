------------------------------ MODULE Bootldr ------------------------------
(***************************************************************************)
(* The bootloader from reset to the end of a session: main of main.c, and  *)
(* Bootldr_Initialize, Bootldr_Program and Bootldr_Verify of bootldr.c,    *)
(* over the flash routines (Flash) and the hex data source (HexSource).    *)
(*                                                                         *)
(* One action is one pass through a loop of the code, or the straight code *)
(* between two loops.  Power may be lost between any two actions and in    *)
(* the middle of a flash command; the switch is free at every reset.       *)
(***************************************************************************)
EXTENDS Flash, HexSource

CONSTANTS
  UserEnd,            \* USER_PROGRAM_END_ADDRESS             (0x1FFF8)
  NumBlocksToErase,   \* NUM_BLOCKS_TO_ERASE                       (95)
  MaxPayload,         \* MAX_HEX_PAYLOAD_SIZE_IN_BYTES             (32)
  InitialFlash,       \* what program memory may hold at first
  MaxResets           \* bound: power losses in one behaviour

ASSUME BootldrAssumption ==
  /\ UserEnd \in Nat
  /\ UserStart < UserEnd
  /\ UserEnd <= FlashSize
  /\ NumBlocksToErase \in Nat
  /\ MaxPayload \in Nat
  /\ MaxPayload <= BlockSize
  /\ MaxResets \in Nat
  /\ InitialFlash \subseteq [Cells -> Byte]
  /\ \A f \in Files : \A i \in 1 .. Len(f) : Len(f[i].data) <= MaxPayload

VARIABLES
  pc,                 \* where the main thread is
  bl,                 \* the Bootloader structure of Bootldr_Program
  erased,             \* blocksErased
  verdict,            \* what the display says of the verification
  resets              \* power losses so far

vars == <<flashVars, sourceVars, pc, bl, erased, verdict, resets>>

Locations == {"reset", "init", "open", "hung", "erase", "program", "flush",
              "vopen", "vread", "verify", "halt", "user", "undefined"}

TypeOK ==
  /\ FlashTypeOK
  /\ SourceTypeOK
  /\ pc \in Locations
  /\ bl \in [start : Nat, end : Nat, buf : Block]
  /\ erased \in Nat
  /\ verdict \in {"none", "PASS", "FAIL"}
  /\ resets \in 0 .. MaxResets

(* A Bootloader structure at a block, its buffer filled with 0xFF.         *)
BlockAt(start) ==
  [start |-> start, end |-> start + BlockSize, buf |-> BlankBlock]

Init ==
  /\ flash \in InitialFlash
  /\ eecon1 = ControlAfterReset
  /\ tblptr = 0
  /\ SourceInit
  /\ pc = "reset"
  /\ bl = BlockAt(UserStart)
  /\ erased = 0
  /\ verdict = "none"
  /\ resets = 0

-----------------------------------------------------------------------------
(* main: with the switch on the bootloader runs, otherwise the user        *)
(* program does, whatever is in its memory.                                *)
EnterBootloader ==
  /\ pc = "reset"
  /\ pc' = "init"
  /\ UNCHANGED <<flashVars, sourceVars, bl, erased, verdict, resets>>

EnterUserProgram ==
  /\ pc = "reset"
  /\ pc' = "user"
  /\ UNCHANGED <<flashVars, sourceVars, bl, erased, verdict, resets>>

(* Bootldr_Initialize: the result of SDCARD_Initialize is ignored.         *)
Initialize ==
  /\ pc = "init"
  /\ SdcardInitialize
  /\ pc' = "open"
  /\ UNCHANGED <<flashVars, bl, erased, verdict, resets>>

(* Bootldr_Program: open_source, whose result is ignored too, then the     *)
(* prologue of flash_erase.                                                *)
OpenForProgram ==
  /\ pc = "open"
  /\ OpenSource
  /\ FlashEraseBegin
  /\ erased' = 0
  /\ pc' = "erase"
  /\ UNCHANGED <<rec, bl, verdict, resets>>

(* The same open with a FatFs from before the reset: it never returns.     *)
OpenForProgramHangs ==
  /\ pc = "open"
  /\ OpenHangs
  /\ pc' = "hung"
  /\ UNCHANGED <<flashVars, rec, bl, erased, verdict, resets>>

(* while(blocksErased++ <= NUM_BLOCKS_TO_ERASE)                            *)
MoreToEraseStrict(n) ==            \* mutant: < for <=
  n < NumBlocksToErase

MoreToErase(n) == n <= NumBlocksToErase

ErasePage ==
  /\ pc = "erase"
  /\ MoreToErase(erased)
  /\ FlashErasePage
  /\ erased' = erased + 1
  /\ UNCHANGED <<sourceVars, pc, bl, verdict, resets>>

(* The epilogue of flash_erase, the first block, and the first record,     *)
(* read into a variable that has not been initialized.                     *)
BeginProgram ==
  /\ pc = "erase"
  /\ ~MoreToErase(erased)
  /\ FlashEraseEnd
  /\ bl' = BlockAt(UserStart)
  /\ \E t \in RecordTypes : ReadRecord(Unread(t))
  /\ pc' = "program"
  /\ UNCHANGED <<erased, verdict, resets>>

-----------------------------------------------------------------------------
(* The loop of Bootldr_Program over the records.                           *)
InUserAreaInclusive(address) ==    \* mutant: <= for <
  address >= UserStart /\ address <= UserEnd

InUserArea(address) == address >= UserStart /\ address < UserEnd

Programmable == rec.type = "DATA" /\ InUserArea(rec.addr)

StartsInBlock == rec.addr < bl.end

FitsBlock(r, block) == r.addr + Len(r.data) <= block.end

PassesEnd(r) == r.type = "DATA" /\ r.addr >= UserEnd

(* mystrncpy of data to index k of a buffer.                               *)
CopyInto(buffer, k, data) ==
  [i \in 0 .. BlockSize - 1 |->
     IF i >= k /\ i < k + Len(data) THEN data[i - k + 1] ELSE buffer[i]]

(* The copy stays inside data_buffer.  The code does not test this: for a  *)
(* record below the current block the index is negative.                   *)
CopyIsInside == Len(rec.data) = 0 \/ rec.addr >= bl.start

BufferRecord ==
  /\ pc = "program"
  /\ Programmable /\ StartsInBlock /\ FitsBlock(rec, bl)
  /\ CopyIsInside
  /\ bl' = [bl EXCEPT !.buf = CopyInto(@, rec.addr - bl.start, rec.data)]
  /\ ReadRecord(rec)
  /\ UNCHANGED <<flashVars, pc, erased, verdict, resets>>

(* The copy that leaves the buffer overwrites other variables: from here   *)
(* on the source says nothing.                                             *)
CopyOutOfBounds ==
  /\ pc = "program"
  /\ Programmable /\ StartsInBlock /\ FitsBlock(rec, bl)
  /\ ~CopyIsInside
  /\ pc' = "undefined"
  /\ UNCHANGED <<flashVars, sourceVars, bl, erased, verdict, resets>>

(* A record across the end of the block: fill the block and write it, then *)
(* start the next block with the rest of the record.                       *)
BytesWritten == bl.end - rec.addr

FilledBlock ==
  CopyInto(bl.buf, rec.addr - bl.start, SubSeq(rec.data, 1, BytesWritten))

RestOfRecord == SubSeq(rec.data, BytesWritten + 1, Len(rec.data))

NextBlock(block) == BlockAt(block.start + BlockSize)

SplitRecord ==
  /\ pc = "program"
  /\ Programmable /\ StartsInBlock /\ ~FitsBlock(rec, bl)
  /\ FlashWrite(FilledBlock, bl.start)
  /\ bl' = [NextBlock(bl) EXCEPT !.buf = CopyInto(@, 0, RestOfRecord)]
  /\ ReadRecord(rec)
  /\ UNCHANGED <<pc, erased, verdict, resets>>

(* A record past the block: write the block, move to the record's block;   *)
(* the record itself is taken by the next pass.                            *)
BlockOfUnaligned(address) ==       \* mutant: BLOCK_ALIGN_CONSTANT is not applied
  BlockAt(address)

BlockOfRoundedUp(address) ==       \* mutant: aligned upwards
  BlockAt(AlignDown(address + BlockSize - 1, BlockSize))

BlockOf(address) == BlockAt(AlignDown(address, BlockSize))

FlushBlock ==
  /\ pc = "program"
  /\ Programmable /\ ~StartsInBlock
  /\ FlashWrite(bl.buf, bl.start)
  /\ bl' = BlockOf(rec.addr)
  /\ UNCHANGED <<sourceVars, pc, erased, verdict, resets>>

(* A record past the user area: write the block, blank it, leave the loop. *)
PastEnd ==
  /\ pc = "program"
  /\ PassesEnd(rec)
  /\ FlashWrite(bl.buf, bl.start)
  /\ bl' = [bl EXCEPT !.buf = BlankBlock]
  /\ pc' = "flush"
  /\ UNCHANGED <<sourceVars, erased, verdict, resets>>

(* A record below the user area, or one that carries no data.              *)
SkipRecordAndStay ==               \* mutant: no read_record
  /\ pc = "program"
  /\ rec.type # "EOF" /\ ~Programmable /\ ~PassesEnd(rec)
  /\ UNCHANGED vars

SkipRecord ==
  /\ pc = "program"
  /\ rec.type # "EOF" /\ ~Programmable /\ ~PassesEnd(rec)
  /\ ReadRecord(rec)
  /\ UNCHANGED <<flashVars, pc, bl, erased, verdict, resets>>

(* After the loop, which an end-of-file record or `break' ends.            *)
AtLastFlush == pc = "flush" \/ (pc = "program" /\ rec.type = "EOF")

FlushLastForgotten ==              \* mutant: the last block is not written
  /\ AtLastFlush
  /\ pc' = "vopen"
  /\ UNCHANGED <<flashVars, sourceVars, bl, erased, verdict, resets>>

FlushLast ==
  /\ AtLastFlush
  /\ FlashWrite(bl.buf, bl.start)
  /\ pc' = "vopen"
  /\ UNCHANGED <<sourceVars, bl, erased, verdict, resets>>

-----------------------------------------------------------------------------
(* Bootldr_Verify.                                                         *)
OpenForVerify ==
  /\ pc = "vopen"
  /\ OpenSource
  /\ pc' = "vread"
  /\ UNCHANGED <<flashVars, rec, bl, erased, verdict, resets>>

BeginVerify ==
  /\ pc = "vread"
  /\ \E t \in RecordTypes : ReadRecord(Unread(t))
  /\ pc' = "verify"
  /\ UNCHANGED <<flashVars, bl, erased, verdict, resets>>

FlashHoldsButLast(r) ==            \* mutant: the last byte is not compared
  \A i \in 1 .. Len(r.data) - 1 : FlashRead(r.addr, Len(r.data))[i] = r.data[i]

FlashHolds(r) == FlashRead(r.addr, Len(r.data)) = r.data

VerifyMatch ==
  /\ pc = "verify"
  /\ Programmable /\ FlashHolds(rec)
  /\ tblptr' = TblptrAfterRead(rec.addr, Len(rec.data))
  /\ ReadRecord(rec)
  /\ UNCHANGED <<flash, eecon1, pc, bl, erased, verdict, resets>>

VerifySkip ==
  /\ pc = "verify"
  /\ rec.type # "EOF" /\ ~Programmable
  /\ ReadRecord(rec)
  /\ UNCHANGED <<flashVars, pc, bl, erased, verdict, resets>>

(* Both ends of the verification are followed by SDCARD_Dispose and the    *)
(* empty loop of main.                                                     *)
VerifyMismatch ==
  /\ pc = "verify"
  /\ Programmable /\ ~FlashHolds(rec)
  /\ tblptr' = TblptrAfterRead(rec.addr, Len(rec.data))
  /\ verdict' = "FAIL"
  /\ SdcardDispose
  /\ pc' = "halt"
  /\ UNCHANGED <<flash, eecon1, bl, erased, resets>>

VerifyDone ==
  /\ pc = "verify"
  /\ rec.type = "EOF"
  /\ verdict' = "PASS"
  /\ SdcardDispose
  /\ pc' = "halt"
  /\ UNCHANGED <<flashVars, bl, erased, resets>>

(* while(1), the user program, an unknown one, or a wait without an end.   *)
Spin ==
  /\ pc \in {"halt", "user", "undefined", "hung"}
  /\ UNCHANGED vars

-----------------------------------------------------------------------------
(* Power is lost.  If a flash command was about to run, any part of what   *)
(* it changes may have been changed.                                       *)
FlashAhead ==
  IF pc = "erase" /\ MoreToErase(erased)
    THEN Committed(eecon1, tblptr, BlankBlock)
  ELSE IF pc = "program" /\ Programmable /\ StartsInBlock
                         /\ ~FitsBlock(rec, bl)
    THEN FlashWritten(FilledBlock, bl.start)
  ELSE IF \/ AtLastFlush
          \/ pc = "program" /\ Programmable /\ ~StartsInBlock
          \/ pc = "program" /\ PassesEnd(rec)
    THEN FlashWritten(bl.buf, bl.start)
  ELSE flash

Torn(done) == [a \in Cells |-> IF a \in done THEN FlashAhead[a] ELSE flash[a]]

PowerLoss ==
  /\ pc # "reset"
  /\ resets < MaxResets
  /\ resets' = resets + 1
  /\ \E done \in SUBSET {a \in Cells : FlashAhead[a] # flash[a]} :
       flash' = Torn(done)
  /\ eecon1' = ControlAfterReset
  /\ tblptr' = 0
  /\ SourceReset
  /\ pc' = "reset"
  /\ bl' = BlockAt(UserStart)
  /\ erased' = 0
  /\ verdict' = "none"

Programming ==
  \/ BufferRecord \/ CopyOutOfBounds \/ SplitRecord \/ FlushBlock
  \/ PastEnd \/ SkipRecord \/ FlushLast

Verifying ==
  \/ OpenForVerify \/ BeginVerify \/ VerifyMatch \/ VerifySkip
  \/ VerifyMismatch \/ VerifyDone

Step ==
  \/ EnterBootloader \/ EnterUserProgram \/ Initialize
  \/ OpenForProgram \/ OpenForProgramHangs
  \/ ErasePage \/ BeginProgram \/ Programming \/ Verifying

Next == Step \/ Spin \/ PowerLoss

(* While it has power the processor executes its code; the loops that wait *)
(* for the card are inside the steps and time out, but for the wait on a   *)
(* port that is off, which is `hung'.                                      *)
Fairness == WF_vars(Step)

Spec == Init /\ [][Next]_vars

FairSpec == Spec /\ Fairness

-----------------------------------------------------------------------------
(* A file as a linker writes it for this device: ascending, no record      *)
(* across a border of the user area, addresses of 24 bits, and a record    *)
(* (not junk) on its first line.                                           *)
WithinOneArea(f, i) ==
  \/ EndOf(f, i) <= UserStart
  \/ AddrOf(f, i) >= UserStart /\ EndOf(f, i) <= UserEnd
  \/ AddrOf(f, i) >= UserEnd

BeginsWithRecord(f) == Len(f) > 0 => f[1].type # "JUNK"

WellFormed(f) ==
  /\ Ascending(f)
  /\ \A i \in DataLines(f) : WithinOneArea(f, i)
  /\ \A i \in 1 .. Len(f) : f[i].hi < HighCount
  /\ BeginsWithRecord(f)

(* The bytes a file gives to the user area, 0xFF where it gives none.      *)
Gives(f, i, a) == i \in DataLines(f) /\ AddrOf(f, i) <= a /\ a < EndOf(f, i)

ImageByte(f, a) ==
  IF \E i \in 1 .. Len(f) : Gives(f, i, a)
    THEN LET i == CHOOSE i \in 1 .. Len(f) : Gives(f, i, a)
         IN  f[i].data[a - AddrOf(f, i) + 1]
    ELSE ErasedByte

UserCells == UserStart .. UserEnd - 1

(* The flash holds the bytes of line i of the file.                        *)
Held(i) ==
  InUserArea(AddrOf(file, i))
    => FlashRead(AddrOf(file, i), Len(file[i].data)) = file[i].data

-----------------------------------------------------------------------------
(* The bootloader's own memory is never changed, by any file, any initial  *)
(* content, or a loss of power: "This function should take care not to     *)
(* overwrite the bootloader area of flash memory" (bootldr.c:208).         *)
BootAreaKept ==
  [][\A a \in Cells : a < UserStart => flash'[a] = flash[a]]_vars

(* The copy into data_buffer leaves the buffer only for a file whose       *)
(* records are out of order.                                               *)
CopyInBounds == pc = "undefined" => ~Ascending(file)

(* A session that was not disturbed leaves in the user area the bytes of   *)
(* the file and nothing else, whatever the area held and however earlier   *)
(* sessions were cut off.                                                  *)
ProgramCorrect ==
  pc \in {"vopen", "vread", "verify", "halt"} /\ ~fault /\ WellFormed(file)
    => \A a \in UserCells : flash[a] = ImageByte(file, a)

(* PASS is shown only if the flash holds every byte of every record that   *)
(* begins in the user area, for any file at all, as long as no transfer    *)
(* failed.                                                                 *)
PassMeansMatch ==
  verdict = "PASS" /\ ~fault /\ BeginsWithRecord(file)
    => \A i \in DataLines(file) : Held(i)

(* Outside the erase loop a cell only ever leaves the erased state: no     *)
(* cell is programmed a second time, so no programmed bits are merged.     *)
NoOverprogramming ==
  [][pc # "erase" /\ flash' # flash /\ WellFormed(file)
       => \A a \in Cells : flash'[a] # flash[a] => flash[a] = ErasedByte]_vars

(* With a well-formed file the programming loop stays below UserEnd: the   *)
(* words there are the configuration of the device.                        *)
ProgramStaysInUserArea ==
  [][pc # "erase" /\ flash' # flash /\ WellFormed(file)
       => \A a \in Cells : a >= UserEnd => flash'[a] = flash[a]]_vars

(* A session does what Reprogram promises: it is idle until the erase      *)
(* loop, has written when the verification begins, and is over when the    *)
(* verdict is shown.                                                       *)
Phase ==
  IF pc \in {"erase", "program", "flush"} THEN "working"
  ELSE IF pc \in {"vopen", "vread", "verify"} THEN "written"
  ELSE IF pc = "halt" THEN "over"
  ELSE IF pc = "undefined" THEN "lost" ELSE "idle"

Promise == INSTANCE Reprogram
  WITH memory <- flash, card <- file, failed <- fault, phase <- Phase,
       Good <- WellFormed, Image <- ImageByte

KeepsPromise == Promise!Spec

(* Every session that begins with FatFs clear comes to an end, whatever is *)
(* on the card and whatever fails; of the others only one in which the     *)
(* card has failed can wait for ever, and it has not begun to erase then.  *)
Ended == pc \in {"halt", "undefined", "reset"}

SessionEnds ==
  /\ (pc = "init" /\ ~mounted) ~> Ended
  /\ pc = "init" ~> Ended \/ (pc = "hung" /\ fault)

(* A well-formed file that can be read is programmed and passes.           *)
GoodFilePasses ==
  (pc = "init" /\ WellFormed(file)) ~> (verdict = "PASS" \/ fault \/ pc = "reset")

-----------------------------------------------------------------------------
(* Why the properties above hold: what is true in every state in between.  *)

(* The block in hand is aligned, in the user area, and as long as a block; *)
(* the erase loop has not left the user area downwards.                    *)
BlockInv ==
  /\ bl.start % BlockSize = 0
  /\ bl.start >= UserStart
  /\ bl.end = bl.start + BlockSize
  /\ pc = "erase" => tblptr >= UserStart

(* The record in hand is the data line just read...                        *)
RecIsLine ==
  /\ file[pos - 1].type = "DATA"
  /\ rec.addr = AddrOf(file, pos - 1)
  /\ rec.data = file[pos - 1].data

(* ...or the ghost of one, left by a line without a colon: it has no data, *)
(* and lies where it is neither made the start of a block nor taken for    *)
(* the end of the user area.                                               *)
RecIsGhost ==
  /\ rec.data = <<>>
  /\ rec.addr < UserStart \/ (rec.addr < bl.end /\ rec.addr < UserEnd)

(* Between two records of the programming loop: the reader has followed    *)
(* the file, and in an ascending file no record that is still to come, the *)
(* one in hand included, begins below the block in hand.                   *)
LoopInv ==
  /\ pos - 1 \in 1 .. Len(file)
  /\ high = HighAt(file, pos)
  /\ \A j \in 1 .. pos - 1 : file[j].type # "EOF"
  /\ rec.type = "DATA" => high <= rec.addr /\ (RecIsLine \/ RecIsGhost)
  /\ Ascending(file) =>
       \A i \in DataLines(file) :
         i >= pos - 1 /\ InUserArea(AddrOf(file, i))
           => AddrOf(file, i) >= bl.start

(* The invariant that makes CopyInBounds inductive.                        *)
OrderInv ==
  /\ pc = "erase" /\ mounted /\ opened => pos = 1 /\ high = 0
  /\ pc = "program" /\ rec.type # "EOF" => LoopInv
  /\ CopyInBounds

(* While nothing has failed the file is open when a loop begins to read    *)
(* it, at its first line.                                                  *)
FileInv ==
  ~fault =>
    /\ pc = "open" => mounted /\ ~named
    /\ pc \in {"erase", "program", "flush", "vopen", "vread", "verify"}
         => mounted /\ opened /\ named
    /\ pc \in {"erase", "vread"} => pos = 1 /\ high = 0

(* The first line that a loop has not finished with.                       *)
LineInHand == IF rec.type = "EOF" THEN pos ELSE pos - 1

(* In both loops no data line is lost: the record in hand is the last line *)
(* read if that is a data line, and the end is reported only when no data  *)
(* line is left.                                                           *)
FollowInv ==
  pc \in {"program", "verify"} /\ ~fault /\ BeginsWithRecord(file) =>
    /\ high = HighAt(file, pos)
    /\ IF rec.type = "EOF"
         THEN \A i \in DataLines(file) : i < pos
         ELSE /\ pos - 1 \in 1 .. Len(file)
              /\ file[pos - 1].type = "DATA" => rec.type = "DATA" /\ RecIsLine

(* The lines before the one in hand have been compared.                    *)
VerifyInv ==
  /\ verdict = "PASS" => pc = "halt"
  /\ pc = "verify" /\ ~fault /\ BeginsWithRecord(file)
       => \A i \in DataLines(file) : i < LineInHand => Held(i)
  /\ PassMeansMatch

(* What is compared with the flash is a data line of the file, or nothing. *)
CompareInv ==
  pc = "verify" /\ ~fault /\ BeginsWithRecord(file) /\ rec.type # "EOF" =>
    /\ \A j \in 1 .. pos - 1 : file[j].type # "EOF"
    /\ rec.type = "DATA" => RecIsLine \/ rec.data = <<>>

(* The erase loop reaches the end of the user area, and FREE stays set.    *)
EraseWorks ==
  /\ ~FreeSelfClears
  /\ UserEnd <= UserStart + (NumBlocksToErase + 1) * EraseSize

(* FREE is clear when blocks are programmed.                               *)
FreeInv == pc \in {"program", "flush"} => ~eecon1.free

(* The pages behind TBLPTR are erased; then the block in hand and all      *)
(* blocks above it are.                                                    *)
EraseInv ==
  EraseWorks =>
    /\ pc = "erase" =>
         /\ eecon1 = [wren |-> TRUE, free |-> TRUE]
         /\ tblptr = UserStart + erased * EraseSize
         /\ tblptr % EraseSize = 0
         /\ \A a \in Cells :
              UserStart <= a /\ a < tblptr => flash[a] = ErasedByte
    /\ pc = "program" =>
         \A a \in UserCells : a >= bl.start => flash[a] = ErasedByte

(* The buffer holds nothing for the words from UserEnd on.                 *)
BufferInv ==
  /\ pc = "program" /\ WellFormed(file) =>
       \A k \in 0 .. BlockSize - 1 :
         bl.start + k >= UserEnd => bl.buf[k] = ErasedByte
  /\ pc = "flush" => bl.buf = BlankBlock

(* What the memory will hold once the block in hand is written: the bytes  *)
(* of the lines before line n, and 0xFF in the rest of the user area.      *)
Pending(a) ==
  IF bl.start <= a /\ a < bl.end THEN flash[a] \cap bl.buf[a - bl.start]
                                 ELSE flash[a]

ImageOfLines(n) ==
  \A a \in UserCells :
    /\ \A i \in DataLines(file) :
         i < n /\ Gives(file, i, a)
           => Pending(a) = file[i].data[a - AddrOf(file, i) + 1]
    /\ (\A i \in DataLines(file) : i < n => ~Gives(file, i, a))
         => Pending(a) = ErasedByte

(* The invariant that makes ProgramCorrect inductive.                      *)
ImageInv ==
  EraseWorks /\ ~fault /\ WellFormed(file) =>
    /\ pc = "program" => ImageOfLines(LineInHand)
    /\ pc = "flush" => ImageOfLines(Len(file) + 1)
    /\ ProgramCorrect

-----------------------------------------------------------------------------
(* What the source says of itself and the program does not do.             *)

(* bootldr.c:23: Bootldr_Verify is there to "verify that the data          *)
(* programmed matches the hex data provided".                              *)
VerifyIsHonest ==
  verdict = "PASS" /\ BeginsWithRecord(file)
    => \A i \in DataLines(file) : Held(i)

(* bootldr.c:205: flash_erase "erases the application area", all of it,    *)
(* before programming begins.                                              *)
EraseIsComplete ==
  [][pc = "erase" /\ pc' = "program"
       => \A a \in UserCells : flash[a] = ErasedByte]_vars
=============================================================================
