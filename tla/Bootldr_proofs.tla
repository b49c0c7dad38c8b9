--------------------------- MODULE Bootldr_proofs ---------------------------
(***************************************************************************)
(* What the bootloader core keeps, what PASS means, what programming       *)
(* leaves in the memory, and the promise of Reprogram that a session       *)
(* keeps: theorems for every size of memory, page, block and record, and   *)
(* every layout of the file.                                               *)
(***************************************************************************)
EXTENDS Bootldr, SequenceTheorems, TLAPS

-----------------------------------------------------------------------------
(* Arithmetic of alignment.                                                *)

(* The base of an address is below it, less than one size away.            *)
LEMMA AlignBounds ==
  ASSUME NEW size \in Nat \ {0}, NEW a \in Nat
  PROVE  /\ AlignDown(a, size) \in Nat
         /\ AlignDown(a, size) <= a
         /\ a < AlignDown(a, size) + size
BY DEF AlignDown

(* An address less than one size above an aligned one has it as its base.  *)
LEMMA AlignWithin ==
  ASSUME NEW size \in Nat \ {0}, NEW s \in Nat, NEW a \in Nat,
         s % size = 0, s <= a, a < s + size
  PROVE  AlignDown(a, size) = s
BY DEF AlignDown

(* Division with remainder.                                                *)
LEMMA DivideOnce ==
  ASSUME NEW size \in Nat \ {0}, NEW a \in Nat
  PROVE  \E q \in Nat : a = q * size + (a % size)
<1>1. a = (a \div size) * size + (a % size) /\ a \div size \in Nat
  OBVIOUS
<1> QED
  BY <1>1

LEMMA MultipleIsAligned ==
  ASSUME NEW size \in Nat \ {0}, NEW q \in Nat
  PROVE  (q * size) % size = 0
OBVIOUS

(* A base is aligned, and so is the address one size further.              *)
LEMMA AlignAligned ==
  ASSUME NEW size \in Nat \ {0}, NEW a \in Nat
  PROVE  AlignDown(a, size) % size = 0
<1>1. PICK q \in Nat : a = q * size + (a % size)
  BY DivideOnce
<1>2. AlignDown(a, size) = q * size
  BY <1>1 DEF AlignDown
<1> QED
  BY <1>2, MultipleIsAligned

LEMMA NextAligned ==
  ASSUME NEW size \in Nat \ {0}, NEW s \in Nat, s % size = 0
  PROVE  (s + size) % size = 0
<1>1. PICK q \in Nat : s = q * size + (s % size)
  BY DivideOnce
<1>2. s + size = (q + 1) * size
  BY <1>1
<1>3. ((q + 1) * size) % size = 0
  BY MultipleIsAligned
<1> QED
  BY <1>2, <1>3

(* Bases are monotone: an aligned address that is not above b is not above *)
(* the base of b.                                                          *)
LEMMA AlignAbove ==
  ASSUME NEW size \in Nat \ {0}, NEW s \in Nat, NEW a \in Nat,
         s % size = 0, s <= a
  PROVE  s <= AlignDown(a, size)
<1>1. PICK p \in Nat : s = p * size + (s % size)
  BY DivideOnce
<1>2. PICK q \in Nat : a = q * size + (a % size)
  BY DivideOnce
<1>3. AlignDown(a, size) = q * size
  BY <1>2 DEF AlignDown
<1>4. a % size < size /\ s = p * size
  BY <1>1
<1>5. p <= q
  <2>1. SUFFICES ASSUME q + 1 <= p PROVE FALSE
    BY <2>1
  <2>2. (q + 1) * size <= p * size
    BY <2>1
  <2>3. (q + 1) * size = q * size + size
    OBVIOUS
  <2> QED
    BY <1>2, <1>4, <2>2, <2>3
<1> QED
  BY <1>3, <1>4, <1>5

-----------------------------------------------------------------------------
(* The shapes of the values that the operators of the model produce.       *)

LEMMA BlankBlockType == BlankBlock \in Block
BY DEF BlankBlock, Block, Byte, ErasedByte

LEMMA BlockAtType ==
  ASSUME NEW s \in Nat
  PROVE  BlockAt(s) \in [start : Nat, end : Nat, buf : Block]
BY BlankBlockType, FlashAssumption DEF BlockAt

LEMMA CopyIntoType ==
  ASSUME NEW buffer \in Block, NEW k \in Int, NEW data \in Seq(Byte)
  PROVE  CopyInto(buffer, k, data) \in Block
<1>1. ASSUME NEW i \in 0 .. BlockSize - 1
      PROVE  (IF i >= k /\ i < k + Len(data)
                THEN data[i - k + 1] ELSE buffer[i]) \in Byte
  <2>1. CASE i >= k /\ i < k + Len(data)
    <3>1. i - k + 1 \in 1 .. Len(data)
      BY <2>1, FlashAssumption
    <3> QED
      BY <2>1, <3>1
  <2>2. CASE ~(i >= k /\ i < k + Len(data))
    BY <2>2 DEF Block
  <2> QED
    BY <2>1, <2>2
<1> QED
  BY <1>1 DEF CopyInto, Block

LEMMA HoldingType ==
  ASSUME NEW buffer \in Block, NEW address \in Nat
  PROVE  Holding(buffer, address) \in Block
<1>1. ASSUME NEW k \in 0 .. BlockSize - 1
      PROVE  (k - address) % BlockSize \in 0 .. BlockSize - 1
  BY FlashAssumption
<1> QED
  BY <1>1 DEF Holding, Block

(* A flash command leaves a memory, whatever its registers hold.           *)
LEMMA CommittedType ==
  ASSUME flash \in [Cells -> Byte], NEW ee, NEW ptr, NEW holding \in Block
  PROVE  Committed(ee, ptr, holding) \in [Cells -> Byte]
<1>1. ASSUME NEW a \in Cells
      PROVE  Committed(ee, ptr, holding)[a] \in Byte
  <2>1. a % BlockSize \in 0 .. BlockSize - 1
    BY FlashAssumption DEF Cells
  <2>2. holding[a % BlockSize] \in Byte /\ flash[a] \in Byte
    BY <2>1 DEF Block
  <2> QED
    BY <2>2 DEF Committed, Byte, ErasedByte
<1> QED
  BY <1>1 DEF Committed

LEMMA FlashWrittenType ==
  ASSUME flash \in [Cells -> Byte], NEW buffer \in Block, NEW address \in Nat
  PROVE  FlashWritten(buffer, address) \in [Cells -> Byte]
BY HoldingType, CommittedType DEF FlashWritten

LEMMA FlashWriteType ==
  ASSUME FlashTypeOK, NEW buffer \in Block, NEW address \in Nat,
         FlashWrite(buffer, address)
  PROVE  FlashTypeOK'
<1>1. flash' \in [Cells -> Byte]
  BY FlashWrittenType DEF FlashTypeOK, FlashWrite
<1>2. tblptr' \in Nat
  BY FlashAssumption DEF FlashWrite, WritePointer
<1>3. eecon1' \in [wren : BOOLEAN, free : BOOLEAN]
  BY FlashAssumption
  DEF FlashTypeOK, FlashWrite, ControlAfterCommit, WriteControl
<1> QED
  BY <1>1, <1>2, <1>3 DEF FlashTypeOK, Cells

LEMMA FileType ==
  ASSUME file \in Files
  PROVE  /\ file \in Seq(Lines)
         /\ \A i \in 1 .. Len(file) : Len(file[i].data) <= MaxPayload
BY SourceAssumption, BootldrAssumption

LEMMA HighAddressType ==
  ASSUME NEW line \in Lines
  PROVE  HighAddress(line) \in Nat
<1>1. line.hi % HighCount \in Nat
  BY SourceAssumption DEF Lines
<1> QED
  BY <1>1, SourceAssumption DEF HighAddress

(* read_record keeps the types of the source, from any record of the type. *)
LEMMA ReadRecordType ==
  ASSUME SourceTypeOK, NEW old \in Records, ReadRecord(old)
  PROVE  SourceTypeOK'
<1>1. CASE ReadNothing(old)
  BY <1>1
  DEF ReadNothing, ReadRecord, SourceTypeOK, EndOfFile, Records, RecordTypes
<1>2. CASE ReadFails(old)
  BY <1>2
  DEF ReadFails, ReadRecord, SourceTypeOK, EndOfFile, Records, RecordTypes
<1>3. CASE ReadLine(old)
  <2>1. pos \in 1 .. Len(file)
    BY <1>3, FileType DEF ReadLine, CanRead, SourceTypeOK
  <2> DEFINE line == file[pos]
  <2>2. line \in Lines
    BY <2>1, FileType DEF SourceTypeOK
  <2>3. HighAfter(line) \in Nat
    BY <2>2, HighAddressType DEF HighAfter, SourceTypeOK
  <2>4. Parsed(line, old) \in Records
    BY <2>2, EmptySeq
    DEF Parsed, Records, Lines, LineTypes, SourceTypeOK
  <2> QED
    BY <1>3, <2>3, <2>4 DEF ReadLine, ReadRecord, SourceTypeOK
<1> QED
  BY <1>1, <1>2, <1>3 DEF ReadRecord

LEMMA UnreadType ==
  ASSUME NEW t \in RecordTypes
  PROVE  Unread(t) \in Records
BY EmptySeq DEF Unread, Records

LEMMA UnreadDataType == Unread("DATA") \in Records
BY UnreadType DEF RecordTypes

(* open_source keeps the types; it does not touch the caller's record.     *)
LEMMA OpenSourceType ==
  ASSUME SourceTypeOK, OpenSource, rec' = rec
  PROVE  SourceTypeOK'
<1>1. opened' \in BOOLEAN /\ named' \in BOOLEAN /\ fault' \in BOOLEAN
  <2>1. CASE Rewind
    BY <2>1 DEF Rewind, SourceTypeOK
  <2>2. CASE OpenByName
    BY <2>2 DEF OpenByName, SourceTypeOK
  <2> QED
    BY <2>1, <2>2 DEF OpenSource
<1>2. pos' \in Nat \ {0} /\ high' \in Nat
  <2>1. CASE Rewind
    BY <2>1 DEF Rewind, OpenSource, SourceTypeOK
  <2>2. CASE OpenByName
    BY <2>2 DEF OpenByName, OpenSource, SourceTypeOK
  <2> QED
    BY <2>1, <2>2 DEF OpenSource
<1> QED
  BY <1>1, <1>2 DEF OpenSource, SourceTypeOK
-----------------------------------------------------------------------------
(* The two parts of a split record.                                        *)

LEMMA SplitTypes ==
  ASSUME TypeOK, ~FitsBlock(rec, bl), StartsInBlock
  PROVE  FilledBlock \in Block /\ RestOfRecord \in Seq(Byte)
<1>1. rec.data \in Seq(Byte) /\ rec.addr \in Nat
      /\ bl.start \in Nat /\ bl.end \in Nat /\ bl.buf \in Block
  BY DEF TypeOK, SourceTypeOK, Records
<1>2. BytesWritten \in 1 .. Len(rec.data) - 1
  BY <1>1 DEF BytesWritten, FitsBlock, StartsInBlock
<1>3. SubSeq(rec.data, 1, BytesWritten) \in Seq(Byte)
  BY <1>1, <1>2, SubSeqProperties
<1>4. FilledBlock \in Block
  <2>1. rec.addr - bl.start \in Int
    BY <1>1
  <2> QED
    BY <1>1, <1>3, <2>1, CopyIntoType DEF FilledBlock
<1>5. RestOfRecord \in Seq(Byte)
  BY <1>1, <1>2, SubSeqProperties DEF RestOfRecord
<1> QED
  BY <1>4, <1>5

(* What a flash command is about to produce is a memory.                   *)
LEMMA FlashAheadType ==
  ASSUME TypeOK
  PROVE  FlashAhead \in [Cells -> Byte]
<1>1. flash \in [Cells -> Byte] /\ bl.start \in Nat /\ bl.buf \in Block
  BY DEF TypeOK, FlashTypeOK
<1>2. Committed(eecon1, tblptr, BlankBlock) \in [Cells -> Byte]
  BY <1>1, BlankBlockType, CommittedType
<1>3. FlashWritten(bl.buf, bl.start) \in [Cells -> Byte]
  BY <1>1, FlashWrittenType
<1>4. ASSUME StartsInBlock, ~FitsBlock(rec, bl)
      PROVE  FlashWritten(FilledBlock, bl.start) \in [Cells -> Byte]
  BY <1>1, <1>4, SplitTypes, FlashWrittenType
<1> QED
  BY <1>1, <1>2, <1>3, <1>4 DEF FlashAhead

-----------------------------------------------------------------------------
(* Type correctness: in every state the variables have the types that      *)
(* TypeOK gives them; in particular every address is a natural number and  *)
(* data_buffer and the flash always hold bytes.                            *)
LEMMA TypeInit == Init => TypeOK
<1> SUFFICES ASSUME Init PROVE TypeOK
  OBVIOUS
<1>1. FlashTypeOK
  BY BootldrAssumption DEF Init, FlashTypeOK, ControlAfterReset
<1>2. SourceTypeOK
  <2>1. pos \in Nat \ {0} /\ high \in Nat /\ rec \in Records
    BY UnreadDataType DEF Init, SourceInit
  <2>2. file \in Files /\ mounted \in BOOLEAN /\ opened \in BOOLEAN
        /\ sspen \in BOOLEAN /\ named \in BOOLEAN /\ fault \in BOOLEAN
    BY DEF Init, SourceInit
  <2> QED
    BY <2>1, <2>2 DEF SourceTypeOK
<1>3. bl \in [start : Nat, end : Nat, buf : Block]
  BY BlockAtType, FlashAssumption DEF Init
<1> QED
  BY <1>1, <1>2, <1>3, BootldrAssumption DEF Init, TypeOK, Locations

LEMMA TypeStep == TypeOK /\ [Next]_vars => TypeOK'
<1> SUFFICES ASSUME TypeOK, [Next]_vars PROVE TypeOK'
  OBVIOUS
<1> USE DEF Locations
<1>0. CASE UNCHANGED vars
  BY <1>0 DEF TypeOK, FlashTypeOK, SourceTypeOK, vars, flashVars, sourceVars,
              Cells
<1>1. CASE EnterBootloader
  BY <1>1 DEF EnterBootloader, TypeOK, FlashTypeOK, SourceTypeOK, flashVars,
              sourceVars
<1>2. CASE EnterUserProgram
  BY <1>2 DEF EnterUserProgram, TypeOK, FlashTypeOK, SourceTypeOK, flashVars,
              sourceVars
<1>3. CASE Initialize
  BY <1>3 DEF Initialize, SdcardInitialize, TypeOK, FlashTypeOK, SourceTypeOK,
              flashVars
<1>4. CASE OpenForProgram
  <2>1. FlashTypeOK'
    BY <1>4, FlashAssumption
    DEF OpenForProgram, FlashEraseBegin, TypeOK, FlashTypeOK
  <2>2. SourceTypeOK'
    BY <1>4, OpenSourceType DEF OpenForProgram, TypeOK
  <2> QED
    BY <1>4, <2>1, <2>2 DEF OpenForProgram, TypeOK
<1>5. CASE ErasePage
  <2>1. flash' \in [Cells -> Byte]
    BY <1>5, BlankBlockType, CommittedType
    DEF ErasePage, FlashErasePage, TypeOK, FlashTypeOK
  <2>2. eecon1' \in [wren : BOOLEAN, free : BOOLEAN] /\ tblptr' \in Nat
    <3>1. eecon1' = ControlAfterCommit(eecon1)
      BY <1>5 DEF ErasePage, FlashErasePage
    <3>2. tblptr' = tblptr + EraseSize
      BY <1>5 DEF ErasePage, FlashErasePage
    <3>3. tblptr' \in Nat
      BY <3>2, FlashAssumption DEF TypeOK, FlashTypeOK
    <3>4. eecon1' \in [wren : BOOLEAN, free : BOOLEAN]
      BY <3>1, Zenon DEF TypeOK, FlashTypeOK, ControlAfterCommit
    <3> QED
      BY <3>3, <3>4
  <2> QED
    BY <1>5, <2>1, <2>2
    DEF ErasePage, TypeOK, FlashTypeOK, SourceTypeOK, sourceVars
<1>6. CASE BeginProgram
  <2>1. SourceTypeOK'
    BY <1>6, UnreadType, ReadRecordType DEF BeginProgram, TypeOK
  <2>2. FlashTypeOK'
    BY <1>6 DEF BeginProgram, FlashEraseEnd, TypeOK, FlashTypeOK
  <2>3. bl' \in [start : Nat, end : Nat, buf : Block]
    BY <1>6, BlockAtType, FlashAssumption DEF BeginProgram
  <2> QED
    BY <1>6, <2>1, <2>2, <2>3 DEF BeginProgram, TypeOK
<1>7. CASE BufferRecord
  <2>1. SourceTypeOK'
    BY <1>7, ReadRecordType DEF BufferRecord, TypeOK, SourceTypeOK
  <2>2. CopyInto(bl.buf, rec.addr - bl.start, rec.data) \in Block
    BY CopyIntoType DEF TypeOK, SourceTypeOK, Records
  <2>3. bl' \in [start : Nat, end : Nat, buf : Block]
    BY <1>7, <2>2 DEF BufferRecord, TypeOK
  <2> QED
    BY <1>7, <2>1, <2>3 DEF BufferRecord, TypeOK, FlashTypeOK, flashVars
<1>8. CASE CopyOutOfBounds
  BY <1>8 DEF CopyOutOfBounds, TypeOK, FlashTypeOK, SourceTypeOK, flashVars,
              sourceVars
<1>9. CASE SplitRecord
  <2>1. SourceTypeOK'
    BY <1>9, ReadRecordType DEF SplitRecord, TypeOK, SourceTypeOK
  <2>2. FilledBlock \in Block /\ RestOfRecord \in Seq(Byte)
    BY <1>9, SplitTypes DEF SplitRecord
  <2>3. FlashTypeOK'
    BY <1>9, <2>2, FlashWriteType DEF SplitRecord, TypeOK
  <2>4. NextBlock(bl) \in [start : Nat, end : Nat, buf : Block]
    BY BlockAtType, FlashAssumption DEF NextBlock, TypeOK
  <2>5. CopyInto(NextBlock(bl).buf, 0, RestOfRecord) \in Block
    BY <2>2, <2>4, CopyIntoType
  <2>6. bl' \in [start : Nat, end : Nat, buf : Block]
    BY <1>9, <2>4, <2>5 DEF SplitRecord
  <2> QED
    BY <1>9, <2>1, <2>3, <2>6 DEF SplitRecord, TypeOK
<1>10. CASE FlushBlock
  <2>1. FlashTypeOK'
    BY <1>10, FlashWriteType DEF FlushBlock, TypeOK
  <2>2. bl' \in [start : Nat, end : Nat, buf : Block]
    BY <1>10, AlignBounds, BlockAtType, FlashAssumption
    DEF FlushBlock, BlockOf, TypeOK, SourceTypeOK, Records
  <2> QED
    BY <1>10, <2>1, <2>2 DEF FlushBlock, TypeOK, SourceTypeOK, sourceVars
<1>11. CASE PastEnd
  <2>1. FlashTypeOK'
    BY <1>11, FlashWriteType DEF PastEnd, TypeOK
  <2>2. bl' \in [start : Nat, end : Nat, buf : Block]
    BY <1>11, BlankBlockType DEF PastEnd, TypeOK
  <2> QED
    BY <1>11, <2>1, <2>2 DEF PastEnd, TypeOK, SourceTypeOK, sourceVars
<1>12. CASE SkipRecord
  <2>1. SourceTypeOK'
    BY <1>12, ReadRecordType DEF SkipRecord, TypeOK, SourceTypeOK
  <2> QED
    BY <1>12, <2>1 DEF SkipRecord, TypeOK, FlashTypeOK, flashVars
<1>13. CASE FlushLast
  <2>1. FlashTypeOK'
    BY <1>13, FlashWriteType DEF FlushLast, TypeOK
  <2> QED
    BY <1>13, <2>1 DEF FlushLast, TypeOK, SourceTypeOK, sourceVars
<1>14. CASE OpenForVerify
  <2>1. SourceTypeOK'
    BY <1>14, OpenSourceType DEF OpenForVerify, TypeOK
  <2> QED
    BY <1>14, <2>1 DEF OpenForVerify, TypeOK, FlashTypeOK, flashVars
<1>15. CASE BeginVerify
  <2>1. SourceTypeOK'
    BY <1>15, UnreadType, ReadRecordType DEF BeginVerify, TypeOK
  <2> QED
    BY <1>15, <2>1 DEF BeginVerify, TypeOK, FlashTypeOK, flashVars
<1>16. CASE VerifyMatch
  <2>1. SourceTypeOK'
    BY <1>16, ReadRecordType DEF VerifyMatch, TypeOK, SourceTypeOK
  <2>2. tblptr' \in Nat
    BY <1>16
    DEF VerifyMatch, TblptrAfterRead, TypeOK, SourceTypeOK, Records
  <2> QED
    BY <1>16, <2>1, <2>2 DEF VerifyMatch, TypeOK, FlashTypeOK
<1>17. CASE VerifySkip
  <2>1. SourceTypeOK'
    BY <1>17, ReadRecordType DEF VerifySkip, TypeOK, SourceTypeOK
  <2> QED
    BY <1>17, <2>1 DEF VerifySkip, TypeOK, FlashTypeOK, flashVars
<1>18. CASE VerifyMismatch
  <2>1. tblptr' \in Nat
    BY <1>18
    DEF VerifyMismatch, TblptrAfterRead, TypeOK, SourceTypeOK, Records
  <2> QED
    BY <1>18, <2>1
    DEF VerifyMismatch, SdcardDispose, TypeOK, FlashTypeOK, SourceTypeOK
<1>19. CASE VerifyDone
  BY <1>19
  DEF VerifyDone, SdcardDispose, TypeOK, FlashTypeOK, SourceTypeOK, flashVars
<1>20. CASE PowerLoss
  <2>1. flash' \in [Cells -> Byte]
    BY <1>20, FlashAheadType DEF PowerLoss, Torn, TypeOK, FlashTypeOK
  <2>2. FlashTypeOK'
    BY <1>20, <2>1 DEF PowerLoss, FlashTypeOK, ControlAfterReset
  <2>3. SourceTypeOK'
    <3>1. pos' \in Nat \ {0} /\ high' \in Nat /\ rec' \in Records
      BY <1>20, UnreadDataType DEF PowerLoss, SourceReset
    <3>2. file' \in Files /\ mounted' \in BOOLEAN /\ opened' \in BOOLEAN
          /\ sspen' \in BOOLEAN /\ named' \in BOOLEAN /\ fault' \in BOOLEAN
      BY <1>20 DEF PowerLoss, SourceReset
    <3> QED
      BY <3>1, <3>2 DEF SourceTypeOK
  <2>4. bl' \in [start : Nat, end : Nat, buf : Block]
    BY <1>20, BlockAtType, FlashAssumption DEF PowerLoss
  <2>5. resets' \in 0 .. MaxResets
    BY <1>20, BootldrAssumption DEF PowerLoss, TypeOK
  <2> QED
    BY <1>20, <2>2, <2>3, <2>4, <2>5 DEF PowerLoss, TypeOK
<1>21. CASE OpenForProgramHangs
  BY <1>21
  DEF OpenForProgramHangs, OpenHangs, TypeOK, Locations, FlashTypeOK,
      SourceTypeOK, flashVars
<1> QED
  BY <1>0, <1>1, <1>2, <1>3, <1>4, <1>5, <1>6, <1>7, <1>8, <1>9, <1>10,
     <1>11, <1>12, <1>13, <1>14, <1>15, <1>16, <1>17, <1>18, <1>19, <1>20,
     <1>21
  DEF Next, Step, Programming, Verifying, Spin

THEOREM TypeCorrect == Spec => []TypeOK
BY TypeInit, TypeStep, PTL DEF Spec
-----------------------------------------------------------------------------
(* The bootloader area is never changed.                                   *)

(* A flash command with TBLPTR in the user area changes nothing below it:  *)
(* the user area begins on a border of blocks and of pages.                *)
LEMMA CommittedKeepsBoot ==
  ASSUME flash \in [Cells -> Byte], NEW ee, NEW holding,
         NEW ptr \in Nat, ptr >= UserStart,
         NEW a \in Cells, a < UserStart
  PROVE  Committed(ee, ptr, holding)[a] = flash[a]
<1>1. a \in Nat
  BY FlashAssumption DEF Cells
<1>2. AlignDown(ptr, BlockSize) >= UserStart
      /\ AlignDown(ptr, EraseSize) >= UserStart
  BY AlignAbove, FlashAssumption
<1>3. AlignDown(a, BlockSize) <= a /\ AlignDown(a, EraseSize) <= a
      /\ AlignDown(a, BlockSize) \in Nat /\ AlignDown(a, EraseSize) \in Nat
  BY <1>1, AlignBounds, FlashAssumption
<1>4. AlignDown(ptr, BlockSize) \in Nat /\ AlignDown(ptr, EraseSize) \in Nat
  BY AlignBounds, FlashAssumption
<1>5. ~SameBlock(a, ptr) /\ ~SamePage(a, ptr)
  BY <1>1, <1>2, <1>3, <1>4, FlashAssumption DEF SameBlock, SamePage
<1> QED
  BY <1>5 DEF Committed

LEMMA FlashWrittenKeepsBoot ==
  ASSUME flash \in [Cells -> Byte], NEW buffer,
         NEW address \in Nat, address >= UserStart,
         NEW a \in Cells, a < UserStart
  PROVE  FlashWritten(buffer, address)[a] = flash[a]
<1>1. WritePointer(address) \in Nat /\ WritePointer(address) >= UserStart
  BY FlashAssumption DEF WritePointer
<1> QED
  BY <1>1, CommittedKeepsBoot DEF FlashWritten

LEMMA FlashAheadKeepsBoot ==
  ASSUME TypeOK, BlockInv, NEW a \in Cells, a < UserStart
  PROVE  FlashAhead[a] = flash[a]
<1>1. flash \in [Cells -> Byte] /\ bl.start \in Nat /\ tblptr \in Nat
  BY DEF TypeOK, FlashTypeOK
<1>2. ASSUME NEW buffer
      PROVE  FlashWritten(buffer, bl.start)[a] = flash[a]
  BY <1>1, FlashWrittenKeepsBoot DEF BlockInv
<1>3. pc = "erase" => Committed(eecon1, tblptr, BlankBlock)[a] = flash[a]
  BY <1>1, CommittedKeepsBoot DEF BlockInv
<1> QED
  BY <1>2, <1>3 DEF FlashAhead

LEMMA BlockAtInv ==
  ASSUME NEW s \in Nat, s % BlockSize = 0, s >= UserStart, bl' = BlockAt(s)
  PROVE  /\ bl'.start % BlockSize = 0
         /\ bl'.start >= UserStart
         /\ bl'.end = bl'.start + BlockSize
BY DEF BlockAt

LEMMA BlockInit == Init => BlockInv
BY FlashAssumption DEF Init, BlockInv, BlockAt

LEMMA BlockStep == TypeOK /\ BlockInv /\ [Next]_vars => BlockInv'
<1> SUFFICES ASSUME TypeOK, BlockInv, [Next]_vars PROVE BlockInv'
  OBVIOUS
<1>a. bl.start \in Nat /\ bl.end \in Nat /\ rec.addr \in Nat /\ tblptr \in Nat
  BY DEF TypeOK, FlashTypeOK, SourceTypeOK, Records
<1>0. CASE UNCHANGED vars
  BY <1>0 DEF BlockInv, vars, flashVars
<1>1. CASE OpenForProgram
  BY <1>1, FlashAssumption DEF OpenForProgram, FlashEraseBegin, BlockInv
<1>2. CASE ErasePage
  BY <1>2, <1>a, FlashAssumption DEF ErasePage, FlashErasePage, BlockInv
<1>3. CASE BeginProgram
  BY <1>3, BlockAtInv, FlashAssumption DEF BeginProgram, BlockInv
<1>4. CASE BufferRecord
  BY <1>4 DEF BufferRecord, BlockInv, TypeOK
<1>5. CASE SplitRecord
  <2>1. bl'.start = bl.start + BlockSize
        /\ bl'.end = bl.start + BlockSize + BlockSize
    BY <1>5 DEF SplitRecord, NextBlock, BlockAt
  <2>2. (bl.start + BlockSize) % BlockSize = 0
    BY <1>a, NextAligned, FlashAssumption DEF BlockInv
  <2> QED
    BY <1>5, <1>a, <2>1, <2>2, FlashAssumption DEF SplitRecord, BlockInv
<1>6. CASE FlushBlock
  <2> DEFINE s == AlignDown(rec.addr, BlockSize)
  <2>1. s \in Nat /\ s % BlockSize = 0
    BY <1>a, AlignBounds, AlignAligned, FlashAssumption
  <2>2. s >= UserStart
    BY <1>6, <1>a, AlignAbove, FlashAssumption
    DEF FlushBlock, Programmable, InUserArea
  <2>3. bl' = BlockAt(s)
    BY <1>6 DEF FlushBlock, BlockOf
  <2> QED
    BY <1>6, <2>1, <2>2, <2>3, BlockAtInv DEF FlushBlock, BlockInv
<1>7. CASE PastEnd
  BY <1>7 DEF PastEnd, BlockInv, TypeOK
<1>8. CASE PowerLoss
  BY <1>8, BlockAtInv, FlashAssumption DEF PowerLoss, BlockInv
<1>9. CASE bl' = bl /\ pc' # "erase"
  BY <1>9 DEF BlockInv
<1> QED
  BY <1>0, <1>1, <1>2, <1>3, <1>4, <1>5, <1>6, <1>7, <1>8, <1>9
  DEF Next, Step, Programming, Verifying, Spin, EnterBootloader,
      EnterUserProgram, OpenForProgramHangs, Initialize, CopyOutOfBounds,
      SkipRecord, FlushLast, OpenForVerify, BeginVerify, VerifyMatch,
      VerifySkip, VerifyMismatch, VerifyDone

LEMMA BootAreaStep ==
  ASSUME TypeOK, BlockInv, [Next]_vars, NEW a \in Cells, a < UserStart
  PROVE  flash'[a] = flash[a]
<1>1. flash \in [Cells -> Byte] /\ bl.start \in Nat /\ tblptr \in Nat
  BY DEF TypeOK, FlashTypeOK
<1>2. ASSUME NEW buffer, FlashWrite(buffer, bl.start)
      PROVE  flash'[a] = flash[a]
  BY <1>1, <1>2, FlashWrittenKeepsBoot DEF FlashWrite, BlockInv
<1>3. CASE ErasePage
  BY <1>1, <1>3, CommittedKeepsBoot DEF ErasePage, FlashErasePage, BlockInv
<1>4. CASE SplitRecord
  BY <1>2, <1>4 DEF SplitRecord
<1>5. CASE FlushBlock
  BY <1>2, <1>5 DEF FlushBlock
<1>6. CASE PastEnd
  BY <1>2, <1>6 DEF PastEnd
<1>7. CASE FlushLast
  BY <1>2, <1>7 DEF FlushLast
<1>8. CASE PowerLoss
  <2>1. PICK done : flash' = Torn(done)
    BY <1>8 DEF PowerLoss
  <2> QED
    BY <2>1, FlashAheadKeepsBoot DEF Torn
<1>9. CASE flash' = flash
  BY <1>9
<1> QED
  BY <1>3, <1>4, <1>5, <1>6, <1>7, <1>8, <1>9
  DEF Next, Step, Programming, Verifying, Spin, vars, flashVars,
      EnterBootloader, EnterUserProgram, OpenForProgramHangs, Initialize,
      OpenForProgram, FlashEraseBegin, BeginProgram, FlashEraseEnd,
      BufferRecord, CopyOutOfBounds, SkipRecord, OpenForVerify, BeginVerify,
      VerifyMatch, VerifySkip, VerifyMismatch, VerifyDone

(* No step of the bootloader, and no loss of power in the middle of one,   *)
(* changes a byte below USER_PROGRAM_START_ADDRESS.                        *)
THEOREM BootAreaSafe == Spec => BootAreaKept
<1>1. TypeOK /\ BlockInv /\ [Next]_vars
        => [\A a \in Cells : a < UserStart => flash'[a] = flash[a]]_vars
  BY BootAreaStep
<1> QED
  BY <1>1, TypeInit, TypeStep, BlockInit, BlockStep, PTL
  DEF Spec, BootAreaKept
-----------------------------------------------------------------------------
(* The high address that a file gives to its lines is the one the reader   *)
(* has in currentHighAddress when it gets there.                           *)

LEMMA LatestElaUnique ==
  ASSUME NEW f, NEW i \in Nat, NEW j, NEW k,
         IsLatestEla(f, i, j), IsLatestEla(f, i, k)
  PROVE  j = k
BY DEF IsLatestEla

LEMMA HighAtEla ==
  ASSUME NEW f, NEW i \in Nat, NEW j, IsLatestEla(f, i, j)
  PROVE  HighAt(f, i) = HighAddress(f[j])
<1> DEFINE c == CHOOSE k \in 1 .. i - 1 : IsLatestEla(f, i, k)
<1>1. j \in 1 .. i - 1
  BY DEF IsLatestEla
<1>2. IsLatestEla(f, i, c)
  BY <1>1
<1>3. c = j
  BY <1>2, LatestElaUnique
<1> QED
  BY <1>1, <1>3 DEF HighAt

LEMMA HighAtFirst == ASSUME NEW f PROVE HighAt(f, 1) = 0
BY DEF HighAt

LEMMA HighAtNext ==
  ASSUME NEW f, NEW i \in Nat \ {0}
  PROVE  HighAt(f, i + 1) =
           IF f[i].type = "ELA" THEN HighAddress(f[i]) ELSE HighAt(f, i)
<1>1. CASE f[i].type = "ELA"
  <2>1. IsLatestEla(f, i + 1, i)
    BY <1>1 DEF IsLatestEla
  <2> QED
    BY <1>1, <2>1, HighAtEla
<1>2. CASE f[i].type # "ELA"
  <2>1. ASSUME NEW j \in Int
        PROVE  IsLatestEla(f, i + 1, j) <=> IsLatestEla(f, i, j)
    BY <1>2 DEF IsLatestEla
  <2>2. CASE \E j \in 1 .. i - 1 : IsLatestEla(f, i, j)
    <3>1. PICK j \in 1 .. i - 1 : IsLatestEla(f, i, j)
      BY <2>2
    <3>2. IsLatestEla(f, i + 1, j)
      BY <2>1, <3>1
    <3>3. HighAt(f, i + 1) = HighAddress(f[j])
      BY <3>2, HighAtEla
    <3>4. HighAt(f, i) = HighAddress(f[j])
      BY <3>1, HighAtEla
    <3> QED
      BY <1>2, <3>3, <3>4
  <2>3. CASE ~ \E j \in 1 .. i - 1 : IsLatestEla(f, i, j)
    <3>1. HighAt(f, i) = 0
      BY <2>3 DEF HighAt
    <3>2. ~ \E j \in 1 .. (i + 1) - 1 : IsLatestEla(f, i + 1, j)
      <4>1. SUFFICES ASSUME NEW j \in 1 .. (i + 1) - 1,
                            IsLatestEla(f, i + 1, j)
                     PROVE  FALSE
        OBVIOUS
      <4>2. IsLatestEla(f, i, j)
        BY <2>1, <4>1
      <4> QED
        BY <2>3, <4>2 DEF IsLatestEla
    <3>3. HighAt(f, i + 1) = 0
      BY <3>2 DEF HighAt
    <3> QED
      BY <1>2, <3>1, <3>3
  <2> QED
    BY <2>2, <2>3
<1> QED
  BY <1>1, <1>2

-----------------------------------------------------------------------------
(* The copy into data_buffer stays in bounds.                              *)

(* A record that is a data line of the file, in the terms of the file.     *)
LEMMA RecInFile ==
  ASSUME TypeOK, LoopInv, RecIsLine
  PROVE  /\ pos - 1 \in DataLines(file)
         /\ EndOf(file, pos - 1) = rec.addr + Len(rec.data)
BY DEF LoopInv, RecIsLine, DataLines, EndOf

(* The addresses of the lines of a file are numbers.                       *)
LEMMA AddrType ==
  ASSUME NEW f \in Seq(Lines), NEW i \in 1 .. Len(f)
  PROVE  AddrOf(f, i) \in Nat /\ EndOf(f, i) \in Nat /\ Len(f[i].data) \in Nat
<1>1. f[i] \in Lines
  OBVIOUS
<1>2. f[i].off \in Nat /\ Len(f[i].data) \in Nat
  BY <1>1 DEF Lines
<1>3. HighAt(f, i) \in Nat
  <2>1. CASE \E j \in 1 .. i - 1 : IsLatestEla(f, i, j)
    <3>1. PICK j \in 1 .. i - 1 : IsLatestEla(f, i, j)
      BY <2>1
    <3>2. f[j] \in Lines
      OBVIOUS
    <3> QED
      BY <3>1, <3>2, HighAtEla, HighAddressType
  <2>2. CASE ~ \E j \in 1 .. i - 1 : IsLatestEla(f, i, j)
    BY <2>2 DEF HighAt
  <2> QED
    BY <2>1, <2>2
<1> QED
  BY <1>2, <1>3 DEF AddrOf, EndOf

(* Reading on from a record keeps LoopInv if the new start of the block is *)
(* not above any in-range record still to come, and a line without a colon *)
(* would leave a ghost where it does no harm.                              *)
LEMMA ReadKeepsLoop ==
  ASSUME TypeOK, NEW old \in Records, ReadRecord(old), rec'.type # "EOF",
         pos \in Nat \ {0}, file' = file,
         CanRead => high = HighAt(file, pos),
         \A j \in 1 .. pos - 1 : file[j].type # "EOF",
         bl'.end \in Nat,
         old.type = "DATA" =>
           high < UserStart \/ (high < bl'.end /\ high < UserEnd),
         Ascending(file) =>
           \A i \in DataLines(file) :
             i >= pos /\ InUserArea(AddrOf(file, i))
               => AddrOf(file, i) >= bl'.start
  PROVE  LoopInv'
<1>0. ReadLine(old)
  BY DEF ReadRecord, ReadNothing, ReadFails, EndOfFile, Records
<1>1. pos \in 1 .. Len(file) /\ pos' = pos + 1 /\ file \in Seq(Lines)
  BY <1>0, FileType DEF ReadLine, CanRead, TypeOK, SourceTypeOK
<1>2. file[pos] \in Lines /\ high \in Nat
  BY <1>1 DEF TypeOK, SourceTypeOK
<1>3. rec' = Parsed(file[pos], old) /\ high' = HighAfter(file[pos])
      /\ high = HighAt(file, pos)
  BY <1>0 DEF ReadLine
<1>4. (pos - 1 \in 1 .. Len(file))'
  BY <1>1
<1>5. (high = HighAt(file, pos))'
  <2>1. high' = IF file[pos].type = "ELA"
                  THEN HighAddress(file[pos]) ELSE HighAt(file, pos)
    BY <1>3 DEF HighAfter
  <2>2. HighAt(file, pos + 1) = high'
    BY <1>1, <2>1, HighAtNext
  <2> QED
    BY <1>1, <2>2
<1>6. file[pos].type # "EOF"
  BY <1>3 DEF Parsed
<1>7. (\A j \in 1 .. pos - 1 : file[j].type # "EOF")'
  BY <1>1, <1>6
<1>8. ASSUME rec'.type = "DATA"
      PROVE  (high <= rec.addr /\ (RecIsLine \/ RecIsGhost))'
  <2>1. CASE file[pos].type = "JUNK"
    <3>1. rec'.addr = high /\ rec'.data = <<>> /\ old.type = "DATA"
      BY <1>3, <1>8, <2>1 DEF Parsed
    <3>2. high' = high
      BY <1>3, <2>1 DEF HighAfter
    <3>3. RecIsGhost'
      BY <3>1 DEF RecIsGhost
    <3> QED
      BY <1>2, <3>1, <3>2, <3>3
  <2>2. CASE file[pos].type # "JUNK"
    <3>1. rec'.addr = high + file[pos].off /\ rec'.data = file[pos].data
          /\ file[pos].type = "DATA"
      BY <1>3, <1>8, <2>2 DEF Parsed
    <3>2. high' = high
      BY <1>3, <3>1 DEF HighAfter
    <3>3. rec'.addr = AddrOf(file, pos)
      BY <1>3, <3>1 DEF AddrOf
    <3>4. pos' - 1 = pos
      BY <1>1
    <3>5. RecIsLine'
      BY <3>1, <3>3, <3>4 DEF RecIsLine
    <3>6. high' <= rec'.addr
      BY <1>2, <3>1, <3>2 DEF Lines
    <3> QED
      BY <3>5, <3>6
  <2> QED
    BY <2>1, <2>2
<1>9. (Ascending(file) =>
         \A i \in DataLines(file) :
           i >= pos - 1 /\ InUserArea(AddrOf(file, i))
             => AddrOf(file, i) >= bl.start)'
  BY <1>1
<1> QED
  BY <1>4, <1>5, <1>7, <1>8, <1>9 DEF LoopInv

LEMMA OrderInit == Init => OrderInv
BY DEF Init, OrderInv, CopyInBounds

LEMMA OrderStep == TypeOK /\ BlockInv /\ OrderInv /\ [Next]_vars => OrderInv'
<1> SUFFICES ASSUME TypeOK, BlockInv, OrderInv, [Next]_vars PROVE OrderInv'
  OBVIOUS
<1>a. /\ bl.start \in Nat /\ bl.end \in Nat /\ bl.end = bl.start + BlockSize
      /\ bl.start >= UserStart
      /\ rec \in Records /\ rec.addr \in Nat /\ rec.data \in Seq(Byte)
      /\ Len(rec.data) \in Nat
      /\ pos \in Nat \ {0} /\ high \in Nat
      /\ file \in Seq(Lines)
  BY FileType DEF TypeOK, BlockInv, SourceTypeOK, Records
<1>0. CASE UNCHANGED vars
  BY <1>0
  DEF OrderInv, CopyInBounds, LoopInv, RecIsLine, RecIsGhost, vars, flashVars,
      sourceVars
<1>1. CASE OpenForProgram
  <2>1. mounted' /\ opened' => pos' = 1 /\ high' = 0
    BY <1>1 DEF OpenForProgram, OpenSource, Rewind, OpenByName
  <2> QED
    BY <1>1, <2>1 DEF OpenForProgram, OrderInv, CopyInBounds
<1>2. CASE ErasePage
  BY <1>2 DEF ErasePage, OrderInv, CopyInBounds, sourceVars
<1>3. CASE BeginProgram
  <2>1. PICK t \in RecordTypes : ReadRecord(Unread(t))
    BY <1>3 DEF BeginProgram
  <2>2. bl' = BlockAt(UserStart) /\ file' = file
    BY <1>3, <2>1 DEF BeginProgram, ReadRecord
  <2>3. bl'.end \in Nat /\ bl'.end > 0 /\ bl'.start = UserStart
    BY <2>2, FlashAssumption DEF BlockAt
  <2>4. ASSUME rec'.type # "EOF" PROVE LoopInv'
    <3>1. CanRead
      BY <2>1, <2>4
      DEF ReadRecord, ReadNothing, EndOfFile, Unread, ReadFails, ReadLine
    <3>2. pos = 1 /\ high = 0
      BY <1>3, <3>1 DEF BeginProgram, CanRead, OrderInv
    <3>3. \A i \in DataLines(file) :
            InUserArea(AddrOf(file, i)) => AddrOf(file, i) >= bl'.start
      BY <2>3 DEF InUserArea
    <3>4. high = HighAt(file, pos)
      BY <3>2, HighAtFirst
    <3> QED
      BY <1>a, <2>1, <2>2, <2>3, <2>4, <3>2, <3>3, <3>4, UnreadType,
         ReadKeepsLoop, FlashAssumption, BootldrAssumption
  <2> QED
    BY <1>3, <2>4 DEF BeginProgram, OrderInv, CopyInBounds
<1>4. CASE BufferRecord
  <2>1. pc = "program" /\ rec.type = "DATA" /\ rec.addr < bl.end /\ LoopInv
        /\ rec.addr < UserEnd
    BY <1>4
    DEF BufferRecord, Programmable, StartsInBlock, InUserArea, OrderInv
  <2>2. bl'.start = bl.start /\ bl'.end = bl.end /\ file' = file
    BY <1>4 DEF BufferRecord, ReadRecord, TypeOK
  <2>3. ASSUME rec'.type # "EOF" PROVE LoopInv'
    <3>1. high < bl'.end /\ high < UserEnd
      BY <1>a, <2>1, <2>2, BootldrAssumption DEF LoopInv
    <3>2. Ascending(file) =>
            \A i \in DataLines(file) :
              i >= pos /\ InUserArea(AddrOf(file, i))
                => AddrOf(file, i) >= bl'.start
      BY <1>a, <2>1, <2>2 DEF LoopInv, DataLines
    <3> QED
      BY <1>4, <1>a, <2>1, <2>2, <2>3, <3>1, <3>2, ReadKeepsLoop
      DEF BufferRecord, LoopInv
  <2> QED
    BY <1>4, <2>1, <2>3 DEF BufferRecord, OrderInv, CopyInBounds
<1>5. CASE SplitRecord
  <2>1. pc = "program" /\ rec.type = "DATA" /\ rec.addr < bl.end /\ LoopInv
        /\ rec.addr + Len(rec.data) > bl.end /\ rec.addr < UserEnd
    BY <1>5, <1>a
    DEF SplitRecord, Programmable, StartsInBlock, FitsBlock, InUserArea,
        OrderInv
  <2>2. bl'.start = bl.end /\ bl'.end = bl.end + BlockSize /\ file' = file
    BY <1>5, <1>a DEF SplitRecord, NextBlock, BlockAt, ReadRecord
  <2>3. RecIsLine
    BY <1>a, <2>1 DEF LoopInv, RecIsGhost
  <2>4. ASSUME rec'.type # "EOF" PROVE LoopInv'
    <3>1. high < bl'.end /\ high < UserEnd
      <4>1. high <= rec.addr
        BY <2>1 DEF LoopInv
      <4> QED
        BY <1>a, <2>1, <2>2, <4>1, FlashAssumption, BootldrAssumption
    <3>2. ASSUME Ascending(file), NEW i \in DataLines(file), i >= pos
          PROVE  AddrOf(file, i) >= bl'.start
      <4>1. pos - 1 \in DataLines(file)
            /\ EndOf(file, pos - 1) = rec.addr + Len(rec.data)
        BY <2>1, <2>3, RecInFile
      <4>2. EndOf(file, pos - 1) <= AddrOf(file, i)
        <5>1. pos - 1 < i
          BY <1>a, <3>2 DEF DataLines
        <5> QED
          BY <3>2, <4>1, <5>1 DEF Ascending
      <4>3. AddrOf(file, i) \in Nat
        BY <1>a, AddrType DEF DataLines
      <4> QED
        BY <1>a, <2>1, <2>2, <4>1, <4>2, <4>3
    <3>3. bl'.end \in Nat
      BY <1>a, <2>2, FlashAssumption
    <3> QED
      BY <1>5, <1>a, <2>1, <2>2, <2>4, <3>1, <3>2, <3>3, ReadKeepsLoop
      DEF SplitRecord, LoopInv
  <2> QED
    BY <1>5, <2>1, <2>4 DEF SplitRecord, OrderInv, CopyInBounds
<1>6. CASE FlushBlock
  <2>1. pc = "program" /\ rec.type = "DATA" /\ rec.addr >= bl.end /\ LoopInv
        /\ rec.addr >= UserStart
    BY <1>6, <1>a
    DEF FlushBlock, Programmable, StartsInBlock, InUserArea, OrderInv
  <2>2. bl'.start <= rec.addr /\ bl'.start \in Nat
    BY <1>6, <1>a, AlignBounds, FlashAssumption
    DEF FlushBlock, BlockOf, BlockAt
  <2>3. RecIsLine
    BY <1>a, <2>1, FlashAssumption DEF LoopInv, RecIsGhost
  <2>4. UNCHANGED sourceVars /\ pc' = pc
    BY <1>6 DEF FlushBlock
  <2>5. ASSUME Ascending(file), NEW i \in DataLines(file), i >= pos - 1
        PROVE  AddrOf(file, i) >= bl'.start
    <3>1. pos - 1 \in DataLines(file)
          /\ EndOf(file, pos - 1) = rec.addr + Len(rec.data)
      BY <2>1, <2>3, RecInFile
    <3>2. AddrOf(file, i) \in Nat /\ i \in Nat
      BY <1>a, AddrType DEF DataLines
    <3>3. CASE i = pos - 1
      BY <1>a, <2>2, <2>3, <3>3 DEF RecIsLine
    <3>4. CASE i # pos - 1
      <4>1. EndOf(file, pos - 1) <= AddrOf(file, i)
        BY <1>a, <2>5, <3>1, <3>2, <3>4 DEF Ascending
      <4> QED
        BY <1>a, <2>2, <3>1, <3>2, <4>1
    <3> QED
      BY <3>3, <3>4
  <2>6. RecIsLine'
    BY <2>3, <2>4 DEF RecIsLine, sourceVars
  <2>7. LoopInv'
    BY <2>1, <2>4, <2>5, <2>6 DEF LoopInv, sourceVars
  <2> QED
    BY <2>1, <2>4, <2>7 DEF OrderInv, CopyInBounds
<1>7. CASE PastEnd
  BY <1>7 DEF PastEnd, OrderInv, CopyInBounds
<1>8. CASE SkipRecord
  <2>1. pc = "program" /\ rec.type # "EOF" /\ LoopInv
    BY <1>8 DEF SkipRecord, OrderInv
  <2>2. rec.type = "DATA" => rec.addr < UserStart
    BY <1>8, <1>a, FlashAssumption, BootldrAssumption
    DEF SkipRecord, Programmable, InUserArea, PassesEnd
  <2>3. bl' = bl /\ file' = file
    BY <1>8 DEF SkipRecord, ReadRecord
  <2>4. ASSUME rec'.type # "EOF" PROVE LoopInv'
    <3>1. rec.type = "DATA" => high < UserStart
      BY <1>a, <2>1, <2>2, FlashAssumption DEF LoopInv
    <3>2. Ascending(file) =>
            \A i \in DataLines(file) :
              i >= pos /\ InUserArea(AddrOf(file, i))
                => AddrOf(file, i) >= bl'.start
      BY <1>a, <2>1, <2>3 DEF LoopInv, DataLines
    <3> QED
      BY <1>8, <1>a, <2>1, <2>3, <2>4, <3>1, <3>2, ReadKeepsLoop
      DEF SkipRecord, LoopInv
  <2> QED
    BY <1>8, <2>1, <2>4 DEF SkipRecord, OrderInv, CopyInBounds
<1>9. CASE CopyOutOfBounds
  <2>1. LoopInv /\ rec.type = "DATA" /\ InUserArea(rec.addr)
        /\ Len(rec.data) # 0 /\ rec.addr < bl.start
    BY <1>9, <1>a
    DEF CopyOutOfBounds, Programmable, CopyIsInside, OrderInv
  <2>2. RecIsLine
    BY <2>1 DEF LoopInv, RecIsGhost
  <2>3. pos - 1 \in DataLines(file) /\ AddrOf(file, pos - 1) = rec.addr
    BY <2>1, <2>2, RecInFile DEF RecIsLine
  <2>4. ~Ascending(file)
    BY <1>a, <2>1, <2>3 DEF LoopInv
  <2> QED
    BY <1>9, <2>4 DEF CopyOutOfBounds, OrderInv, CopyInBounds, sourceVars
<1>10. CASE pc' \notin {"erase", "program", "undefined"}
  BY <1>10 DEF OrderInv, CopyInBounds
<1> QED
  BY <1>0, <1>1, <1>2, <1>3, <1>4, <1>5, <1>6, <1>7, <1>8, <1>9, <1>10
  DEF Next, Step, Programming, Verifying, Spin, EnterBootloader,
      EnterUserProgram, OpenForProgramHangs, Initialize, FlushLast,
      OpenForVerify, BeginVerify, VerifyMatch, VerifySkip, VerifyMismatch,
      VerifyDone, PowerLoss

(* A copy leaves data_buffer only for a file whose records are not in      *)
(* ascending order, whatever else the file holds and wherever its transfer *)
(* fails.                                                                  *)
THEOREM CopySafe == Spec => []CopyInBounds
<1>1. OrderInv => CopyInBounds
  BY DEF OrderInv
<1> QED
  BY <1>1, TypeInit, TypeStep, BlockInit, BlockStep, OrderInit, OrderStep, PTL
  DEF Spec

-----------------------------------------------------------------------------
(* While nothing has failed the file is open, at its first line when a     *)
(* loop begins.                                                            *)

(* read_record keeps the file open unless a transfer fails.                *)
LEMMA ReadKeepsOpen ==
  ASSUME NEW old, ReadRecord(old), ~fault', mounted, opened, named
  PROVE  mounted' /\ opened' /\ named'
<1>1. mounted' /\ named'
  BY DEF ReadRecord
<1>2. opened'
  BY DEF ReadRecord, ReadNothing, ReadFails, ReadLine
<1> QED
  BY <1>1, <1>2

LEMMA FaultStays ==
  ASSUME [Next]_vars, ~PowerLoss, ~fault'
  PROVE  ~fault
<1>1. ASSUME NEW old, ReadRecord(old) PROVE ~fault
  BY <1>1 DEF ReadRecord, ReadNothing, ReadFails, ReadLine
<1>2. ASSUME OpenSource PROVE ~fault
  BY <1>2 DEF OpenSource, Rewind, OpenByName
<1>3. ASSUME UNCHANGED fault PROVE ~fault
  BY <1>3
<1>4. ASSUME SdcardInitialize PROVE ~fault
  BY <1>4 DEF SdcardInitialize
<1>5. ASSUME OpenForProgramHangs PROVE ~fault
  BY <1>5 DEF OpenForProgramHangs, OpenHangs
<1> QED
  BY <1>1, <1>2, <1>3, <1>4, <1>5
  DEF Next, Step, Programming, Verifying, Spin, EnterBootloader,
      EnterUserProgram, OpenForProgramHangs, Initialize, OpenForProgram,
      ErasePage, BeginProgram, BufferRecord, CopyOutOfBounds, SplitRecord,
      FlushBlock, PastEnd, SkipRecord, FlushLast, OpenForVerify, BeginVerify,
      VerifyMatch, VerifySkip, VerifyMismatch, VerifyDone, SdcardDispose, vars,
      sourceVars

LEMMA FileInit == Init => FileInv
BY DEF Init, FileInv

LEMMA FileStep == TypeOK /\ FileInv /\ [Next]_vars => FileInv'
<1> SUFFICES ASSUME TypeOK, FileInv, [Next]_vars, ~fault'
             PROVE  FileInv'
  BY DEF FileInv
<1>0. CASE UNCHANGED vars
  BY <1>0 DEF FileInv, vars, sourceVars
<1>1. CASE PowerLoss
  BY <1>1 DEF PowerLoss, FileInv
<1>2. CASE Initialize
  BY <1>2 DEF Initialize, SdcardInitialize, FileInv
<1>a. ASSUME ~PowerLoss PROVE ~fault
  BY <1>a, FaultStays
<1>3. CASE OpenForProgram
  <2>1. ~fault /\ mounted /\ ~named
    BY <1>3, FaultStays DEF OpenForProgram, PowerLoss, FileInv, OpenSource,
                            OpenByName, Rewind
  <2>2. mounted' /\ opened' /\ named' /\ pos' = 1 /\ high' = 0
    BY <1>3, <2>1 DEF OpenForProgram, OpenSource, OpenByName, Rewind
  <2> QED
    BY <1>3, <2>2 DEF OpenForProgram, FileInv
<1>4. CASE ErasePage
  BY <1>4 DEF ErasePage, FileInv, sourceVars
<1>5. CASE BeginProgram \/ BufferRecord \/ SplitRecord \/ SkipRecord
           \/ BeginVerify \/ VerifyMatch \/ VerifySkip
  <2>1. /\ pc \in {"erase", "program", "vread", "verify"}
        /\ pc' \in {"program", "verify"}
        /\ \E old : ReadRecord(old)
    BY <1>5
    DEF BeginProgram, BufferRecord, SplitRecord, SkipRecord, BeginVerify,
        VerifyMatch, VerifySkip
  <2>2. ~fault
    BY <2>1 DEF ReadRecord, ReadNothing, ReadFails, ReadLine
  <2>3. mounted' /\ opened' /\ named'
    BY <2>1, <2>2, ReadKeepsOpen DEF FileInv
  <2> QED
    BY <2>1, <2>3 DEF FileInv
<1>6. CASE FlushBlock \/ PastEnd \/ FlushLast
  BY <1>6 DEF FlushBlock, PastEnd, FlushLast, AtLastFlush, FileInv, sourceVars
<1>7. CASE OpenForVerify
  <2>1. ~fault
    BY <1>7 DEF OpenForVerify, OpenSource, OpenByName, Rewind
  <2>2. mounted /\ opened /\ named
    BY <1>7, <2>1 DEF OpenForVerify, FileInv
  <2>3. mounted' /\ opened' /\ named' /\ pos' = 1 /\ high' = 0
    BY <1>7, <2>2 DEF OpenForVerify, OpenSource, OpenByName, Rewind
  <2> QED
    BY <1>7, <2>3 DEF OpenForVerify, FileInv
<1>8. CASE pc' \in {"init", "halt", "user", "undefined", "hung"}
  BY <1>8 DEF FileInv
<1> QED
  BY <1>0, <1>1, <1>2, <1>3, <1>4, <1>5, <1>6, <1>7, <1>8
  DEF Next, Step, Programming, Verifying, Spin, EnterBootloader,
      EnterUserProgram, OpenForProgramHangs, CopyOutOfBounds,
      VerifyMismatch, VerifyDone

-----------------------------------------------------------------------------
(* No data line is lost between the reader and the loops.                  *)

(* What reading on does: the line in hand moves past pos only over lines   *)
(* that are no data lines.                                                 *)
LEMMA FollowRead ==
  ASSUME TypeOK, NEW old \in Records, ReadRecord(old), ~fault',
         mounted, opened, high = HighAt(file, pos),
         old.type # "EOF" \/ (pos = 1 /\ BeginsWithRecord(file))
  PROVE  /\ file' = file
         /\ pos' \in Nat \ {0}
         /\ high' = HighAt(file, pos')
         /\ IF rec'.type = "EOF"
              THEN \A i \in DataLines(file) : i < pos'
              ELSE /\ pos' - 1 \in 1 .. Len(file)
                   /\ file[pos' - 1].type = "DATA"
                        => rec'.type = "DATA" /\ RecIsLine'
         /\ \A i \in DataLines(file) : i < LineInHand' <=> i < pos
<1>1. file' = file /\ file \in Seq(Lines) /\ pos \in Nat \ {0}
      /\ Len(file) \in Nat
  BY FileType DEF ReadRecord, TypeOK, SourceTypeOK
<1>2. CASE ReadNothing(old)
  <2>1. pos > Len(file) /\ pos' = pos /\ high' = high
    BY <1>1, <1>2 DEF ReadNothing, CanRead
  <2>2. rec'.type = "EOF"
    BY <1>2 DEF ReadNothing, EndOfFile, Records
  <2>3. \A i \in DataLines(file) : i < pos
    BY <1>1, <2>1 DEF DataLines
  <2>4. LineInHand' = pos
    BY <2>1, <2>2 DEF LineInHand
  <2> QED
    BY <1>1, <2>1, <2>2, <2>3, <2>4
<1>3. CASE ReadFails(old)
  BY <1>3 DEF ReadFails
<1>4. CASE ReadLine(old)
  <2>1. /\ pos \in 1 .. Len(file) /\ pos' = pos + 1 /\ pos' - 1 = pos
        /\ rec' = Parsed(file[pos], old) /\ high' = HighAfter(file[pos])
    BY <1>1, <1>4 DEF ReadLine, CanRead
  <2>2. high' = HighAt(file, pos')
    BY <1>1, <2>1, HighAtNext DEF HighAfter
  <2>3. CASE rec'.type = "EOF"
    <3>1. file[pos].type = "EOF"
      <4>1. CASE file[pos].type = "JUNK"
        <5>1. old.type = "EOF"
          BY <2>1, <2>3, <4>1 DEF Parsed
        <5> QED
          BY <1>1, <2>1, <4>1, <5>1 DEF BeginsWithRecord
      <4> QED
        BY <2>1, <2>3, <4>1 DEF Parsed
    <3>2. \A i \in DataLines(file) : i < pos
      BY <1>1, <2>1, <3>1 DEF DataLines
    <3>3. \A i \in DataLines(file) : i < pos'
      BY <1>1, <2>1, <3>2 DEF DataLines
    <3>4. \A i \in DataLines(file) : i < LineInHand' <=> i < pos
      BY <2>3, <3>2, <3>3 DEF LineInHand
    <3> QED
      BY <1>1, <2>1, <2>2, <2>3, <3>3, <3>4
  <2>4. CASE rec'.type # "EOF"
    <3>1. ASSUME file[pos].type = "DATA"
          PROVE  rec'.type = "DATA" /\ RecIsLine'
      <4>1. rec' = [type |-> "DATA", addr |-> high + file[pos].off,
                    data |-> file[pos].data]
        BY <2>1, <3>1 DEF Parsed
      <4> QED
        BY <1>1, <2>1, <3>1, <4>1 DEF RecIsLine, AddrOf
    <3>2. LineInHand' = pos
      BY <2>1, <2>4 DEF LineInHand
    <3> QED
      BY <1>1, <2>1, <2>2, <2>4, <3>1, <3>2
  <2> QED
    BY <2>3, <2>4
<1> QED
  BY <1>2, <1>3, <1>4 DEF ReadRecord

LEMMA FollowInit == Init => FollowInv
BY DEF Init, FollowInv

(* The first record that a loop reads.                                     *)
LEMMA FollowFirst ==
  ASSUME TypeOK, NEW t \in RecordTypes, ReadRecord(Unread(t)), ~fault',
         mounted, opened, pos = 1, high = 0, BeginsWithRecord(file)
  PROVE  FollowInv' /\ \A i \in DataLines(file) : ~(i < LineInHand')
<1>1. Unread(t) \in Records /\ high = HighAt(file, pos)
  BY UnreadType, HighAtFirst
<1>2. FollowInv'
  BY <1>1, FollowRead DEF FollowInv
<1>3. ASSUME NEW i \in DataLines(file), i < LineInHand' PROVE FALSE
  <2>1. i < pos
    BY <1>1, <1>3, FollowRead
  <2> QED
    BY <2>1 DEF DataLines
<1> QED
  BY <1>2, <1>3

(* A loop reads on from a record that is not the end of the file.          *)
LEMMA FollowNext ==
  ASSUME TypeOK, FileInv, FollowInv, pc \in {"program", "verify"},
         rec.type # "EOF", ReadRecord(rec), ~fault', BeginsWithRecord(file)
  PROVE  /\ FollowInv' /\ file' = file
         /\ \A i \in DataLines(file) : i < LineInHand' <=> i < pos
<1>1. ~fault
  BY DEF ReadRecord, ReadNothing, ReadFails, ReadLine
<1>2. mounted /\ opened /\ high = HighAt(file, pos) /\ rec \in Records
  BY <1>1 DEF FileInv, FollowInv, TypeOK, SourceTypeOK
<1> QED
  BY <1>2, FollowRead DEF FollowInv

LEMMA FollowStep ==
  TypeOK /\ FileInv /\ FollowInv /\ [Next]_vars => FollowInv'
<1> SUFFICES ASSUME TypeOK, FileInv, FollowInv, [Next]_vars,
                    pc' \in {"program", "verify"}, ~fault',
                    BeginsWithRecord(file')
             PROVE  FollowInv'
  BY DEF FollowInv
<1>0. CASE UNCHANGED sourceVars /\ pc' = pc
  BY <1>0 DEF FollowInv, RecIsLine, sourceVars
<1>1. CASE BeginProgram \/ BeginVerify
  <2>1. PICK t \in RecordTypes : ReadRecord(Unread(t))
    BY <1>1 DEF BeginProgram, BeginVerify
  <2>2. ~fault /\ file' = file
    BY <2>1 DEF ReadRecord, ReadNothing, ReadFails, ReadLine
  <2>3. mounted /\ opened /\ pos = 1 /\ high = 0
    BY <1>1, <2>2 DEF BeginProgram, BeginVerify, FileInv
  <2> QED
    BY <2>1, <2>2, <2>3, FollowFirst
<1>2. CASE BufferRecord \/ SplitRecord \/ SkipRecord \/ VerifyMatch
           \/ VerifySkip
  <2>1. pc \in {"program", "verify"} /\ rec.type # "EOF" /\ ReadRecord(rec)
    BY <1>2
    DEF BufferRecord, SplitRecord, SkipRecord, VerifyMatch, VerifySkip,
        Programmable
  <2>2. file' = file
    BY <2>1 DEF ReadRecord
  <2> QED
    BY <2>1, <2>2, FollowNext
<1>3. CASE FlushBlock
  BY <1>0, <1>3 DEF FlushBlock
<1> QED
  BY <1>0, <1>1, <1>2, <1>3
  DEF Next, Step, Programming, Verifying, Spin, EnterBootloader,
      EnterUserProgram, OpenForProgramHangs, Initialize, OpenForProgram,
      ErasePage, CopyOutOfBounds, PastEnd, FlushLast, OpenForVerify,
      VerifyMismatch, VerifyDone, PowerLoss, vars

-----------------------------------------------------------------------------
(* PASS is deserved.                                                       *)

(* A record that is passed over or found in the flash is held.             *)
LEMMA LineChecked ==
  ASSUME TypeOK, FollowInv, VerifyInv, pc = "verify", rec.type # "EOF",
         ~fault, BeginsWithRecord(file),
         Programmable => FlashHolds(rec)
  PROVE  \A i \in DataLines(file) : i < pos => Held(i)
<1> SUFFICES ASSUME NEW i \in DataLines(file), i < pos PROVE Held(i)
  OBVIOUS
<1>1. i \in Nat /\ pos \in Nat
  BY FileType DEF DataLines, TypeOK, SourceTypeOK
<1>2. CASE i < pos - 1
  BY <1>2 DEF VerifyInv, LineInHand
<1>3. CASE i = pos - 1
  <2>1. rec.type = "DATA" /\ RecIsLine
    BY <1>3 DEF FollowInv, DataLines
  <2> QED
    BY <1>3, <2>1 DEF RecIsLine, Held, Programmable, FlashHolds
<1> QED
  BY <1>1, <1>2, <1>3

LEMMA VerifyInit == Init => VerifyInv
BY DEF Init, VerifyInv, PassMeansMatch

LEMMA VerifyStep ==
  TypeOK /\ FileInv /\ FollowInv /\ VerifyInv /\ [Next]_vars => VerifyInv'
<1> SUFFICES ASSUME TypeOK, FileInv, FollowInv, VerifyInv, [Next]_vars
             PROVE  VerifyInv'
  OBVIOUS
<1>a. ASSUME flash' = flash, file' = file, NEW i, Held(i) PROVE Held(i)'
  BY <1>a DEF Held, FlashRead
<1>0. CASE UNCHANGED vars
  BY <1>0
  DEF VerifyInv, PassMeansMatch, Held, FlashRead, LineInHand, vars,
      flashVars, sourceVars
<1>1. CASE BeginVerify
  <2>1. verdict' # "PASS"
    BY <1>1 DEF BeginVerify, VerifyInv
  <2>2. ASSUME ~fault', BeginsWithRecord(file')
        PROVE  \A i \in DataLines(file') : ~(i < LineInHand')
    <3>1. PICK t \in RecordTypes : ReadRecord(Unread(t))
      BY <1>1 DEF BeginVerify
    <3>2. ~fault /\ file' = file
      BY <2>2, <3>1 DEF ReadRecord, ReadNothing, ReadFails, ReadLine
    <3>3. mounted /\ opened /\ pos = 1 /\ high = 0
      BY <1>1, <3>2 DEF BeginVerify, FileInv
    <3> QED
      BY <2>2, <3>1, <3>2, <3>3, FollowFirst
  <2> QED
    BY <2>1, <2>2 DEF VerifyInv, PassMeansMatch
<1>2. CASE VerifyMatch \/ VerifySkip
  <2>1. /\ pc = "verify" /\ rec.type # "EOF" /\ ReadRecord(rec)
        /\ verdict' = verdict /\ flash' = flash /\ file' = file
        /\ Programmable => FlashHolds(rec)
    BY <1>2
    DEF VerifyMatch, VerifySkip, Programmable, ReadRecord, flashVars
  <2>2. verdict' # "PASS"
    BY <2>1 DEF VerifyInv
  <2>3. ASSUME ~fault', BeginsWithRecord(file')
        PROVE  \A i \in DataLines(file') : i < LineInHand' => Held(i)'
    <3>1. ~fault
      BY <2>1, <2>3 DEF ReadRecord, ReadNothing, ReadFails, ReadLine
    <3>2. \A i \in DataLines(file) : i < LineInHand' => i < pos
      BY <2>1, <2>3, FollowNext
    <3>3. \A i \in DataLines(file) : i < pos => Held(i)
      BY <2>1, <2>3, <3>1, LineChecked
    <3> QED
      BY <1>a, <2>1, <3>2, <3>3
  <2> QED
    BY <2>2, <2>3 DEF VerifyInv, PassMeansMatch
<1>3. CASE VerifyDone
  <2>1. /\ pc = "verify" /\ rec.type = "EOF" /\ pc' = "halt"
        /\ flash' = flash /\ file' = file /\ fault' = fault
    BY <1>3 DEF VerifyDone, SdcardDispose, flashVars
  <2>2. ASSUME ~fault', BeginsWithRecord(file'), NEW i \in DataLines(file')
        PROVE  Held(i)'
    <3>1. i < pos
      BY <2>1, <2>2 DEF FollowInv
    <3>2. Held(i)
      BY <2>1, <2>2, <3>1 DEF VerifyInv, LineInHand
    <3> QED
      BY <1>a, <2>1, <3>2
  <2> QED
    BY <2>1, <2>2 DEF VerifyInv, PassMeansMatch
<1>4. CASE verdict' # "PASS" /\ pc' # "verify"
  BY <1>4 DEF VerifyInv, PassMeansMatch
<1> QED
  BY <1>0, <1>1, <1>2, <1>3, <1>4
  DEF VerifyInv, Next, Step, Programming, Verifying, Spin, EnterBootloader,
      EnterUserProgram, OpenForProgramHangs, Initialize, OpenForProgram,
      ErasePage, BeginProgram, BufferRecord, CopyOutOfBounds, SplitRecord,
      FlushBlock, PastEnd, SkipRecord, FlushLast, AtLastFlush, OpenForVerify,
      VerifyMismatch, PowerLoss

(* If nothing has failed and the file begins with a record, PASS on the    *)
(* display means that the flash holds every byte of every record that      *)
(* begins in the user area: for any file, and whatever came before.        *)
THEOREM PassDeserved == Spec => []PassMeansMatch
<1>1. VerifyInv => PassMeansMatch
  BY DEF VerifyInv
<1> QED
  BY <1>1, TypeInit, TypeStep, FileInit, FileStep, FollowInit, FollowStep,
     VerifyInit, VerifyStep, PTL
  DEF Spec
-----------------------------------------------------------------------------
(* The write command.                                                      *)

LEMMA ModOfAligned ==
  ASSUME NEW size \in Nat \ {0}, NEW s \in Nat, NEW a \in Nat,
         s % size = 0, s <= a, a < s + size
  PROVE  a % size = a - s
<1>1. AlignDown(a, size) = s
  BY AlignWithin
<1>2. a % size \in Nat
  OBVIOUS
<1> QED
  BY <1>1, <1>2 DEF AlignDown

(* A multiple of size less than one size away from zero is zero.           *)
LEMMA SmallMultiple ==
  ASSUME NEW size \in Nat \ {0}, NEW m \in Int,
         m * size < size, -size < m * size
  PROVE  m = 0
<1>1. SUFFICES ASSUME m # 0 PROVE FALSE
  OBVIOUS
<1>2. CASE m >= 1
  <2>1. (m - 1) * size >= 0
    BY <1>2
  <2>2. (m - 1) * size = m * size - size
    OBVIOUS
  <2> QED
    BY <2>1, <2>2
<1>3. CASE m <= -1
  <2>1. (-1 - m) * size >= 0
    BY <1>3
  <2>2. (-1 - m) * size = -size - m * size
    OBVIOUS
  <2> QED
    BY <2>1, <2>2
<1> QED
  BY <1>1, <1>2, <1>3

(* Byte k of the buffer is in holding register k if the block is aligned.  *)
LEMMA HoldingAligned ==
  ASSUME NEW buffer \in Block, NEW s \in Nat, s % BlockSize = 0,
         NEW k \in 0 .. BlockSize - 1
  PROVE  Holding(buffer, s)[k] = buffer[k]
<1> DEFINE r == (k - s) % BlockSize
           d == (k - s) \div BlockSize
<1>1. PICK q \in Nat : s = q * BlockSize + (s % BlockSize)
  BY DivideOnce, FlashAssumption
<1>2. r \in 0 .. BlockSize - 1 /\ d \in Int /\ k - s = d * BlockSize + r
  BY FlashAssumption
<1>3. (d + q) * BlockSize = d * BlockSize + q * BlockSize
  BY <1>2, FlashAssumption
<1>4. (d + q) * BlockSize = k - r
  <2> HIDE DEF r, d
  <2>1. q * BlockSize = s /\ s \in Int /\ k \in Int /\ r \in Int
        /\ d * BlockSize \in Int
    BY <1>1, <1>2, FlashAssumption
  <2> QED
    BY <1>2, <1>3, <2>1
<1>5. d + q = 0
  <2> HIDE DEF r, d
  <2> QED
    BY <1>2, <1>4, SmallMultiple, FlashAssumption
<1>6. r = k
  <2> HIDE DEF r, d
  <2> QED
    BY <1>2, <1>4, <1>5, FlashAssumption
<1> QED
  BY <1>6 DEF Holding

(* flash_write clears bits in its block and touches no other.              *)
LEMMA WriteEffect ==
  ASSUME flash \in [Cells -> Byte], ~eecon1.free,
         eecon1 \in [wren : BOOLEAN, free : BOOLEAN],
         NEW buffer \in Block, NEW s \in Nat, s % BlockSize = 0,
         NEW a \in Cells
  PROVE  FlashWritten(buffer, s)[a] =
           IF s <= a /\ a < s + BlockSize
             THEN flash[a] \cap buffer[a - s] ELSE flash[a]
<1>1. a \in Nat /\ BlockSize \in Nat \ {0}
  BY FlashAssumption DEF Cells
<1>2. WriteControl(eecon1).wren /\ ~WriteControl(eecon1).free
  BY DEF WriteControl
<1>3. AlignDown(WritePointer(s), BlockSize) = s
  <2>1. WritePointer(s) \in Nat /\ s <= WritePointer(s)
        /\ WritePointer(s) < s + BlockSize
    BY <1>1 DEF WritePointer
  <2> QED
    BY <1>1, <2>1, AlignWithin
<1>4. CASE s <= a /\ a < s + BlockSize
  <2>1. SameBlock(a, WritePointer(s))
    BY <1>1, <1>3, <1>4, AlignWithin DEF SameBlock
  <2>2. a - s \in 0 .. BlockSize - 1
    BY <1>1, <1>4
  <2>4. a % BlockSize = a - s
    BY <1>1, <1>4, ModOfAligned
  <2>3. Holding(buffer, s)[a % BlockSize] = buffer[a - s]
    BY <2>2, <2>4, HoldingAligned
  <2> QED
    BY <1>2, <1>4, <2>1, <2>3 DEF FlashWritten, Committed
<1>5. CASE ~(s <= a /\ a < s + BlockSize)
  <2>1. AlignDown(a, BlockSize) <= a /\ a < AlignDown(a, BlockSize) + BlockSize
    BY <1>1, AlignBounds
  <2>2. ~SameBlock(a, WritePointer(s))
    BY <1>1, <1>3, <1>5, <2>1 DEF SameBlock
  <2> QED
    BY <1>2, <1>5, <2>2 DEF FlashWritten, Committed
<1> QED
  BY <1>4, <1>5

(* An erased cell takes the byte that is written.                          *)
LEMMA ErasedTakes ==
  ASSUME NEW b \in Byte
  PROVE  ErasedByte \cap b = b /\ b \cap ErasedByte = b
BY DEF Byte, ErasedByte

LEMMA BlankIsErased ==
  ASSUME NEW k \in 0 .. BlockSize - 1
  PROVE  BlankBlock[k] = ErasedByte
BY DEF BlankBlock

-----------------------------------------------------------------------------
(* FREE is clear when blocks are programmed.                               *)

LEMMA FreeInit == Init => FreeInv
BY DEF Init, FreeInv

LEMMA FreeStep == TypeOK /\ FreeInv /\ [Next]_vars => FreeInv'
<1> SUFFICES ASSUME TypeOK, FreeInv, [Next]_vars PROVE FreeInv'
  OBVIOUS
<1>0. CASE UNCHANGED <<eecon1, pc>>
  BY <1>0 DEF FreeInv
<1>1. CASE BeginProgram
  BY <1>1 DEF BeginProgram, FlashEraseEnd, FreeInv
<1>2. CASE SplitRecord \/ FlushBlock \/ PastEnd
  <2>1. ~eecon1.free /\ eecon1' = ControlAfterCommit(WriteControl(eecon1))
    BY <1>2
    DEF SplitRecord, FlushBlock, PastEnd, FlashWrite, FreeInv
  <2>2. ~eecon1'.free
    BY <2>1 DEF ControlAfterCommit, WriteControl, TypeOK, FlashTypeOK
  <2> QED
    BY <2>2 DEF FreeInv
<1>3. CASE pc' \notin {"program", "flush"}
  BY <1>3 DEF FreeInv
<1> QED
  BY <1>0, <1>1, <1>2, <1>3
  DEF Next, Step, Programming, Verifying, Spin, EnterBootloader,
      EnterUserProgram, OpenForProgramHangs, Initialize, OpenForProgram,
      ErasePage, BufferRecord, CopyOutOfBounds, SkipRecord, FlushLast,
      OpenForVerify, BeginVerify, VerifyMatch, VerifySkip, VerifyMismatch,
      VerifyDone, PowerLoss, vars, flashVars

-----------------------------------------------------------------------------
(* The block in hand and all blocks above it are erased.                   *)

(* A page that is erased.                                                  *)
LEMMA EraseEffect ==
  ASSUME NEW ptr \in Nat, ptr % EraseSize = 0, NEW holding,
         NEW ee, ee.wren, ee.free,
         NEW a \in Cells
  PROVE  /\ ptr <= a /\ a < ptr + EraseSize
              => Committed(ee, ptr, holding)[a] = ErasedByte
         /\ flash[a] = ErasedByte
              => Committed(ee, ptr, holding)[a] = ErasedByte
<1>1. a \in Nat /\ EraseSize \in Nat \ {0}
  BY FlashAssumption DEF Cells
<1>2. Committed(ee, ptr, holding)[a]
        = IF SamePage(a, ptr) THEN ErasedByte ELSE flash[a]
  BY DEF Committed
<1>3. ASSUME ptr <= a, a < ptr + EraseSize PROVE SamePage(a, ptr)
  <2>1. AlignDown(a, EraseSize) = ptr
    BY <1>1, <1>3, AlignWithin
  <2>2. AlignDown(ptr, EraseSize) = ptr
    BY <1>1, AlignWithin
  <2> QED
    BY <2>1, <2>2 DEF SamePage
<1> QED
  BY <1>2, <1>3

LEMMA EraseInit == Init => EraseInv
BY DEF Init, EraseInv

(* The cells from the end of the block on are as before after a write.     *)
LEMMA WriteKeepsAbove ==
  ASSUME TypeOK, BlockInv, FreeInv, pc = "program", NEW buffer \in Block,
         FlashWrite(buffer, bl.start), NEW a \in Cells, a >= bl.end
  PROVE  flash'[a] = flash[a]
<1>1. bl.start \in Nat /\ bl.end = bl.start + BlockSize /\ a \in Nat
      /\ BlockSize \in Nat
  BY FlashAssumption DEF TypeOK, BlockInv, Cells
<1>2. ~eecon1.free /\ bl.start % BlockSize = 0
      /\ flash \in [Cells -> Byte]
      /\ eecon1 \in [wren : BOOLEAN, free : BOOLEAN]
  BY DEF TypeOK, FlashTypeOK, FreeInv, BlockInv
<1>3. FlashWritten(buffer, bl.start)[a] = flash[a]
  <2> DEFINE s == bl.start
  <2>1. s \in Nat /\ s % BlockSize = 0
    BY <1>1, <1>2
  <2>2. ~(s <= a /\ a < s + BlockSize)
    BY <1>1
  <2> HIDE DEF s
  <2>3. FlashWritten(buffer, s)[a] = flash[a]
    BY <1>2, <2>1, <2>2, WriteEffect
  <2> QED
    BY <2>3 DEF s
<1> QED
  BY <1>3 DEF FlashWrite

(* The next block in hand is not below the end of the last.                *)
LEMMA NextBlockAbove ==
  ASSUME TypeOK, BlockInv, FlushBlock
  PROVE  /\ bl' = BlockAt(bl'.start)
         /\ bl'.start \in Nat /\ bl'.start >= bl.end /\ bl'.start <= rec.addr
<1>1. bl.end \in Nat /\ rec.addr \in Nat /\ rec.addr >= bl.end
      /\ bl.start \in Nat /\ BlockSize \in Nat \ {0}
  BY FlashAssumption
  DEF FlushBlock, StartsInBlock, TypeOK, SourceTypeOK, Records
<1>2. bl.end % BlockSize = 0
  BY <1>1, NextAligned DEF BlockInv
<1>3. AlignDown(rec.addr, BlockSize) >= bl.end
      /\ AlignDown(rec.addr, BlockSize) \in Nat
      /\ AlignDown(rec.addr, BlockSize) <= rec.addr
  BY <1>1, <1>2, AlignAbove, AlignBounds
<1> QED
  BY <1>3 DEF FlushBlock, BlockOf, BlockAt

LEMMA CellTypes ==
  UserCells \subseteq Cells /\ Cells \subseteq Nat /\ UserStart \in Nat
BY FlashAssumption, BootldrAssumption DEF UserCells, Cells

LEMMA EraseStep ==
  TypeOK /\ BlockInv /\ FreeInv /\ EraseInv /\ [Next]_vars => EraseInv'
<1> SUFFICES ASSUME TypeOK, BlockInv, FreeInv, EraseInv, [Next]_vars,
                    EraseWorks
             PROVE  EraseInv'
  BY DEF EraseInv, EraseWorks
<1>a. /\ bl.start \in Nat /\ bl.end \in Nat /\ tblptr \in Nat
      /\ erased \in Nat /\ EraseSize \in Nat \ {0} /\ BlockSize \in Nat \ {0}
      /\ bl.end = bl.start + BlockSize /\ UserStart \in Nat
      /\ NumBlocksToErase \in Nat /\ UserEnd \in Nat
  BY FlashAssumption, BootldrAssumption
  DEF TypeOK, FlashTypeOK, BlockInv
<1>0. CASE UNCHANGED <<flash, eecon1, tblptr, pc, bl, erased>>
  BY <1>0 DEF EraseInv
<1>1. CASE OpenForProgram
  <2>1. erased' = 0 /\ tblptr' = UserStart /\ pc' = "erase"
        /\ eecon1' = [wren |-> TRUE, free |-> TRUE]
    BY <1>1 DEF OpenForProgram, FlashEraseBegin
  <2>2. tblptr' = UserStart + erased' * EraseSize
    BY <1>a, <2>1
  <2>3. tblptr' % EraseSize = 0
    BY <2>1, FlashAssumption
  <2>4. \A a \in Cells : ~(UserStart <= a /\ a < tblptr')
    BY <2>1, CellTypes
  <2> QED
    BY <2>1, <2>2, <2>3, <2>4 DEF EraseInv
<1>2. CASE ErasePage
  <2>1. /\ pc = "erase" /\ pc' = "erase" /\ erased' = erased + 1
        /\ flash' = Committed(eecon1, tblptr, BlankBlock)
        /\ eecon1' = ControlAfterCommit(eecon1)
        /\ tblptr' = tblptr + EraseSize
    BY <1>2 DEF ErasePage, FlashErasePage
  <2>2. /\ eecon1 = [wren |-> TRUE, free |-> TRUE]
        /\ tblptr = UserStart + erased * EraseSize
        /\ tblptr % EraseSize = 0
        /\ \A a \in Cells :
             UserStart <= a /\ a < tblptr => flash[a] = ErasedByte
    BY <2>1 DEF EraseInv
  <2>3. eecon1' = [wren |-> TRUE, free |-> TRUE]
    BY <2>1, <2>2 DEF ControlAfterCommit, EraseWorks
  <2>4. tblptr' = UserStart + erased' * EraseSize
    <3>1. (erased + 1) * EraseSize = erased * EraseSize + EraseSize
      BY <1>a
    <3> QED
      BY <1>a, <2>1, <2>2, <3>1
  <2>5. tblptr' % EraseSize = 0
    BY <1>a, <2>1, <2>2, NextAligned
  <2>6. ASSUME NEW a \in Cells, UserStart <= a, a < tblptr'
        PROVE  flash'[a] = ErasedByte
    <3>1. a \in Nat
      BY CellTypes
    <3>2. eecon1.wren /\ eecon1.free
      BY <2>2
    <3>3. CASE a < tblptr
      BY <1>a, <2>1, <2>2, <2>6, <3>2, <3>3, EraseEffect
    <3>4. CASE a >= tblptr
      BY <1>a, <2>1, <2>2, <2>6, <3>2, <3>4, EraseEffect
    <3> QED
      BY <1>a, <3>1, <3>3, <3>4
  <2> QED
    BY <2>1, <2>3, <2>4, <2>5, <2>6 DEF EraseInv
<1>3. CASE BeginProgram
  <2>1. /\ pc = "erase" /\ pc' = "program" /\ ~MoreToErase(erased)
        /\ flash' = flash /\ bl' = BlockAt(UserStart)
    BY <1>3 DEF BeginProgram, FlashEraseEnd
  <2>2. UserEnd <= tblptr
    <3>1. erased >= NumBlocksToErase + 1
      BY <1>a, <2>1 DEF MoreToErase
    <3>2. erased * EraseSize >= (NumBlocksToErase + 1) * EraseSize
      BY <1>a, <3>1
    <3>3. (NumBlocksToErase + 1) * EraseSize \in Nat
          /\ erased * EraseSize \in Nat
      BY <1>a
    <3>4. tblptr = UserStart + erased * EraseSize
      BY <2>1 DEF EraseInv
    <3> QED
      BY <1>a, <3>2, <3>3, <3>4 DEF EraseWorks
  <2>3. \A a \in UserCells : flash[a] = ErasedByte
    BY <1>a, <2>1, <2>2, CellTypes DEF EraseInv, UserCells
  <2> QED
    BY <2>1, <2>3 DEF EraseInv
<1>4. CASE BufferRecord \/ SkipRecord
  <2>1. pc = "program" /\ pc' = "program" /\ flash' = flash
        /\ bl'.start = bl.start
    BY <1>4 DEF BufferRecord, SkipRecord, flashVars, TypeOK
  <2> QED
    BY <2>1 DEF EraseInv
<1>5. CASE SplitRecord
  <2>1. FilledBlock \in Block
    BY <1>5, SplitTypes DEF SplitRecord
  <2>2. bl'.start = bl.end
    BY <1>5, <1>a DEF SplitRecord, NextBlock, BlockAt
  <2>3. ASSUME NEW a \in UserCells, a >= bl'.start
        PROVE  flash'[a] = ErasedByte
    <3>1. flash'[a] = flash[a]
      BY <1>5, <2>1, <2>2, <2>3, CellTypes, WriteKeepsAbove DEF SplitRecord
    <3>2. a >= bl.start
      BY <1>a, <2>2, <2>3, CellTypes
    <3> QED
      BY <1>5, <3>1, <3>2 DEF SplitRecord, EraseInv
  <2> QED
    BY <1>5, <2>3 DEF SplitRecord, EraseInv
<1>6. CASE FlushBlock
  <2>1. bl'.start \in Nat /\ bl'.start >= bl.end
    BY <1>6, NextBlockAbove
  <2>2. ASSUME NEW a \in UserCells, a >= bl'.start
        PROVE  flash'[a] = ErasedByte
    <3>1. a >= bl.end /\ a >= bl.start
      BY <1>a, <2>1, <2>2, CellTypes
    <3>2. flash'[a] = flash[a]
      BY <1>6, <3>1, CellTypes, WriteKeepsAbove DEF FlushBlock, TypeOK
    <3> QED
      BY <1>6, <3>1, <3>2 DEF FlushBlock, EraseInv
  <2> QED
    BY <1>6, <2>2 DEF FlushBlock, EraseInv
<1>7. CASE pc' \notin {"erase", "program"}
  BY <1>7 DEF EraseInv
<1> QED
  BY <1>0, <1>1, <1>2, <1>3, <1>4, <1>5, <1>6, <1>7
  DEF Next, Step, Programming, Verifying, Spin, EnterBootloader,
      EnterUserProgram, OpenForProgramHangs, Initialize, CopyOutOfBounds,
      PastEnd, FlushLast, OpenForVerify, BeginVerify, VerifyMatch, VerifySkip,
      VerifyMismatch, VerifyDone, PowerLoss, vars, flashVars

-----------------------------------------------------------------------------
(* The buffer holds nothing for the words from UserEnd on.                 *)

(* In a well-formed file a record of the user area ends in it.             *)
LEMMA RecWithin ==
  ASSUME TypeOK, OrderInv, pc = "program", Programmable, WellFormed(file)
  PROVE  rec.addr + Len(rec.data) <= UserEnd
<1>1. rec.addr \in Nat /\ rec.addr >= UserStart /\ rec.addr < UserEnd
      /\ UserStart \in Nat /\ UserEnd \in Nat /\ UserStart < UserEnd
  BY FlashAssumption, BootldrAssumption
  DEF TypeOK, SourceTypeOK, Records, Programmable, InUserArea
<1>2. LoopInv /\ rec.type = "DATA"
  BY DEF OrderInv, Programmable
<1>3. CASE RecIsLine
  <2>1. /\ pos - 1 \in DataLines(file)
        /\ EndOf(file, pos - 1) = rec.addr + Len(rec.data)
    BY <1>2, <1>3, RecInFile
  <2>2. WithinOneArea(file, pos - 1)
    BY <2>1 DEF WellFormed
  <2>3. AddrOf(file, pos - 1) = rec.addr
    BY <1>3 DEF RecIsLine
  <2>4. rec.addr + Len(rec.data) \in Nat
    BY <1>1 DEF TypeOK, SourceTypeOK, Records
  <2> QED
    BY <1>1, <2>1, <2>2, <2>3, <2>4 DEF WithinOneArea
<1>4. CASE RecIsGhost
  BY <1>1, <1>4, EmptySeq DEF RecIsGhost
<1> QED
  BY <1>2, <1>3, <1>4 DEF LoopInv

(* The numbers of a record in hand that is to be programmed.               *)
LEMMA RecNumbers ==
  ASSUME TypeOK, BlockInv
  PROVE  /\ rec.addr \in Nat /\ rec.data \in Seq(Byte)
         /\ Len(rec.data) \in Nat
         /\ bl.start \in Nat /\ bl.end \in Nat /\ bl.buf \in Block
         /\ bl.start % BlockSize = 0
         /\ bl.end = bl.start + BlockSize /\ BlockSize \in Nat \ {0}
         /\ bl.start >= UserStart
         /\ UserStart \in Nat /\ UserEnd \in Nat
BY FlashAssumption, BootldrAssumption
DEF TypeOK, SourceTypeOK, Records, BlockInv

(* The rest of a split record, and where its bytes come from.              *)
LEMMA RestBytes ==
  ASSUME TypeOK, BlockInv, StartsInBlock, ~FitsBlock(rec, bl)
  PROVE  /\ BytesWritten \in 1 .. Len(rec.data) - 1
         /\ Len(RestOfRecord) = Len(rec.data) - BytesWritten
         /\ \A i \in 1 .. Len(RestOfRecord) :
              RestOfRecord[i] = rec.data[BytesWritten + i]
         /\ LET head == SubSeq(rec.data, 1, BytesWritten)
            IN  /\ Len(head) = BytesWritten
                /\ \A i \in 1 .. BytesWritten : head[i] = rec.data[i]
<1>1. BytesWritten \in 1 .. Len(rec.data) - 1
  BY RecNumbers DEF BytesWritten, FitsBlock, StartsInBlock
<1> DEFINE n == BytesWritten
           len == Len(rec.data)
<1> HIDE DEF n
<1>2. n \in 1 .. len - 1 /\ len \in Nat
  BY <1>1, RecNumbers DEF n
<1>3. rec.data \in Seq(Byte)
  BY RecNumbers
<1>4. /\ Len(SubSeq(rec.data, n + 1, len)) = len - n
      /\ \A i \in 1 .. len - n :
           SubSeq(rec.data, n + 1, len)[i] = rec.data[n + i]
  <2>1. n + 1 \in 1 .. len + 1 /\ len \in n .. len
    BY <1>2
  <2>2. Len(SubSeq(rec.data, n + 1, len)) = len - (n + 1) + 1
    BY <1>2, <1>3, SubSeqProperties
  <2>3. \A i \in 1 .. len - n :
          SubSeq(rec.data, n + 1, len)[i] = rec.data[n + i]
    BY <1>2, <1>3
  <2> QED
    BY <1>2, <2>2, <2>3
<1>5. /\ Len(SubSeq(rec.data, 1, n)) = n
      /\ \A i \in 1 .. n : SubSeq(rec.data, 1, n)[i] = rec.data[i]
  BY <1>2, <1>3
<1> QED
  BY <1>1, <1>4, <1>5 DEF RestOfRecord, n

LEMMA BufferInit == Init => BufferInv
BY DEF Init, BufferInv

LEMMA BufferStep ==
  TypeOK /\ BlockInv /\ OrderInv /\ BufferInv /\ [Next]_vars => BufferInv'
<1> SUFFICES ASSUME TypeOK, BlockInv, OrderInv, BufferInv, [Next]_vars
             PROVE  BufferInv'
  OBVIOUS
<1>0. CASE UNCHANGED <<pc, bl, file>>
  BY <1>0 DEF BufferInv
<1>1. CASE BeginProgram \/ FlushBlock
  <2>1. \E start : bl' = BlockAt(start)
    BY <1>1 DEF BeginProgram, FlushBlock, BlockOf
  <2>2. bl'.buf = BlankBlock
    BY <2>1 DEF BlockAt
  <2>3. pc' = "program"
    BY <1>1 DEF BeginProgram, FlushBlock
  <2> QED
    BY <2>2, <2>3, BlankIsErased DEF BufferInv
<1>2. CASE BufferRecord
  <2>1. /\ pc = "program" /\ pc' = "program" /\ Programmable
        /\ bl'.start = bl.start /\ file' = file
        /\ bl'.buf = CopyInto(bl.buf, rec.addr - bl.start, rec.data)
    BY <1>2 DEF BufferRecord, ReadRecord, TypeOK
  <2>2. ASSUME WellFormed(file), NEW k \in 0 .. BlockSize - 1,
               bl.start + k >= UserEnd
        PROVE  bl'.buf[k] = ErasedByte
    <3>1. rec.addr + Len(rec.data) <= UserEnd
      BY <2>1, <2>2, RecWithin
    <3>2. ~(k < rec.addr - bl.start + Len(rec.data))
      BY <2>2, <3>1, RecNumbers, SMTT(30)
    <3>3. bl'.buf[k] = bl.buf[k]
      BY <2>1, <3>2 DEF CopyInto
    <3> QED
      BY <2>1, <2>2, <3>3 DEF BufferInv
  <2> QED
    BY <2>1, <2>2 DEF BufferInv
<1>3. CASE SplitRecord
  <2>1. /\ pc = "program" /\ pc' = "program" /\ Programmable
        /\ StartsInBlock /\ ~FitsBlock(rec, bl)
        /\ bl'.start = bl.end /\ file' = file
        /\ bl'.buf = CopyInto(BlankBlock, 0, RestOfRecord)
    BY <1>3, RecNumbers
    DEF SplitRecord, ReadRecord, NextBlock, BlockAt
  <2>2. ASSUME WellFormed(file), NEW k \in 0 .. BlockSize - 1,
               bl.end + k >= UserEnd
        PROVE  bl'.buf[k] = ErasedByte
    <3>1. rec.addr + Len(rec.data) <= UserEnd
      BY <2>1, <2>2, RecWithin
    <3>2. Len(RestOfRecord) = Len(rec.data) - (bl.end - rec.addr)
      BY <2>1, RestBytes DEF BytesWritten
    <3>3. ~(k < 0 + Len(RestOfRecord))
      <4>1. /\ rec.addr \in Nat /\ Len(rec.data) \in Nat
            /\ bl.end \in Nat /\ UserEnd \in Nat /\ k \in Nat
        BY RecNumbers
      <4> QED
        BY <2>2, <3>1, <3>2, <4>1
    <3> QED
      BY <2>1, <3>3, BlankIsErased DEF CopyInto
  <2> QED
    BY <2>1, <2>2 DEF BufferInv
<1>4. CASE PastEnd
  BY <1>4 DEF PastEnd, BufferInv, TypeOK
<1>5. CASE SkipRecord
  BY <1>5 DEF SkipRecord, ReadRecord, BufferInv
<1>6. CASE pc' \notin {"program", "flush"}
  BY <1>6 DEF BufferInv
<1> QED
  BY <1>0, <1>1, <1>2, <1>3, <1>4, <1>5, <1>6
  DEF Next, Step, Programming, Verifying, Spin, EnterBootloader,
      EnterUserProgram, OpenForProgramHangs, Initialize, OpenForProgram,
      ErasePage, CopyOutOfBounds, FlushLast, OpenForVerify, BeginVerify,
      VerifyMatch, VerifySkip, VerifyMismatch, VerifyDone, PowerLoss, vars,
      sourceVars

-----------------------------------------------------------------------------
(* What the programming loop may change.                                   *)

(* A write of the block in hand with a buffer that holds nothing for the   *)
(* words from UserEnd on.                                                  *)
LEMMA WriteChanges ==
  ASSUME TypeOK, BlockInv, FreeInv, pc \in {"program", "flush"},
         NEW buffer \in Block,
         \A k \in 0 .. BlockSize - 1 :
           bl.start + k >= UserEnd => buffer[k] = ErasedByte,
         NEW a \in Cells, FlashWritten(buffer, bl.start)[a] # flash[a]
  PROVE  /\ a \in UserCells /\ bl.start <= a /\ a < bl.end
         /\ buffer[a - bl.start] # ErasedByte
<1> DEFINE s == bl.start
<1>1. s \in Nat /\ s % BlockSize = 0 /\ ~eecon1.free /\ a \in Nat
      /\ flash \in [Cells -> Byte] /\ flash[a] \in Byte
      /\ eecon1 \in [wren : BOOLEAN, free : BOOLEAN]
  BY RecNumbers, CellTypes DEF TypeOK, FlashTypeOK, FreeInv
<1>2. bl.end = s + BlockSize /\ UserStart <= s /\ BlockSize \in Nat
      /\ UserStart \in Nat /\ UserEnd \in Nat
  BY RecNumbers
<1> HIDE DEF s
<1>3. FlashWritten(buffer, s)[a]
        = IF s <= a /\ a < s + BlockSize
            THEN flash[a] \cap buffer[a - s] ELSE flash[a]
  BY <1>1, WriteEffect
<1>4. FlashWritten(buffer, s)[a] # flash[a]
  BY DEF s
<1>5. s <= a /\ a < s + BlockSize
  BY <1>3, <1>4
<1>6. buffer[a - s] # ErasedByte
  BY <1>1, <1>3, <1>4, <1>5, ErasedTakes
<1>7. a < UserEnd
  <2>1. a - s \in 0 .. BlockSize - 1 /\ s + (a - s) = a
    BY <1>1, <1>2, <1>5
  <2>2. ~(s + (a - s) >= UserEnd)
    BY <1>6, <2>1 DEF s
  <2> QED
    BY <1>1, <1>2, <2>1, <2>2
<1> QED
  BY <1>1, <1>2, <1>5, <1>6, <1>7 DEF UserCells, s

(* A block that is filled by a split record lies in the user area.         *)
LEMMA FilledWithin ==
  ASSUME TypeOK, BlockInv, OrderInv, pc = "program", Programmable,
         StartsInBlock, ~FitsBlock(rec, bl), WellFormed(file)
  PROVE  /\ FilledBlock \in Block
         /\ \A k \in 0 .. BlockSize - 1 : ~(bl.start + k >= UserEnd)
<1>1. FilledBlock \in Block
  BY SplitTypes
<1>2. rec.addr + Len(rec.data) <= UserEnd
  BY RecWithin
<1>3. rec.addr + Len(rec.data) > bl.end
  BY RecNumbers DEF FitsBlock
<1>4. /\ rec.addr + Len(rec.data) \in Nat /\ UserEnd \in Nat
      /\ bl.start \in Nat /\ bl.end \in Nat /\ BlockSize \in Nat
      /\ bl.end = bl.start + BlockSize
  BY RecNumbers
<1> QED
  BY <1>1, <1>2, <1>3, <1>4

(* What the next flash command of the programming loop may change: erased  *)
(* cells of the user area.                                                 *)
LEMMA AheadChanges ==
  ASSUME TypeOK, BlockInv, OrderInv, FreeInv, BufferInv, pc # "erase",
         WellFormed(file), NEW a \in Cells, FlashAhead[a] # flash[a]
  PROVE  pc = "program" /\ a \in UserCells /\ a >= bl.start
<1>1. CASE /\ pc = "program" /\ Programmable /\ StartsInBlock
           /\ ~FitsBlock(rec, bl)
  <2>1. FlashAhead = FlashWritten(FilledBlock, bl.start)
    BY <1>1 DEF FlashAhead
  <2>2. a \in UserCells /\ bl.start <= a
    BY <1>1, <2>1, FilledWithin, WriteChanges
  <2> QED
    BY <1>1, <2>2, RecNumbers, CellTypes
<1>2. CASE ~(/\ pc = "program" /\ Programmable /\ StartsInBlock
             /\ ~FitsBlock(rec, bl))
  <2>1. /\ FlashAhead = FlashWritten(bl.buf, bl.start)
        /\ pc \in {"program", "flush"}
    BY <1>2 DEF FlashAhead, AtLastFlush
  <2>2. CASE pc = "program"
    <3>1. \A k \in 0 .. BlockSize - 1 :
            bl.start + k >= UserEnd => bl.buf[k] = ErasedByte
      BY <2>2 DEF BufferInv
    <3>2. a \in UserCells /\ bl.start <= a
      BY <2>1, <3>1, RecNumbers, WriteChanges
    <3> QED
      BY <2>2, <3>2, RecNumbers, CellTypes
  <2>3. CASE pc = "flush"
    <3>1. bl.buf = BlankBlock
      BY <2>3 DEF BufferInv
    <3>2. /\ bl.start <= a /\ a < bl.end
          /\ bl.buf[a - bl.start] # ErasedByte
      BY <2>1, <3>1, RecNumbers, BlankIsErased, WriteChanges
    <3>3. a - bl.start \in 0 .. BlockSize - 1
      BY <3>2, RecNumbers, CellTypes
    <3> QED
      BY <3>1, <3>2, <3>3, BlankIsErased
  <2> QED
    BY <2>1, <2>2, <2>3
<1> QED
  BY <1>1, <1>2

(* Every step outside the erase loop does what is ahead, or a part of it.  *)
LEMMA StepsDoWhatIsAhead ==
  ASSUME TypeOK, [Next]_vars, pc # "erase",
         NEW a \in Cells, flash'[a] # flash[a]
  PROVE  FlashAhead[a] # flash[a]
<1>1. CASE SplitRecord
  BY <1>1 DEF SplitRecord, FlashWrite, FlashAhead
<1>2. CASE FlushBlock \/ PastEnd \/ FlushLast
  <2>1. /\ flash' = FlashWritten(bl.buf, bl.start)
        /\ \/ AtLastFlush
           \/ pc = "program" /\ Programmable /\ ~StartsInBlock
           \/ pc = "program" /\ PassesEnd(rec)
    BY <1>2 DEF FlushBlock, PastEnd, FlushLast, FlashWrite
  <2>2. ~(/\ pc = "program" /\ Programmable /\ StartsInBlock
          /\ ~FitsBlock(rec, bl))
    <3>1. AtLastFlush => pc = "flush" \/ rec.type = "EOF"
      BY DEF AtLastFlush
    <3>2. Programmable => rec.type = "DATA" /\ rec.addr < UserEnd
      BY DEF Programmable, InUserArea
    <3>3. PassesEnd(rec) => ~Programmable
      <4>1. rec.addr \in Nat /\ UserEnd \in Nat
        BY BootldrAssumption DEF TypeOK, SourceTypeOK, Records
      <4> QED
        BY <4>1 DEF PassesEnd, Programmable, InUserArea
    <3> QED
      BY <2>1, <3>1, <3>2, <3>3
  <2> QED
    BY <2>1, <2>2 DEF FlashAhead
<1>3. CASE PowerLoss
  BY <1>3 DEF PowerLoss, Torn
<1>4. CASE flash' = flash
  BY <1>4
<1> QED
  BY <1>1, <1>2, <1>3, <1>4
  DEF Next, Step, Programming, Verifying, Spin, EnterBootloader,
      EnterUserProgram, OpenForProgramHangs, Initialize, OpenForProgram,
      FlashEraseBegin, ErasePage, BeginProgram, FlashEraseEnd, BufferRecord,
      CopyOutOfBounds, SkipRecord, OpenForVerify, BeginVerify, VerifyMatch,
      VerifySkip, VerifyMismatch, VerifyDone, vars, flashVars

(* With a well-formed file programming stays below UserEnd, where the      *)
(* configuration words are.                                                *)
THEOREM UserAreaOnly == Spec => ProgramStaysInUserArea
<1>1. TypeOK /\ BlockInv /\ OrderInv /\ FreeInv /\ BufferInv /\ [Next]_vars
        => [pc # "erase" /\ flash' # flash /\ WellFormed(file)
              => \A a \in Cells : a >= UserEnd => flash'[a] = flash[a]]_vars
  <2> SUFFICES ASSUME TypeOK, BlockInv, OrderInv, FreeInv, BufferInv,
                      [Next]_vars, pc # "erase", WellFormed(file),
                      NEW a \in Cells, a >= UserEnd, flash'[a] # flash[a]
               PROVE  FALSE
    OBVIOUS
  <2>1. a \in UserCells
    BY StepsDoWhatIsAhead, AheadChanges
  <2> QED
    BY <2>1, BootldrAssumption, FlashAssumption DEF UserCells
<1> QED
  BY <1>1, TypeInit, TypeStep, BlockInit, BlockStep, OrderInit, OrderStep,
     FreeInit, FreeStep, BufferInit, BufferStep, PTL
  DEF Spec, ProgramStaysInUserArea

(* If the erase loop reaches the end of the user area and FREE stays set,  *)
(* no cell is programmed that is not erased, whatever the memory held and  *)
(* wherever earlier sessions were cut off.                                 *)
THEOREM EachCellOnce ==
  ASSUME EraseWorks
  PROVE  Spec => NoOverprogramming
<1>1. TypeOK /\ BlockInv /\ OrderInv /\ FreeInv /\ EraseInv /\ BufferInv
        /\ [Next]_vars
        => [pc # "erase" /\ flash' # flash /\ WellFormed(file)
              => \A a \in Cells :
                   flash'[a] # flash[a] => flash[a] = ErasedByte]_vars
  <2> SUFFICES ASSUME TypeOK, BlockInv, OrderInv, FreeInv, EraseInv,
                      BufferInv, [Next]_vars, pc # "erase", WellFormed(file),
                      NEW a \in Cells, flash'[a] # flash[a]
               PROVE  flash[a] = ErasedByte
    OBVIOUS
  <2>1. pc = "program" /\ a \in UserCells /\ a >= bl.start
    BY StepsDoWhatIsAhead, AheadChanges
  <2> QED
    BY <2>1, EraseWorks DEF EraseInv
<1> QED
  BY <1>1, TypeInit, TypeStep, BlockInit, BlockStep, OrderInit, OrderStep,
     FreeInit, FreeStep, EraseInit, EraseStep, BufferInit, BufferStep, PTL
  DEF Spec, NoOverprogramming

-----------------------------------------------------------------------------
(* The image of the file.                                                  *)

LEMMA BufferTake ==
  ASSUME NEW buffer \in Block, NEW k \in 0 .. BlockSize - 1
  PROVE  buffer[k] \in Byte
BY DEF Block

(* Where nothing is erased that is not: in the user area from the block in *)
(* hand on, what is pending is what the buffer says, and 0xFF above it.    *)
LEMMA PendingValue ==
  ASSUME TypeOK, BlockInv, EraseInv, EraseWorks, pc = "program",
         NEW a \in UserCells
  PROVE  /\ bl.start <= a /\ a < bl.end
              => flash[a] = ErasedByte /\ Pending(a) = bl.buf[a - bl.start]
         /\ a >= bl.end => flash[a] = ErasedByte /\ Pending(a) = ErasedByte
         /\ a < bl.start => Pending(a) = flash[a]
<1>1. a \in Nat /\ bl.start \in Nat /\ bl.end \in Nat
      /\ bl.end = bl.start + BlockSize /\ bl.buf \in Block
      /\ BlockSize \in Nat
  BY RecNumbers, CellTypes
<1>2. a >= bl.start => flash[a] = ErasedByte
  BY DEF EraseInv
<1>3. ASSUME bl.start <= a, a < bl.end
      PROVE  Pending(a) = bl.buf[a - bl.start]
  <2>1. a - bl.start \in 0 .. BlockSize - 1
    BY <1>1, <1>3
  <2>2. bl.buf[a - bl.start] \in Byte
    BY <1>1, <2>1, BufferTake
  <2> QED
    BY <1>1, <1>2, <1>3, <2>2, ErasedTakes DEF Pending
<1> QED
  BY <1>1, <1>2, <1>3 DEF Pending

(* Writing the block makes what is pending the content of the memory.      *)
LEMMA WriteMakesPending ==
  ASSUME TypeOK, BlockInv, FreeInv, pc \in {"program", "flush"},
         FlashWrite(bl.buf, bl.start), NEW a \in UserCells
  PROVE  flash'[a] = Pending(a)
<1> DEFINE s == bl.start
           buffer == bl.buf
<1>1. /\ s \in Nat /\ s % BlockSize = 0 /\ ~eecon1.free /\ a \in Cells
      /\ flash \in [Cells -> Byte] /\ buffer \in Block
      /\ eecon1 \in [wren : BOOLEAN, free : BOOLEAN]
  BY RecNumbers, CellTypes DEF TypeOK, FlashTypeOK, FreeInv
<1>2. bl.end = s + BlockSize
  BY RecNumbers
<1>3. FlashWritten(buffer, s)[a]
        = IF s <= a /\ a < s + BlockSize
            THEN flash[a] \cap buffer[a - s] ELSE flash[a]
  <2> HIDE DEF s, buffer
  <2> QED
    BY <1>1, WriteEffect
<1> QED
  BY <1>2, <1>3 DEF FlashWrite, Pending

(* The cells that the record in hand is copied to are those that line      *)
(* pos - 1 gives a byte to: a ghost has none.                              *)
LEMMA RecGives ==
  ASSUME TypeOK, LoopInv, rec.type = "DATA", NEW a \in Nat
  PROVE  /\ rec.addr <= a /\ a < rec.addr + Len(rec.data)
               => pos - 1 \in DataLines(file) /\ Gives(file, pos - 1, a)
         /\ RecIsLine /\ Gives(file, pos - 1, a)
               => /\ rec.addr <= a /\ a < rec.addr + Len(rec.data)
                  /\ file[pos - 1].data[a - AddrOf(file, pos - 1) + 1]
                       = rec.data[a - rec.addr + 1]
<1>1. rec.addr \in Nat /\ Len(rec.data) \in Nat
  BY DEF TypeOK, SourceTypeOK, Records
<1>2. CASE RecIsLine
  <2>1. /\ pos - 1 \in DataLines(file)
        /\ EndOf(file, pos - 1) = rec.addr + Len(rec.data)
        /\ AddrOf(file, pos - 1) = rec.addr
        /\ file[pos - 1].data = rec.data
    BY <1>2, RecInFile DEF RecIsLine
  <2> QED
    BY <2>1 DEF Gives
<1>3. CASE ~RecIsLine
  <2>1. rec.data = <<>>
    BY <1>3 DEF LoopInv, RecIsGhost
  <2>2. Len(rec.data) = 0
    BY <2>1
  <2> QED
    BY <1>1, <1>3, <2>2
<1> QED
  BY <1>2, <1>3

(* A record that is copied into the pending memory adds its line to it.    *)
LEMMA ImageExtends ==
  ASSUME TypeOK, LoopInv, WellFormed(file), rec.type = "DATA",
         file[pos - 1].type = "DATA" => RecIsLine,
         ImageOfLines(pos - 1), file' = file,
         \A a \in UserCells :
           Pending(a)' = IF rec.addr <= a /\ a < rec.addr + Len(rec.data)
                           THEN rec.data[a - rec.addr + 1] ELSE Pending(a)
  PROVE  \A a \in UserCells :
           /\ \A i \in DataLines(file) :
                i < pos /\ Gives(file, i, a)
                  => Pending(a)' = file[i].data[a - AddrOf(file, i) + 1]
           /\ (\A i \in DataLines(file) : i < pos => ~Gives(file, i, a))
                => Pending(a)' = ErasedByte
<1> SUFFICES ASSUME NEW a \in UserCells
             PROVE  /\ \A i \in DataLines(file) :
                         i < pos /\ Gives(file, i, a)
                           => Pending(a)'
                                = file[i].data[a - AddrOf(file, i) + 1]
                    /\ (\A i \in DataLines(file) :
                           i < pos => ~Gives(file, i, a))
                         => Pending(a)' = ErasedByte
  OBVIOUS
<1>1. a \in Nat /\ pos \in Nat \ {0} /\ DataLines(file) \subseteq Nat
  BY CellTypes DEF TypeOK, SourceTypeOK, DataLines
<1>2. CASE rec.addr <= a /\ a < rec.addr + Len(rec.data)
  <2>1. /\ pos - 1 \in DataLines(file) /\ Gives(file, pos - 1, a)
        /\ pos - 1 < pos
    BY <1>1, <1>2, RecGives
  <2>2. RecIsLine
    BY <2>1 DEF DataLines
  <2>3. Pending(a)' = file[pos - 1].data[a - AddrOf(file, pos - 1) + 1]
    BY <1>1, <1>2, <2>1, <2>2, RecGives
  <2>4. ASSUME NEW i \in DataLines(file), i < pos, Gives(file, i, a)
        PROVE  i = pos - 1
    <3>1. SUFFICES ASSUME i < pos - 1 PROVE FALSE
      BY <1>1, <2>4
    <3>2. EndOf(file, i) <= AddrOf(file, pos - 1)
      BY <2>1, <3>1 DEF WellFormed, Ascending
    <3>3. a < EndOf(file, i) /\ AddrOf(file, pos - 1) <= a
      BY <2>1, <2>4 DEF Gives
    <3>4. EndOf(file, i) \in Nat /\ AddrOf(file, pos - 1) \in Nat
      BY <2>1, FileType, AddrType DEF DataLines, TypeOK, SourceTypeOK
    <3> QED
      BY <1>1, <3>2, <3>3, <3>4
  <2> QED
    BY <2>1, <2>3, <2>4
<1>3. CASE ~(rec.addr <= a /\ a < rec.addr + Len(rec.data))
  <2>1. Pending(a)' = Pending(a)
    BY <1>3
  <2>2. ~Gives(file, pos - 1, a)
    BY <1>1, <1>3, RecGives DEF Gives, DataLines
  <2>3. \A i \in DataLines(file) :
          Gives(file, i, a) => (i < pos <=> i < pos - 1)
    BY <1>1, <2>2
  <2> QED
    BY <2>1, <2>3 DEF ImageOfLines
<1> QED
  BY <1>2, <1>3

-----------------------------------------------------------------------------
(* What each step of the programming loop does to the pending memory.      *)

(* A record inside the block.                                              *)
LEMMA BufferCopies ==
  ASSUME TypeOK, BlockInv, EraseInv, EraseWorks, BufferRecord,
         NEW a \in UserCells
  PROVE  Pending(a)' = IF rec.addr <= a /\ a < rec.addr + Len(rec.data)
                         THEN rec.data[a - rec.addr + 1] ELSE Pending(a)
<1>1. /\ a \in Nat /\ rec.addr \in Nat /\ rec.data \in Seq(Byte)
      /\ Len(rec.data) \in Nat /\ bl.start \in Nat /\ bl.end \in Nat
      /\ bl.end = bl.start + BlockSize /\ BlockSize \in Nat
  BY RecNumbers, CellTypes
<1>2. /\ pc = "program" /\ flash' = flash
      /\ rec.addr + Len(rec.data) <= bl.end
      /\ Len(rec.data) = 0 \/ rec.addr >= bl.start
      /\ bl'.start = bl.start /\ bl'.end = bl.end
      /\ bl'.buf = CopyInto(bl.buf, rec.addr - bl.start, rec.data)
  BY DEF BufferRecord, FitsBlock, CopyIsInside, flashVars, TypeOK
<1>3. CASE bl.start <= a /\ a < bl.end
  <2> DEFINE k == a - bl.start
  <2>1. k \in 0 .. BlockSize - 1
    BY <1>1, <1>3
  <2>2. flash[a] = ErasedByte /\ Pending(a) = bl.buf[k]
    BY <1>2, <1>3, PendingValue
  <2>3. bl'.buf[k] = IF k >= rec.addr - bl.start
                        /\ k < rec.addr - bl.start + Len(rec.data)
                       THEN rec.data[k - (rec.addr - bl.start) + 1]
                       ELSE bl.buf[k]
    <3> HIDE DEF k
    <3> QED
      BY <1>2, <2>1 DEF CopyInto
  <2>4. bl'.buf[k] = IF rec.addr <= a /\ a < rec.addr + Len(rec.data)
                       THEN rec.data[a - rec.addr + 1] ELSE bl.buf[k]
    <3>1. (k >= rec.addr - bl.start) <=> (rec.addr <= a)
      BY <1>1
    <3>2. (k < rec.addr - bl.start + Len(rec.data))
            <=> (a < rec.addr + Len(rec.data))
      BY <1>1, SMTT(30)
    <3>3. k - (rec.addr - bl.start) + 1 = a - rec.addr + 1
      BY <1>1
    <3> HIDE DEF k
    <3> QED
      BY <2>3, <3>1, <3>2, <3>3
  <2>5. bl'.buf[k] \in Byte
    <3>1. CopyInto(bl.buf, rec.addr - bl.start, rec.data) \in Block
      BY <1>1, RecNumbers, CopyIntoType
    <3> HIDE DEF k
    <3> QED
      BY <1>2, <2>1, <3>1, BufferTake
  <2>6. Pending(a)' = bl'.buf[k]
    BY <1>2, <1>3, <2>2, <2>5, ErasedTakes DEF Pending
  <2> QED
    BY <2>2, <2>4, <2>6
<1>4. CASE ~(bl.start <= a /\ a < bl.end)
  <2>1. ~(rec.addr <= a /\ a < rec.addr + Len(rec.data))
    BY <1>1, <1>2, <1>4
  <2>2. Pending(a)' = flash[a] /\ Pending(a) = flash[a]
    BY <1>2, <1>4 DEF Pending
  <2> QED
    BY <2>1, <2>2
<1> QED
  BY <1>3, <1>4

(* A record is not longer than a block.                                    *)
LEMMA RecLength ==
  ASSUME TypeOK, LoopInv, rec.type = "DATA"
  PROVE  Len(rec.data) <= BlockSize
<1>1. CASE RecIsLine
  <2>1. Len(rec.data) <= MaxPayload
    BY <1>1, FileType DEF RecIsLine, LoopInv, TypeOK, SourceTypeOK
  <2>2. Len(rec.data) \in Nat
    BY DEF TypeOK, SourceTypeOK, Records
  <2> QED
    BY <2>1, <2>2, BootldrAssumption, FlashAssumption
<1>2. CASE RecIsGhost
  <2>1. Len(rec.data) = 0
    BY <1>2 DEF RecIsGhost
  <2> QED
    BY <2>1, FlashAssumption
<1> QED
  BY <1>1, <1>2 DEF LoopInv

(* Places in the rest of a record that is cut at e, of length l from r on. *)
LEMMA RestPlaces ==
  ASSUME NEW a \in Nat, NEW e \in Nat, NEW r \in Nat, NEW l \in Nat,
         NEW n \in Nat, n = e - r, a >= e
  PROVE  /\ (a - e < l - n) <=> (a < r + l)
         /\ n + ((a - e) + 1) = a - r + 1
         /\ a - e < l - n => (a - e) + 1 \in 1 .. l - n
OBVIOUS

(* A record across the end of the block: its first part is written with    *)
(* the block, the rest is in the next one.                                 *)
LEMMA SplitCopies ==
  ASSUME TypeOK, BlockInv, OrderInv, FreeInv, EraseInv, EraseWorks,
         SplitRecord, NEW a \in UserCells
  PROVE  Pending(a)' = IF rec.addr <= a /\ a < rec.addr + Len(rec.data)
                         THEN rec.data[a - rec.addr + 1] ELSE Pending(a)
<1> DEFINE n == BytesWritten
           len == Len(rec.data)
           head == SubSeq(rec.data, 1, n)
<1>1. /\ a \in Nat /\ rec.addr \in Nat /\ rec.data \in Seq(Byte)
      /\ len \in Nat /\ bl.start \in Nat /\ bl.end \in Nat
      /\ bl.end = bl.start + BlockSize /\ BlockSize \in Nat
  BY RecNumbers, CellTypes
<1>2. /\ pc = "program" /\ rec.type = "DATA" /\ rec.addr < bl.end
      /\ rec.addr + len > bl.end
      /\ FlashWrite(FilledBlock, bl.start)
      /\ bl'.start = bl.end /\ bl'.end = bl.end + BlockSize
      /\ bl'.buf = CopyInto(BlankBlock, 0, RestOfRecord)
      /\ StartsInBlock /\ ~FitsBlock(rec, bl) /\ LoopInv
  BY <1>1
  DEF SplitRecord, Programmable, StartsInBlock, FitsBlock, NextBlock, BlockAt,
      OrderInv
<1>3. /\ n = bl.end - rec.addr /\ n \in 1 .. len - 1
      /\ Len(RestOfRecord) = len - n /\ Len(head) = n
      /\ \A i \in 1 .. len - n : RestOfRecord[i] = rec.data[n + i]
      /\ \A i \in 1 .. n : head[i] = rec.data[i]
  BY <1>2, RestBytes DEF BytesWritten
<1>4. len <= BlockSize /\ rec.addr >= bl.start
  BY <1>1, <1>2, RecLength
<1>5. /\ FilledBlock \in Block /\ RestOfRecord \in Seq(Byte)
  BY <1>2, SplitTypes
<1> HIDE DEF n, len
<1>9. n = bl.end - rec.addr /\ n \in Nat /\ len \in Nat
  BY <1>1, <1>3
<1>6. CASE bl.start <= a /\ a < bl.end
  <2> DEFINE k == a - bl.start
  <2>1. k \in 0 .. BlockSize - 1
    BY <1>1, <1>6
  <2>2. flash[a] = ErasedByte /\ Pending(a) = bl.buf[k]
    BY <1>2, <1>6, PendingValue
  <2>3. FilledBlock[k] = IF rec.addr <= a THEN rec.data[a - rec.addr + 1]
                                          ELSE bl.buf[k]
    <3>1. (k >= rec.addr - bl.start) <=> (rec.addr <= a)
      BY <1>1
    <3>2. k < rec.addr - bl.start + n
      BY <1>1, <1>6, <1>9
    <3>3. k - (rec.addr - bl.start) + 1 = a - rec.addr + 1
      BY <1>1
    <3>4. rec.addr <= a => a - rec.addr + 1 \in 1 .. n
      BY <1>1, <1>6, <1>9, SMTT(30)
    <3>5. FilledBlock[k] = IF k >= rec.addr - bl.start
                              /\ k < rec.addr - bl.start + Len(head)
                             THEN head[k - (rec.addr - bl.start) + 1]
                             ELSE bl.buf[k]
      <4> HIDE DEF k
      <4> QED
        BY <2>1 DEF FilledBlock, CopyInto, n
    <3> HIDE DEF k, head
    <3> QED
      BY <1>3, <3>1, <3>2, <3>3, <3>4, <3>5
  <2>4. flash'[a] = FilledBlock[k]
    <3>1. a \in Cells /\ bl.start % BlockSize = 0 /\ ~eecon1.free
          /\ flash \in [Cells -> Byte]
          /\ eecon1 \in [wren : BOOLEAN, free : BOOLEAN]
      BY <1>2, RecNumbers, CellTypes DEF TypeOK, FlashTypeOK, FreeInv
    <3>2. FlashWritten(FilledBlock, bl.start)[a] = flash[a] \cap FilledBlock[k]
      BY <1>1, <1>5, <1>6, <3>1, WriteEffect
    <3>3. FilledBlock[k] \in Byte
      <4> HIDE DEF k
      <4> QED
        BY <1>5, <2>1, BufferTake
    <3> QED
      BY <1>2, <2>2, <3>2, <3>3, ErasedTakes DEF FlashWrite
  <2>5. Pending(a)' = flash'[a]
    BY <1>1, <1>2, <1>6 DEF Pending
  <2>6. a < rec.addr + len
    BY <1>1, <1>2, <1>6
  <2> QED
    BY <2>2, <2>3, <2>4, <2>5, <2>6 DEF len
<1>7. CASE a >= bl.end
  <2>1. flash[a] = ErasedByte /\ Pending(a) = ErasedByte
    BY <1>2, <1>7, PendingValue
  <2>2. flash'[a] = ErasedByte
    BY <1>2, <1>5, <1>7, <2>1, CellTypes, WriteKeepsAbove
  <2>3. rec.addr <= a
    BY <1>1, <1>2, <1>7
  <2>4. CASE a < bl.end + BlockSize
    <3> DEFINE k == a - bl.end
    <3>1. k \in 0 .. BlockSize - 1
      BY <1>1, <1>7, <2>4
    <3>2. bl'.buf[k] = IF k < len - n THEN RestOfRecord[k + 1]
                                      ELSE ErasedByte
      <4>1. k >= 0 /\ k - 0 + 1 = k + 1 /\ 0 + (len - n) = len - n
        BY <1>3, <3>1 DEF len
      <4>2. CopyInto(BlankBlock, 0, RestOfRecord)[k]
              = IF k >= 0 /\ k < 0 + Len(RestOfRecord)
                  THEN RestOfRecord[k - 0 + 1] ELSE BlankBlock[k]
        <5> HIDE DEF k
        <5> QED
          BY <3>1 DEF CopyInto
      <4> HIDE DEF k
      <4> QED
        BY <1>2, <1>3, <3>1, <4>1, <4>2, BlankIsErased
    <3>3. (k < len - n) <=> (a < rec.addr + len)
      <4>1. a \in Nat /\ bl.end \in Nat /\ rec.addr \in Nat
        BY <1>1
      <4>2. ASSUME k < len - n PROVE a < rec.addr + len
        BY <1>7, <1>9, <4>1, <4>2, RestPlaces
      <4>3. ASSUME a < rec.addr + len PROVE k < len - n
        BY <1>7, <1>9, <4>1, <4>3, RestPlaces
      <4> QED
        BY <4>2, <4>3
    <3>4. k < len - n => RestOfRecord[k + 1] = rec.data[a - rec.addr + 1]
      <4>1. n + (k + 1) = a - rec.addr + 1
        BY <1>1, <1>9, SMTT(30)
      <4>2. k < len - n => k + 1 \in 1 .. len - n
        BY <1>1, <1>7, <1>9, RestPlaces
      <4> HIDE DEF k
      <4> QED
        BY <1>3, <4>1, <4>2
    <3>5. bl'.buf[k] \in Byte
      <4>1. CopyInto(BlankBlock, 0, RestOfRecord) \in Block
        BY <1>5, BlankBlockType, CopyIntoType
      <4> HIDE DEF k
      <4> QED
        BY <1>2, <3>1, <4>1, BufferTake
    <3>6. Pending(a)' = bl'.buf[k]
      <4>1. Pending(a)' = flash'[a] \cap bl'.buf[k]
        BY <1>2, <1>7, <2>4 DEF Pending
      <4> HIDE DEF k
      <4> QED
        BY <2>2, <3>5, <4>1, ErasedTakes
    <3> HIDE DEF k
    <3> QED
      BY <2>1, <2>3, <3>2, <3>3, <3>4, <3>6 DEF len
  <2>5. CASE ~(a < bl.end + BlockSize)
    <3>1. ~(a < rec.addr + len)
      BY <1>1, <1>2, <1>4, <2>5 DEF len
    <3>2. Pending(a)' = flash'[a]
      BY <1>2, <2>5 DEF Pending
    <3> QED
      BY <2>1, <2>2, <3>1, <3>2 DEF len
  <2> QED
    BY <2>4, <2>5
<1>8. CASE a < bl.start
  <2>1. ~(rec.addr <= a)
    BY <1>1, <1>4, <1>8
  <2>2. flash'[a] = flash[a]
    <3>1. a \in Cells /\ bl.start % BlockSize = 0 /\ ~eecon1.free
          /\ flash \in [Cells -> Byte]
          /\ eecon1 \in [wren : BOOLEAN, free : BOOLEAN]
      BY <1>2, RecNumbers, CellTypes DEF TypeOK, FlashTypeOK, FreeInv
    <3>2. ~(bl.start <= a)
      BY <1>1, <1>8
    <3>3. FlashWritten(FilledBlock, bl.start)[a] = flash[a]
      BY <1>1, <1>5, <3>1, <3>2, WriteEffect
    <3> QED
      BY <1>2, <3>3 DEF FlashWrite
  <2>3. Pending(a)' = flash'[a] /\ Pending(a) = flash[a]
    BY <1>1, <1>2, <1>8 DEF Pending
  <2> QED
    BY <2>1, <2>2, <2>3
<1> QED
  BY <1>1, <1>6, <1>7, <1>8

(* Writing the block and going on to another one above it, or to a blank   *)
(* one in its place, changes nothing that is pending.                      *)
LEMMA FlushKeepsPending ==
  ASSUME TypeOK, BlockInv, FreeInv, EraseInv, EraseWorks,
         FlushBlock \/ PastEnd, NEW a \in UserCells
  PROVE  Pending(a)' = Pending(a)
<1>1. /\ pc = "program" /\ FlashWrite(bl.buf, bl.start)
      /\ bl'.buf = BlankBlock /\ bl'.end = bl'.start + BlockSize
      /\ bl'.start \in Nat /\ BlockSize \in Nat /\ a \in Nat
  <2>1. CASE FlushBlock
    BY <2>1, NextBlockAbove, RecNumbers, CellTypes DEF FlushBlock, BlockAt
  <2>2. CASE PastEnd
    BY <2>2, RecNumbers, CellTypes DEF PastEnd, TypeOK
  <2> QED
    BY <2>1, <2>2
<1>2. flash'[a] = Pending(a)
  BY <1>1, WriteMakesPending
<1>3. flash'[a] \in Byte
  <2>1. FlashWritten(bl.buf, bl.start) \in [Cells -> Byte]
    BY RecNumbers, FlashWrittenType DEF TypeOK, FlashTypeOK
  <2> QED
    BY <1>1, <2>1, CellTypes DEF FlashWrite
<1>4. CASE bl'.start <= a /\ a < bl'.end
  <2>1. a - bl'.start \in 0 .. BlockSize - 1
    BY <1>1, <1>4
  <2>2. bl'.buf[a - bl'.start] = ErasedByte
    BY <1>1, <2>1, BlankIsErased
  <2> QED
    BY <1>2, <1>3, <1>4, <2>2, ErasedTakes DEF Pending
<1>5. CASE ~(bl'.start <= a /\ a < bl'.end)
  BY <1>2, <1>5 DEF Pending
<1> QED
  BY <1>4, <1>5

-----------------------------------------------------------------------------
(* The image invariant.                                                    *)

(* The numbers of the record in hand and of a cell of the user area.       *)
LEMMA CellNumbers ==
  ASSUME TypeOK, NEW a \in UserCells
  PROVE  /\ rec.addr \in Nat /\ Len(rec.data) \in Nat /\ a \in Nat
         /\ UserStart \in Nat /\ UserEnd \in Nat /\ UserStart < UserEnd
         /\ UserStart <= a /\ a < UserEnd
<1>1. rec.addr \in Nat /\ rec.data \in Seq(Byte)
  BY DEF TypeOK, SourceTypeOK, Records
<1>2. Len(rec.data) \in Nat
  BY <1>1
<1>3. a \in Nat /\ UserStart \in Nat /\ UserEnd \in Nat
      /\ UserStart < UserEnd
  BY CellTypes, BootldrAssumption
<1>4. UserStart <= a /\ a < UserEnd
  BY <1>3 DEF UserCells
<1> QED
  BY <1>1, <1>2, <1>3, <1>4

(* A record that is passed over gives nothing to the user area.            *)
LEMMA SkippedGivesNothing ==
  ASSUME TypeOK, LoopInv, WellFormed(file), rec.type # "EOF",
         file[pos - 1].type = "DATA" => rec.type = "DATA" /\ RecIsLine,
         ~Programmable, pos - 1 \in DataLines(file), NEW a \in UserCells
  PROVE  ~Gives(file, pos - 1, a)
<1>1. rec.type = "DATA" /\ RecIsLine
  BY DEF DataLines
<1>2. /\ AddrOf(file, pos - 1) = rec.addr
      /\ EndOf(file, pos - 1) = rec.addr + Len(rec.data)
      /\ WithinOneArea(file, pos - 1)
  BY <1>1, RecInFile DEF RecIsLine, WellFormed
<1>3. /\ rec.addr \in Nat /\ Len(rec.data) \in Nat /\ a \in Nat
      /\ UserStart \in Nat /\ UserEnd \in Nat /\ UserStart < UserEnd
      /\ UserStart <= a /\ a < UserEnd
  BY CellNumbers
<1>4. rec.addr < UserStart \/ rec.addr >= UserEnd
  BY <1>1, <1>3 DEF Programmable, InUserArea
<1>5. rec.addr + Len(rec.data) <= UserStart \/ rec.addr >= UserEnd
  BY <1>2, <1>3, <1>4 DEF WithinOneArea
<1> QED
  BY <1>2, <1>3, <1>5 DEF Gives

(* A record behind the user area: it and the lines after it give nothing   *)
(* to the user area.                                                       *)
LEMMA NothingPastEnd ==
  ASSUME TypeOK, LoopInv, BlockInv, WellFormed(file), PassesEnd(rec),
         NEW i \in DataLines(file), i >= pos - 1, NEW a \in UserCells
  PROVE  ~Gives(file, i, a)
<1>1. /\ rec.addr \in Nat /\ Len(rec.data) \in Nat /\ a \in Nat
      /\ UserStart \in Nat /\ UserEnd \in Nat /\ UserStart < UserEnd
      /\ a < UserEnd /\ pos \in Nat /\ i \in Nat
  BY CellNumbers DEF TypeOK, SourceTypeOK, DataLines
<1>2. rec.type = "DATA" /\ rec.addr >= UserEnd
  BY DEF PassesEnd
<1>3. RecIsLine
  BY <1>1, <1>2 DEF LoopInv, RecIsGhost
<1>4. /\ pos - 1 \in DataLines(file)
      /\ AddrOf(file, pos - 1) = rec.addr
      /\ EndOf(file, pos - 1) = rec.addr + Len(rec.data)
  BY <1>3, RecInFile DEF RecIsLine
<1>5. AddrOf(file, i) \in Nat
  BY FileType, AddrType DEF DataLines, TypeOK, SourceTypeOK
<1>6. AddrOf(file, i) >= UserEnd
  <2>1. CASE i = pos - 1
    BY <1>2, <1>4, <2>1
  <2>2. CASE i # pos - 1
    <3>1. pos - 1 < i
      BY <1>1, <2>2
    <3>2. EndOf(file, pos - 1) <= AddrOf(file, i)
      BY <1>4, <3>1 DEF WellFormed, Ascending
    <3> QED
      BY <1>1, <1>2, <1>4, <1>5, <3>2
  <2> QED
    BY <2>1, <2>2
<1> QED
  BY <1>1, <1>5, <1>6 DEF Gives

(* An image of all lines is the image of the file.                         *)
LEMMA ImageOfAll ==
  ASSUME NEW n, \A i \in DataLines(file) : i < n,
         ImageOfLines(n), NEW a \in UserCells
  PROVE  Pending(a) = ImageByte(file, a)
<1>1. CASE \E i \in 1 .. Len(file) : Gives(file, i, a)
  <2> DEFINE c == CHOOSE i \in 1 .. Len(file) : Gives(file, i, a)
  <2>1. c \in 1 .. Len(file) /\ Gives(file, c, a)
    BY <1>1
  <2>2. ImageByte(file, a) = file[c].data[a - AddrOf(file, c) + 1]
    BY <1>1 DEF ImageByte
  <2> HIDE DEF c
  <2>3. c \in DataLines(file) /\ c < n
    BY <2>1 DEF Gives
  <2> QED
    BY <2>1, <2>2, <2>3 DEF ImageOfLines
<1>2. CASE ~ \E i \in 1 .. Len(file) : Gives(file, i, a)
  <2>1. ImageByte(file, a) = ErasedByte
    BY <1>2 DEF ImageByte
  <2>2. \A i \in DataLines(file) : ~Gives(file, i, a)
    BY <1>2 DEF DataLines
  <2> QED
    BY <2>1, <2>2 DEF ImageOfLines
<1> QED
  BY <1>1, <1>2

LEMMA ImageInit == Init => ImageInv
BY DEF Init, ImageInv, ProgramCorrect

LEMMA ImageStep ==
  ASSUME TypeOK, BlockInv, OrderInv, FileInv, FollowInv, FreeInv, EraseInv,
         ImageInv, [Next]_vars
  PROVE  ImageInv'
<1>c. EraseWorks' <=> EraseWorks
  BY DEF EraseWorks
<1> SUFFICES ASSUME EraseWorks, ~fault', WellFormed(file)'
             PROVE  ImageInv'
  BY <1>c, Zenon DEF ImageInv
<1>0. CASE UNCHANGED vars
  <2>1. \A a : Pending(a)' = Pending(a)
    BY <1>0 DEF Pending, vars, flashVars
  <2> QED
    BY <1>0, <2>1
    DEF ImageInv, ImageOfLines, LineInHand, ProgramCorrect, vars, flashVars,
        sourceVars
<1>p. CASE PowerLoss
  BY <1>p DEF PowerLoss, ImageInv, ProgramCorrect
<1>a. ASSUME ~PowerLoss PROVE ~fault
  BY <1>a, FaultStays
<1>b. ASSUME pc = "program", rec.type # "EOF", ~fault, WellFormed(file)
      PROVE  /\ LoopInv /\ BeginsWithRecord(file)
             /\ ImageOfLines(pos - 1)
             /\ file[pos - 1].type = "DATA"
                  => rec.type = "DATA" /\ RecIsLine
  BY <1>b
  DEF OrderInv, ImageInv, FollowInv, LineInHand, WellFormed
<1>1. CASE BeginProgram
  <2>1. /\ pc = "erase" /\ pc' = "program" /\ bl' = BlockAt(UserStart)
        /\ flash' = flash
    BY <1>1 DEF BeginProgram, FlashEraseEnd
  <2>2. PICK t \in RecordTypes : ReadRecord(Unread(t))
    BY <1>1 DEF BeginProgram
  <2>3. ~fault /\ file' = file
    BY <2>2 DEF ReadRecord, ReadNothing, ReadFails, ReadLine
  <2>4. mounted /\ opened /\ pos = 1 /\ high = 0 /\ BeginsWithRecord(file)
    BY <2>1, <2>3 DEF FileInv, WellFormed
  <2>5. \A i \in DataLines(file) : ~(i < LineInHand')
    BY <2>2, <2>3, <2>4, FollowFirst
  <2>6. ASSUME NEW a \in UserCells PROVE Pending(a)' = ErasedByte
    <3>1. EraseInv'
      BY EraseStep
    <3>2. flash'[a] = ErasedByte
      <4>1. a >= UserStart
        BY CellTypes DEF UserCells
      <4> QED
        BY <2>1, <3>1, <4>1 DEF EraseInv, EraseWorks, BlockAt
    <3>3. CASE UserStart <= a /\ a < UserStart + BlockSize
      <4>1. a - UserStart \in 0 .. BlockSize - 1
        BY <3>3, CellTypes, FlashAssumption
      <4>2. bl'.buf[a - UserStart] = ErasedByte
        BY <2>1, <4>1, BlankIsErased DEF BlockAt
      <4> QED
        BY <2>1, <3>2, <3>3, <4>2 DEF Pending, BlockAt
    <3>4. CASE ~(UserStart <= a /\ a < UserStart + BlockSize)
      BY <2>1, <3>2, <3>4 DEF Pending, BlockAt
    <3> QED
      BY <3>3, <3>4
  <2>7. ImageOfLines(LineInHand)'
    BY <2>3, <2>5, <2>6 DEF ImageOfLines
  <2> QED
    BY <2>1, <2>7 DEF ImageInv, ProgramCorrect
<1>2. CASE BufferRecord \/ SplitRecord
  <2>1. /\ pc = "program" /\ pc' = "program" /\ rec.type = "DATA"
        /\ ReadRecord(rec) /\ file' = file
    BY <1>2 DEF BufferRecord, SplitRecord, Programmable, ReadRecord
  <2>2. ~fault /\ WellFormed(file)
    BY <2>1 DEF ReadRecord, ReadNothing, ReadFails, ReadLine
  <2>3. \A a \in UserCells :
          Pending(a)' = IF rec.addr <= a /\ a < rec.addr + Len(rec.data)
                          THEN rec.data[a - rec.addr + 1] ELSE Pending(a)
    BY <1>2, BufferCopies, SplitCopies
  <2>4. \A i \in DataLines(file) : i < LineInHand' <=> i < pos
    BY <1>b, <2>1, <2>2, FollowNext
  <2>5. \A a \in UserCells :
          /\ \A i \in DataLines(file) :
               i < pos /\ Gives(file, i, a)
                 => Pending(a)' = file[i].data[a - AddrOf(file, i) + 1]
          /\ (\A i \in DataLines(file) : i < pos => ~Gives(file, i, a))
               => Pending(a)' = ErasedByte
    BY <1>b, <2>1, <2>2, <2>3, ImageExtends
  <2>6. ImageOfLines(LineInHand)'
    BY <2>1, <2>4, <2>5 DEF ImageOfLines
  <2> QED
    BY <2>1, <2>6 DEF ImageInv, ProgramCorrect
<1>3. CASE SkipRecord
  <2>1. /\ pc = "program" /\ pc' = "program" /\ rec.type # "EOF"
        /\ ReadRecord(rec) /\ file' = file /\ ~Programmable
        /\ flash' = flash /\ bl' = bl
    BY <1>3 DEF SkipRecord, ReadRecord, flashVars
  <2>2. ~fault /\ WellFormed(file)
    BY <2>1 DEF ReadRecord, ReadNothing, ReadFails, ReadLine
  <2>3. \A i \in DataLines(file) : i < LineInHand' <=> i < pos
    BY <1>b, <2>1, <2>2, FollowNext
  <2>4. \A a : Pending(a)' = Pending(a)
    BY <2>1 DEF Pending
  <2>5. ASSUME NEW a \in UserCells, NEW i \in DataLines(file),
               Gives(file, i, a)
        PROVE  i < pos <=> i < pos - 1
    <3>1. i # pos - 1
      BY <1>b, <2>1, <2>2, <2>5, SkippedGivesNothing
    <3>2. i \in Nat /\ pos \in Nat
      BY DEF DataLines, TypeOK, SourceTypeOK
    <3> QED
      BY <3>1, <3>2
  <2>6. ImageOfLines(pos - 1)
    BY <1>b, <2>1, <2>2
  <2>7. ImageOfLines(LineInHand)'
    BY <2>1, <2>3, <2>4, <2>5, <2>6 DEF ImageOfLines
  <2> QED
    BY <2>1, <2>7 DEF ImageInv, ProgramCorrect
<1>4. CASE FlushBlock
  <2>1. /\ pc = "program" /\ pc' = "program" /\ UNCHANGED sourceVars
        /\ LineInHand' = LineInHand
    BY <1>4 DEF FlushBlock, LineInHand, sourceVars
  <2>2. \A a \in UserCells : Pending(a)' = Pending(a)
    BY <1>4, FlushKeepsPending
  <2>3. ImageOfLines(LineInHand)
    BY <2>1 DEF ImageInv, sourceVars
  <2>4. ImageOfLines(LineInHand)'
    BY <2>1, <2>2, <2>3 DEF ImageOfLines, sourceVars
  <2> QED
    BY <2>1, <2>4 DEF ImageInv, ProgramCorrect
<1>5. CASE PastEnd
  <2>1. /\ pc = "program" /\ pc' = "flush" /\ UNCHANGED sourceVars
        /\ PassesEnd(rec) /\ rec.type # "EOF"
    BY <1>5 DEF PastEnd, PassesEnd
  <2>2. ~fault /\ WellFormed(file) /\ file' = file
    BY <2>1 DEF sourceVars
  <2>3. \A a \in UserCells : Pending(a)' = Pending(a)
    BY <1>5, FlushKeepsPending
  <2>4. ASSUME NEW a \in UserCells, NEW i \in DataLines(file),
               Gives(file, i, a)
        PROVE  i < Len(file) + 1 /\ i < pos - 1
    <3>1. ~(i >= pos - 1)
      BY <1>b, <2>1, <2>2, <2>4, NothingPastEnd
    <3>2. i \in 1 .. Len(file) /\ pos \in Nat /\ Len(file) \in Nat
      BY FileType DEF DataLines, TypeOK, SourceTypeOK
    <3> QED
      BY <3>1, <3>2
  <2>5. ImageOfLines(pos - 1)
    BY <1>b, <2>1, <2>2
  <2>6. ImageOfLines(Len(file) + 1)'
    BY <2>2, <2>3, <2>4, <2>5 DEF ImageOfLines
  <2> QED
    BY <2>1, <2>6 DEF ImageInv, ProgramCorrect
<1>6. CASE FlushLast
  <2>1. /\ pc \in {"program", "flush"} /\ pc' = "vopen"
        /\ UNCHANGED sourceVars /\ FlashWrite(bl.buf, bl.start)
        /\ pc = "program" => rec.type = "EOF"
    BY <1>6 DEF FlushLast, AtLastFlush
  <2>2. ~fault /\ WellFormed(file) /\ file' = file
    BY <2>1 DEF sourceVars
  <2>3. ASSUME NEW a \in UserCells
        PROVE  Pending(a) = ImageByte(file, a)
    <3>1. CASE pc = "program"
      <4>1. \A i \in DataLines(file) : i < pos
        BY <2>1, <2>2, <3>1 DEF FollowInv, WellFormed
      <4>2. ImageOfLines(pos)
        BY <2>1, <2>2, <3>1 DEF ImageInv, LineInHand
      <4> QED
        BY <4>1, <4>2, ImageOfAll
    <3>2. CASE pc = "flush"
      <4>1. \A i \in DataLines(file) : i < Len(file) + 1
        BY FileType DEF DataLines, TypeOK, SourceTypeOK
      <4>2. ImageOfLines(Len(file) + 1)
        BY <2>2, <3>2 DEF ImageInv
      <4> QED
        BY <4>1, <4>2, ImageOfAll
    <3> QED
      BY <2>1, <3>1, <3>2
  <2>4. \A a \in UserCells : flash'[a] = ImageByte(file', a)
    BY <2>1, <2>2, <2>3, WriteMakesPending
  <2> QED
    BY <2>1, <2>4 DEF ImageInv, ProgramCorrect
<1>7. CASE pc' \notin {"program", "flush", "vopen", "vread", "verify", "halt"}
  BY <1>7 DEF ImageInv, ProgramCorrect
<1>8. CASE /\ pc \in {"vopen", "vread", "verify"}
           /\ pc' \in {"vread", "verify", "halt"}
           /\ flash' = flash /\ file' = file
  BY <1>8, <1>a DEF ImageInv, ProgramCorrect, PowerLoss
<1>9. ASSUME Verifying
      PROVE  /\ pc \in {"vopen", "vread", "verify"}
             /\ pc' \in {"vread", "verify", "halt"}
             /\ flash' = flash /\ file' = file
  BY <1>9
  DEF Verifying, OpenForVerify, BeginVerify, VerifyMatch, VerifySkip,
      VerifyMismatch, VerifyDone, OpenSource, ReadRecord, SdcardDispose,
      flashVars
<1> QED
  BY <1>0, <1>p, <1>1, <1>2, <1>3, <1>4, <1>5, <1>6, <1>7, <1>8, <1>9
  DEF Next, Step, Programming, Spin, EnterBootloader, EnterUserProgram,
      OpenForProgramHangs, Initialize, OpenForProgram, ErasePage,
      CopyOutOfBounds

(* If the erase loop reaches the end of the user area and FREE stays set,  *)
(* a session in which nothing failed leaves in the user area the bytes of  *)
(* a well-formed file and 0xFF elsewhere: for every layout of its records, *)
(* every former content, and however often power was lost before.          *)
THEOREM ImageCorrect ==
  ASSUME EraseWorks
  PROVE  Spec => []ProgramCorrect
<1>1. ImageInv => ProgramCorrect
  BY EraseWorks DEF ImageInv, ProgramCorrect
<1> QED
  BY <1>1, TypeInit, TypeStep, BlockInit, BlockStep, OrderInit, OrderStep,
     FileInit, FileStep, FollowInit, FollowStep, FreeInit, FreeStep,
     EraseInit, EraseStep, ImageInit, ImageStep, PTL
  DEF Spec

-----------------------------------------------------------------------------
(* The verification compares lines of the file.                            *)

LEMMA CompareInit == Init => CompareInv
BY DEF Init, CompareInv

(* The next record of the verification.                                    *)
LEMMA CompareRead ==
  ASSUME TypeOK, NEW old \in Records, ReadRecord(old), ~fault',
         rec'.type # "EOF", high = HighAt(file, pos),
         \A j \in 1 .. pos - 1 : file[j].type # "EOF"
  PROVE  CompareInv'
<1>0. file \in Seq(Lines) /\ pos \in Nat \ {0} /\ Len(file) \in Nat
  BY FileType DEF TypeOK, SourceTypeOK
<1>1. ReadLine(old)
  BY DEF ReadRecord, ReadNothing, ReadFails, EndOfFile, Records
<1>2. /\ pos \in 1 .. Len(file) /\ pos' = pos + 1 /\ pos' - 1 = pos
      /\ rec' = Parsed(file[pos], old) /\ file' = file
  BY <1>0, <1>1 DEF ReadLine, CanRead, ReadRecord
<1>3. file[pos].type # "EOF"
  BY <1>2 DEF Parsed
<1>4. \A j \in 1 .. pos : file[j].type # "EOF"
  BY <1>0, <1>3
<1>5. CASE file[pos].type = "JUNK"
  <2>1. rec'.data = <<>>
    BY <1>2, <1>5 DEF Parsed
  <2> QED
    BY <1>2, <1>4, <2>1 DEF CompareInv
<1>6. CASE file[pos].type # "JUNK"
  <2>1. rec' = [type |-> file[pos].type, addr |-> high + file[pos].off,
                data |-> file[pos].data]
    BY <1>2, <1>6 DEF Parsed
  <2>2. rec'.type = "DATA" => RecIsLine'
    BY <1>2, <2>1 DEF RecIsLine, AddrOf
  <2> QED
    BY <1>2, <1>4, <2>2 DEF CompareInv
<1> QED
  BY <1>5, <1>6

LEMMA CompareStep ==
  ASSUME TypeOK, FileInv, FollowInv, CompareInv, [Next]_vars
  PROVE  CompareInv'
<1> SUFFICES ASSUME pc' = "verify", ~fault', BeginsWithRecord(file'),
                    rec'.type # "EOF"
             PROVE  CompareInv'
  BY DEF CompareInv
<1>0. CASE UNCHANGED vars
  BY <1>0 DEF CompareInv, RecIsLine, vars, sourceVars
<1>1. CASE BeginVerify
  <2>1. PICK t \in RecordTypes : ReadRecord(Unread(t))
    BY <1>1 DEF BeginVerify
  <2>2. ~fault
    BY <2>1 DEF ReadRecord, ReadNothing, ReadFails, ReadLine
  <2>3. pos = 1 /\ high = 0
    BY <1>1, <2>2 DEF BeginVerify, FileInv
  <2>4. Unread(t) \in Records /\ high = HighAt(file, pos)
    BY <2>3, UnreadType, HighAtFirst
  <2> QED
    BY <2>1, <2>3, <2>4, CompareRead
<1>2. CASE VerifyMatch \/ VerifySkip
  <2>1. pc = "verify" /\ rec.type # "EOF" /\ ReadRecord(rec) /\ file' = file
    BY <1>2 DEF VerifyMatch, VerifySkip, Programmable, ReadRecord
  <2>2. ~fault
    BY <2>1 DEF ReadRecord, ReadNothing, ReadFails, ReadLine
  <2>3. high = HighAt(file, pos) /\ rec \in Records
    BY <2>1, <2>2 DEF FollowInv, TypeOK, SourceTypeOK
  <2>4. \A j \in 1 .. pos - 1 : file[j].type # "EOF"
    BY <2>1, <2>2 DEF CompareInv
  <2> QED
    BY <2>1, <2>3, <2>4, CompareRead
<1> QED
  BY <1>0, <1>1, <1>2
  DEF Next, Step, Programming, Verifying, Spin, EnterBootloader,
      EnterUserProgram, OpenForProgramHangs, Initialize, OpenForProgram,
      ErasePage, BeginProgram, BufferRecord, CopyOutOfBounds, SplitRecord,
      FlushBlock, SkipRecord, PastEnd, FlushLast, OpenForVerify,
      VerifyMismatch, VerifyDone, PowerLoss, AtLastFlush

(* A line that gives a byte to a cell gives the image's byte: in an        *)
(* ascending file no other line gives one.                                 *)
LEMMA ImageOfLine ==
  ASSUME TypeOK, Ascending(file), NEW i \in DataLines(file), NEW a \in Nat,
         Gives(file, i, a)
  PROVE  ImageByte(file, a) = file[i].data[a - AddrOf(file, i) + 1]
<1> DEFINE c == CHOOSE j \in 1 .. Len(file) : Gives(file, j, a)
<1>1. i \in 1 .. Len(file)
  BY DEF DataLines
<1>2. c \in 1 .. Len(file) /\ Gives(file, c, a)
  BY <1>1
<1>3. ImageByte(file, a) = file[c].data[a - AddrOf(file, c) + 1]
  BY <1>1 DEF ImageByte
<1> HIDE DEF c
<1>4. c \in DataLines(file) /\ c \in Nat /\ i \in Nat
  BY <1>1, <1>2 DEF Gives
<1>5. /\ EndOf(file, i) \in Nat /\ AddrOf(file, i) \in Nat
      /\ EndOf(file, c) \in Nat /\ AddrOf(file, c) \in Nat
  BY <1>1, <1>2, FileType, AddrType DEF TypeOK, SourceTypeOK
<1>6. ~(c < i) /\ ~(i < c)
  <2>1. c < i => EndOf(file, c) <= AddrOf(file, i)
    BY <1>4 DEF Ascending
  <2>2. i < c => EndOf(file, i) <= AddrOf(file, c)
    BY <1>4 DEF Ascending
  <2> QED
    BY <1>2, <1>5, <2>1, <2>2 DEF Gives
<1>7. c = i
  BY <1>4, <1>6
<1> QED
  BY <1>3, <1>7

(* No good file fails.                                                     *)
LEMMA NoFalseFail ==
  ASSUME TypeOK, FollowInv, CompareInv, ProgramCorrect, pc = "verify",
         Programmable, ~fault, WellFormed(file)
  PROVE  FlashHolds(rec)
<1>1. /\ BeginsWithRecord(file) /\ rec.type = "DATA"
      /\ InUserArea(rec.addr)
  BY DEF WellFormed, Programmable
<1>2. /\ rec.addr \in Nat /\ rec.data \in Seq(Byte)
      /\ UserStart \in Nat /\ UserEnd \in Nat /\ UserEnd <= FlashSize
      /\ FlashSize \in Nat
  BY FlashAssumption, BootldrAssumption DEF TypeOK, SourceTypeOK, Records
<1> DEFINE n == Len(rec.data)
<1>3. n \in Nat
  BY <1>2
<1>4. ASSUME NEW k \in 1 .. n
      PROVE  FlashRead(rec.addr, n)[k] = rec.data[k]
  <2> DEFINE i == pos - 1
             a == rec.addr + k - 1
  <2>1. RecIsLine
    <3>1. rec.data # <<>>
      BY <1>4
    <3> QED
      BY <1>1, <3>1 DEF CompareInv
  <2>2. i \in DataLines(file)
    BY <1>1, <2>1 DEF FollowInv, CompareInv, DataLines, RecIsLine
  <2>3. /\ AddrOf(file, i) = rec.addr /\ file[i].data = rec.data
        /\ EndOf(file, i) = rec.addr + n
    BY <2>1 DEF RecIsLine, EndOf
  <2>4. a \in Nat /\ rec.addr <= a /\ a < rec.addr + n
    BY <1>2, <1>3
  <2>5. Gives(file, i, a)
    BY <2>2, <2>3, <2>4 DEF Gives
  <2>6. UserStart <= a /\ a < UserEnd
    <3>1. WithinOneArea(file, i)
      BY <2>2 DEF WellFormed
    <3>2. UserStart <= rec.addr /\ rec.addr < UserEnd
      BY <1>1 DEF InUserArea
    <3> QED
      BY <1>2, <1>3, <2>3, <2>4, <3>1, <3>2 DEF WithinOneArea
  <2>7. a \in UserCells /\ a \in Cells
    BY <1>2, <2>4, <2>6 DEF UserCells, Cells
  <2>8. flash[a] = ImageByte(file, a)
    BY <2>7 DEF ProgramCorrect
  <2>9. ImageByte(file, a) = rec.data[a - rec.addr + 1]
    BY <2>2, <2>3, <2>4, <2>5, ImageOfLine DEF WellFormed
  <2>10. a - rec.addr + 1 = k
    BY <1>2
  <2> QED
    BY <2>7, <2>8, <2>9, <2>10 DEF FlashRead
<1>5. /\ FlashRead(rec.addr, n) = [k \in 1 .. n |-> FlashRead(rec.addr, n)[k]]
      /\ rec.data = [k \in 1 .. n |-> rec.data[k]]
  BY <1>2 DEF FlashRead
<1> QED
  BY <1>4, <1>5 DEF FlashHolds

-----------------------------------------------------------------------------
(* The refinement.                                                         *)

Inv ==
  /\ TypeOK /\ BlockInv /\ OrderInv /\ FileInv /\ FollowInv
  /\ FreeInv /\ EraseInv /\ ImageInv /\ CompareInv

LEMMA InvInit == Init => Inv
BY TypeInit, BlockInit, OrderInit, FileInit, FollowInit, FreeInit, EraseInit,
   ImageInit, CompareInit
DEF Inv

LEMMA InvStep == Inv /\ [Next]_vars => Inv'
BY TypeStep, BlockStep, OrderStep, FileStep, FollowStep, FreeStep, EraseStep,
   ImageStep, CompareStep
DEF Inv

LEMMA PromiseInit == Init => Promise!Init
BY DEF Init, SourceInit, Promise!Init, Phase

LEMMA PromiseStep ==
  ASSUME EraseWorks, Inv, Inv', [Next]_vars
  PROVE  [Promise!Next]_(Promise!vars)
<1>a. \A a \in Cells : a < UserStart => flash'[a] = flash[a]
  BY BootAreaStep DEF Inv
<1>b. ~PowerLoss => (fault => fault')
  BY FaultStays
<1>c. fault' \in BOOLEAN
  BY DEF Inv, TypeOK, SourceTypeOK
<1>d. EraseWorks => ProgramCorrect /\ ProgramCorrect'
  <2>1. ImageInv /\ ImageInv'
    BY DEF Inv
  <2>2. EraseWorks'
    BY DEF EraseWorks
  <2> QED
    BY <2>1, <2>2 DEF ImageInv, ProgramCorrect
<1>1. CASE UNCHANGED vars \/ EnterBootloader \/ EnterUserProgram \/ Spin
  <2>1. UNCHANGED <<flash, file, fault, Phase, verdict>>
    BY <1>1
    DEF vars, flashVars, sourceVars, Phase, EnterBootloader,
        EnterUserProgram, Spin
  <2> QED
    BY <2>1 DEF Promise!vars
<1>2. CASE Initialize \/ OpenForProgram \/ OpenForProgramHangs
  <2>1. /\ Phase = "idle" /\ Phase' \in {"idle", "working"}
        /\ UNCHANGED <<flash, file, verdict>>
    BY <1>2
    DEF Initialize, OpenForProgram, OpenForProgramHangs, SdcardInitialize,
        OpenSource, OpenHangs, FlashEraseBegin, Phase, flashVars
  <2>2. ~PowerLoss
    BY <1>2 DEF Initialize, OpenForProgram, OpenForProgramHangs, PowerLoss
  <2>3. Promise!Begin
    BY <1>b, <1>c, <2>1, <2>2
    DEF Promise!Begin, Promise!Same, Promise!CardMayFail
  <2> QED
    BY <2>3 DEF Promise!Next
<1>3. CASE \/ ErasePage \/ BeginProgram \/ BufferRecord \/ SplitRecord
           \/ FlushBlock \/ PastEnd \/ SkipRecord
  <2>1. /\ Phase = "working" /\ Phase' = "working" /\ pc' # "reset"
        /\ UNCHANGED <<file, verdict>>
    BY <1>3
    DEF ErasePage, BeginProgram, BufferRecord, SplitRecord, FlushBlock,
        PastEnd, SkipRecord, ReadRecord, sourceVars, Phase
  <2>2. ~PowerLoss
    BY <2>1 DEF PowerLoss
  <2>3. Promise!Work
    BY <1>a, <1>b, <1>c, <2>1, <2>2
    DEF Promise!Work, Promise!BootKept, Promise!CardMayFail
  <2> QED
    BY <2>3 DEF Promise!Next
<1>4. CASE CopyOutOfBounds
  <2>1. /\ Phase = "working" /\ Phase' = "lost" /\ pc' = "undefined"
        /\ UNCHANGED <<flash, file, fault, verdict>>
    BY <1>4 DEF CopyOutOfBounds, flashVars, sourceVars, Phase
  <2>2. ~WellFormed(file)
    BY <2>1 DEF Inv, OrderInv, CopyInBounds, WellFormed
  <2>3. Promise!Lose
    BY <2>1, <2>2 DEF Promise!Lose, Promise!Same
  <2> QED
    BY <2>3 DEF Promise!Next
<1>5. CASE FlushLast
  <2>1. /\ Phase = "working" /\ Phase' = "written" /\ pc' = "vopen"
        /\ UNCHANGED <<file, fault, verdict>>
    BY <1>5 DEF FlushLast, AtLastFlush, sourceVars, Phase
  <2>2. ~fault /\ WellFormed(file)
          => \A a \in Cells : UserStart <= a /\ a < UserEnd
                => flash'[a] = ImageByte(file, a)
    <3>1. SUFFICES ASSUME ~fault, WellFormed(file), NEW a \in Cells,
                          UserStart <= a, a < UserEnd
                   PROVE  flash'[a] = ImageByte(file, a)
      OBVIOUS
    <3>2. a \in UserCells
      BY <3>1, FlashAssumption, BootldrAssumption DEF Cells, UserCells
    <3> QED
      BY <1>d, <2>1, <3>1, <3>2 DEF ProgramCorrect
  <2>3. Promise!Finish
    BY <1>a, <2>1, <2>2 DEF Promise!Finish, Promise!BootKept
  <2> QED
    BY <2>3 DEF Promise!Next
<1>6. CASE OpenForVerify \/ BeginVerify \/ VerifyMatch \/ VerifySkip
  <2>1. /\ Phase = "written" /\ Phase' = "written" /\ pc' # "reset"
        /\ UNCHANGED <<flash, file, verdict>>
    BY <1>6
    DEF OpenForVerify, BeginVerify, VerifyMatch, VerifySkip, OpenSource,
        ReadRecord, flashVars, Phase
  <2>2. ~PowerLoss
    BY <2>1 DEF PowerLoss
  <2>3. Promise!Check
    BY <1>b, <1>c, <2>1, <2>2
    DEF Promise!Check, Promise!Same, Promise!CardMayFail
  <2> QED
    BY <2>3 DEF Promise!Next
<1>7. CASE VerifyMismatch \/ VerifyDone
  <2>1. /\ Phase = "written" /\ Phase' = "over"
        /\ UNCHANGED <<flash, file, fault>> /\ verdict' \in {"PASS", "FAIL"}
    BY <1>7
    DEF VerifyMismatch, VerifyDone, SdcardDispose, flashVars, Phase
  <2>2. ~fault /\ WellFormed(file) => verdict' = "PASS"
    <3>1. CASE VerifyDone
      BY <3>1 DEF VerifyDone
    <3>2. CASE VerifyMismatch
      BY <1>d, <3>2, NoFalseFail DEF VerifyMismatch, Inv
    <3> QED
      BY <1>7, <3>1, <3>2
  <2>3. Promise!Judge
    BY <2>1, <2>2 DEF Promise!Judge
  <2> QED
    BY <2>3 DEF Promise!Next
<1>8. CASE PowerLoss
  <2>1. Phase' = "idle" /\ verdict' = "none" /\ ~fault'
    BY <1>8 DEF PowerLoss, SourceReset, Phase
  <2>2. Promise!Cut
    BY <1>a, <2>1 DEF Promise!Cut, Promise!BootKept
  <2> QED
    BY <2>2 DEF Promise!Next
<1> QED
  BY <1>1, <1>2, <1>3, <1>4, <1>5, <1>6, <1>7, <1>8
  DEF Next, Step, Programming, Verifying

(* If erasing works, a session keeps the promise of Reprogram: every step  *)
(* of the bootloader, and every loss of power, is a step of the abstract   *)
(* session or none.  In particular a good file that can be read ends with  *)
(* its image in the memory, and with PASS, never with FAIL.                *)
THEOREM PromiseKept ==
  ASSUME EraseWorks
  PROVE  Spec => KeepsPromise
<1>1. Inv /\ Inv' /\ [Next]_vars => [Promise!Next]_(Promise!vars)
  BY EraseWorks, PromiseStep
<1> QED
  BY <1>1, InvInit, InvStep, PromiseInit, PTL
  DEF Spec, KeepsPromise, Promise!Spec
=============================================================================
