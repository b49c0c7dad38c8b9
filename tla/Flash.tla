------------------------------- MODULE Flash -------------------------------
(***************************************************************************)
(* The program memory of the microcontroller and the four routines of      *)
(* bootldr.c that touch it: flash_erase, flash_read, flash_write and the   *)
(* flash_commit the first and the last share.                              *)
(*                                                                         *)
(* The self-programming hardware is external: a write command (WR) acts on *)
(* the page or the block that TBLPTR points into, erases the page when     *)
(* FREE is set and otherwise clears bits of the block, and does nothing    *)
(* unless WREN is set.  FreeSelfClears says whether the hardware clears    *)
(* FREE once an erase has completed; flash_erase is written as if it does  *)
(* not.                                                                    *)
(***************************************************************************)
EXTENDS Integers, Bytes

CONSTANTS
  FlashSize,        \* bytes of program memory                   (0x20000)
  BlockSize,        \* PROGRAM_BLOCK_SIZE_IN_BYTES                    (64)
  EraseSize,        \* ERASE_BLOCK_SIZE_IN_BYTES                    (1024)
  UserStart,        \* USER_PROGRAM_START_ADDRESS                 (0x8000)
  FreeSelfClears    \* the hardware clears FREE after an erase

ASSUME FlashAssumption ==
  /\ BlockSize \in Nat \ {0}
  /\ EraseSize \in Nat \ {0}
  /\ FlashSize \in Nat
  /\ UserStart \in Nat
  /\ UserStart % BlockSize = 0
  /\ UserStart % EraseSize = 0
  /\ FreeSelfClears \in BOOLEAN

VARIABLES
  flash,            \* the program memory
  eecon1,           \* the WREN and FREE bits of EECON1
  tblptr            \* the table pointer

flashVars == <<flash, eecon1, tblptr>>

Cells == 0 .. FlashSize - 1

Block == [0 .. BlockSize - 1 -> Byte]

FlashTypeOK ==
  /\ flash \in [Cells -> Byte]
  /\ eecon1 \in [wren : BOOLEAN, free : BOOLEAN]
  /\ tblptr \in Nat

(* The address of the block or of the page that an address lies in:        *)
(* `address & BLOCK_ALIGN_CONSTANT' is AlignDown(address, BlockSize).      *)
AlignDown(a, size) == a - (a % size)

SameBlock(a, b) == AlignDown(a, BlockSize) = AlignDown(b, BlockSize)

SamePage(a, b) == AlignDown(a, EraseSize) = AlignDown(b, EraseSize)

BlankBlock == [i \in 0 .. BlockSize - 1 |-> ErasedByte]

ControlAfterReset == [wren |-> FALSE, free |-> FALSE]

-----------------------------------------------------------------------------
(* flash_commit: the memory after a WR command, issued with the control    *)
(* bits ee and TBLPTR at ptr, the holding registers containing holding.    *)
(* The caller has the processor to itself: flash_commit clears GIE, and    *)
(* the core stalls until the command is complete.                          *)
Committed(ee, ptr, holding) ==
  [a \in Cells |->
     IF ee.wren /\ ee.free /\ SamePage(a, ptr)
       THEN ErasedByte
     ELSE IF ee.wren /\ ~ee.free /\ SameBlock(a, ptr)
       THEN flash[a] \cap holding[a % BlockSize]
     ELSE flash[a]]

ControlAfterCommit(ee) ==
  [ee EXCEPT !.free = @ /\ ~(ee.wren /\ FreeSelfClears)]

(* flash_erase: the prologue, one round of the loop, the epilogue.         *)
FlashEraseBeginNoAddress ==        \* mutant: TBLPTR is not set
  /\ eecon1' = [wren |-> TRUE, free |-> TRUE]
  /\ UNCHANGED <<flash, tblptr>>

FlashEraseBegin ==
  /\ tblptr' = UserStart
  /\ eecon1' = [wren |-> TRUE, free |-> TRUE]
  /\ UNCHANGED flash

FlashErasePageByBlock ==           \* mutant: TBLPTR advances by a block
  /\ flash' = Committed(eecon1, tblptr, BlankBlock)
  /\ eecon1' = ControlAfterCommit(eecon1)
  /\ tblptr' = tblptr + BlockSize

FlashErasePage ==
  /\ flash' = Committed(eecon1, tblptr, BlankBlock)
  /\ eecon1' = ControlAfterCommit(eecon1)
  /\ tblptr' = tblptr + EraseSize

FlashEraseEnd ==
  /\ eecon1' = [wren |-> FALSE, free |-> FALSE]
  /\ UNCHANGED <<flash, tblptr>>

(* flash_write: byte i of the buffer goes to the holding register that the *)
(* low bits of TBLPTR select; the post-increment leaves TBLPTR one past    *)
(* the block and the dummy tblrd*- brings it back inside before the        *)
(* commit.  WREN is left set: line 294 is commented out.                   *)
Holding(buffer, address) ==
  [k \in 0 .. BlockSize - 1 |-> buffer[(k - address) % BlockSize]]

WritePointer(address) == address + BlockSize - 1

WriteControl(ee) == [ee EXCEPT !.wren = TRUE]

FlashWritten(buffer, address) ==
  Committed(WriteControl(eecon1), WritePointer(address),
            Holding(buffer, address))

FlashWrite(buffer, address) ==
  /\ flash' = FlashWritten(buffer, address)
  /\ eecon1' = ControlAfterCommit(WriteControl(eecon1))
  /\ tblptr' = WritePointer(address)

(* flash_read: n bytes from address on.  Memory that is not implemented    *)
(* reads as zero.                                                          *)
FlashRead(address, n) ==
  [i \in 1 .. n |->
     IF address + i - 1 \in Cells THEN flash[address + i - 1] ELSE ZeroByte]

TblptrAfterRead(address, n) == address + n
=============================================================================
