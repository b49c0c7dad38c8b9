# PICBoot: specifications, model checking and proofs

TLA+ specifications of the PICBoot bootloader (`src/`), the TLC configurations
that check them on small instances and the proofs that TLAPS checks for all
values of the constants. `PROJECT.json` lists components, runs, mutants, the map
from definitions to source lines, hazards, findings and theorems.

```
tlc -config layouts.cfg MCBootldr.tla        # any run: see the table below
tlapm Bootldr_proofs.tla                     # the proofs
tlapm DiskTimers_proofs.tla
tlapm BootVectors_proofs.tla
tlapm DiskIo_proofs.tla
tlapm DataInduction.tla
tlapm SdReader_proofs.tla
tlapm PetitFat_proofs.tla
tlapm PetitFatFile_proofs.tla
```

## 1. The system

PICBoot runs on a PIC18F27J53. At reset it looks at a switch: with the switch
off it jumps to the user program at 0x8000; with the switch on it erases the
application area of the program memory, programs it from the Intel hex file
`platform.hex` on a FAT-formatted SD card, verifies it, shows PASS or FAIL and
stops. Everything runs in one thread of control with one interrupt, a timer
that counts down two timeouts of the card driver.

| Component | Source (`src/modules/`) | State it keeps | Operations |
|---|---|---|---|
| main program, vectors | `app/src/main.c`, `app/h/app.h` | place in `main`, interrupt enables, Timer 0, the switch | reset, start-up, switch test, session, jump to the user program, two remapped vectors, timer interrupt |
| bootloader core | `bootldr/src/bootldr.c`, `bootldr/h/bootldr.h` | `Bootloader` (block address, 64-byte buffer), current record | `Bootldr_Initialize`, `_Program`, `_Verify`, `_Erase` (`_TestHarness` unused) |
| flash routines | `bootldr/src/bootldr.c` 212-321 | program memory, EECON1, TBLPTR, holding registers | `flash_erase`, `flash_read`, `flash_write`, `flash_commit` |
| hex reader | `bootldr/src/hexreader.c` | `currentHighAddress`, the caller's `HexRecord` | `open_source`, `read_record`, `parse_hex_line`, `convert_hex_digit` |
| SD card file access | `sdcard/src/sdcard.c` | `currentFile`, `fileSystem`, `dataBuffer[64]` | `SDCARD_Initialize`, `_OpenFile`, `_ReadLine`, `_Dispose` |
| Petit FatFs | `sdcard/src/pff.c` | `FatFs`, flag, file pointer, current cluster and sector | `pf_mount`, `pf_open`, `pf_read`, `pf_lseek` (`pf_write`, `pf_opendir`, `pf_readdir` unused) |
| SD card driver | `sdcard/src/diskio.c` | `Timer1`, `Timer2`, `CardType`, SPI | `disk_initialize`, `disk_readp`, `send_cmd`, `wait_ready`, `disk_timerproc` (`disk_writep` unused) |
| display | `crystalfontz/src/lcd.c` | pins | `LCD_WriteFromROM`, `DelayMS` |

How they interact: `main` calls the core; the core calls the hex reader for one
record at a time and the flash routines for one page or block at a time; the
reader calls the file access for one line, which calls `pf_read` once per
character, which calls `disk_readp` once per character. Results travel back as
return values that are mostly ignored. State shared across components: the
caller's record (written by the reader, also when it fails), the line buffer,
FatFs's open flag (cleared by a failed read), `currentFile` (kept from
programming to verification), EECON1 (left set by `flash_write`), GIE (cleared
and set by `flash_commit`), FatFs and the open flag again (left by a reset as
they were, because the start-up code does not clear RAM), the two timers
(written by the driver, counted down by the interrupt) and the switch (read by
`main` and by both vectors).

Which behaviours are hard, and what makes each component correct:

* **Core.** Records of any length and alignment are cut into blocks of 64 bytes;
  a block must be written once, to the right place, with every byte of the file
  and 0xFF elsewhere. Records may start below, end above or lie outside the user
  area; the file may be out of order. Correct if an undisturbed session leaves
  the image of the file, if PASS is deserved, and if sessions end.
* **Flash.** A command acts on the page or block TBLPTR points into, according
  to sticky control bits; bits can only be cleared. Correct if the bootloader's
  own area is never touched and no cell is programmed twice.
* **Power loss**, at any point and inside a command, with another file on the
  card afterwards, and with what RAM held before. Correct if the next session
  repairs it.
* **Reader and files.** Every failure looks like the end of the file; buffers
  and records are reused; positions survive a failed open. Correct if the
  records are those of the file.
* **File system.** Nothing is cached but a place in a cluster chain, carried from
  call to call; table entries may lie across sectors, files are fragmented, and
  any transfer may fail. Correct if callers see files of bytes.
* **Card.** Kinds of card that answer differently, commands and answers that get
  lost, waits that end. Correct if an accepted card is addressed in its own unit
  and a read that reports success has delivered the bytes asked for.
* **Interrupts.** 16-bit timers shared with the interrupt on an 8-bit processor;
  an unlock sequence that must not be interrupted; vectors that read the switch.

The complete list of hazards, with the line where each bites and the properties
that cover it, is under `hazards` in `PROJECT.json`.

## 2. Modules

| Module | Models | Stands on |
|---|---|---|
| `Bytes` | a byte as a set of bits, over a set `Bits` of positions | |
| `Flash` | program memory, EECON1, TBLPTR; the flash routines as action operators | `Bytes` |
| `HexSource` | the hex data source line by line; also, what a file *says* (`HighAt`, `AddrOf`, `Ascending`), in addresses of 24 bits; its own specification `SourceSpec` | `Bytes` |
| `Bootldr` | reset, session, programming and verification loops, power loss; the properties of the system and its invariants | `Flash`, `HexSource` |
| `Reprogram` | abstract: what a session promises to whoever puts a card into the device; `Bootldr` implements it | |
| `HexLine` | `parse_hex_line`, `convert_hex_digit` on characters | |
| `SdReader` | the same data source character by character through the 64-byte line buffer; refines `HexSource` | `HexLine`, `HexSource` (instance `Source`) |
| `DiskTimers` | the two timers, the two waits, `disk_timerproc` | |
| `BootVectors` | `main` and the vectors as seen by interrupts, `flash_commit`'s unlock sequence, the waits | `DiskTimers` |
| `DiskIo` | `disk_initialize`, `send_cmd` and `disk_readp` against a card of any kind that may lose commands and answers | |
| `FatVolume` | what a card formatted with FAT12 or FAT16 says, independently of the program | |
| `PetitFat` | `pf_mount`, `pf_open`, `pf_read`, `pf_lseek` of `pff.c` on such a card | `FatVolume` |
| `ByteFile` | abstract: files of bytes, and which calls may fail; `PetitFat` implements it | |
| `Bootldr_proofs` | theorems | `Bootldr` |
| `DiskTimers_proofs`, `BootVectors_proofs` | theorems; the second uses those of the first | `DiskTimers`, `BootVectors` |
| `DiskIo_proofs` | theorems | `DiskIo` |
| `DataInduction` | lemmas: induction and recursion over the numbers, the parts of a concatenation | |
| `SdReader_proofs` | theorems | `SdReader`, `DataInduction` |
| `PetitFat_proofs` | lemmas about tables, chains and files of a volume; theorems | `PetitFat`, `DataInduction` |
| `PetitFatFile_proofs` | the theorem that `PetitFat` implements `ByteFile` | `PetitFat_proofs` |
| `MCBootldr`, `MCSdReader`, `MCBootVectors`, `MCDiskIo`, `MCPetitFat` | instances for TLC | |

### Bootldr with Flash and HexSource

One action is one pass through a loop of the C code, or the straight code
between two loops. `pc` says where `main` is:

| `pc` | In the code | Actions |
|---|---|---|
| `reset` | `main`, the switch | `EnterBootloader`, `EnterUserProgram` |
| `init`, `open` | `Bootldr_Initialize`, `open_source` | `Initialize`, `OpenForProgram`, `OpenForProgramHangs` |
| `erase` | the loop of `flash_erase` | `ErasePage`, `BeginProgram` |
| `program` | the loop of `Bootldr_Program` | `BufferRecord`, `SplitRecord`, `FlushBlock`, `PastEnd`, `SkipRecord`, `CopyOutOfBounds` |
| `flush` | after the loop | `FlushLast` |
| `vopen`, `vread`, `verify` | `Bootldr_Verify` | `OpenForVerify`, `BeginVerify`, `VerifyMatch`, `VerifySkip`, `VerifyMismatch`, `VerifyDone` |
| `halt`, `user`, `hung` | `while(1)`, the user program, the wait in `xchg_spi` with the port off | `Spin` |

Every action that reads a record contains the whole of `ReadRecord`: the end of
the file, a failed transfer and a line are its three outcomes. `currentRecord`
is a local variable that is not initialized, so its first type is any type
(`Unread`). A line without a colon leaves the type of the previous record. The
copy into `data_buffer` is not tested in the code; when its index is negative
the state becomes `undefined` and the model says no more. `PowerLoss` may come
between any two actions; if a flash command was about to run, any subset of the
cells it changes has changed (`Torn`). The card may come back with another file.

The start-up code that is linked (`c018i.o`, in
`bootldr/lkr/18f27j53_btldr.lkr:18`) does not clear RAM. What is read before the
program writes it therefore holds anything at power-on, and anything or what it
held before after a reset: `FatFs` (`mounted`) and the flag of `fileSystem`
(`opened`). `pf_mount` clears `FatFs` first of all, but `SDCARD_Initialize`
calls it only if `disk_initialize` has succeeded. If it has not, the port is off
(`sspen`) and `FatFs` may be set; `pf_open` then waits for ever in `xchg_spi`.
That is `OpenHangs`, and `hung` is where `main` is then. All other variables are
written before they are read; `currentFile` is by `SDCARD_Initialize`. A `FatFs`
with random contents is taken for a pointer to `fileSystem`: what `pf_open`
writes through a pointer to elsewhere is not modelled.

The hardware is external, modelled from how the code uses it. Whether it clears
FREE after an erase is the constant `FreeSelfClears`: the code is written as if
it does not, and most runs take it at its word. `fault` is a history variable:
the card, the volume, the file or a transfer has failed since power came on.
Calls that succeed or fail are chosen freely, so each property says what it
needs of `fault`.

### Reprogram

`Bootldr`'s properties say one thing each; `Reprogram` says what they amount to.
A session is idle, then working, then has written, then is over with a verdict.
While it works nothing below the user area changes; when it has finished, a good
file that could be read is in the user area, byte by byte; from then on the
memory is left alone; and FAIL is shown only if the card failed or the file is
not good. Power may be lost at any time, the memory of the user area is then
anything, and the next session makes the same promise about the file that is on
the card then. `KeepsPromise` maps the memory to `flash`, "good" to `WellFormed`,
the image to `ImageByte`, the phase to groups of places in `main` (`Phase`).
What `Reprogram` does not promise is that PASS is deserved by a file that is not
good, or when something failed: the first is `PassMeansMatch`, the second is
false (finding 1).

### SdReader and HexLine

`SDCARD_ReadLine` reads a character at a time. The variables are the C
variables; the text of the file is a sequence of characters, where a hex digit
is represented by its value. The line buffer keeps what earlier lines left, and
`parse_hex_line` reads as many characters as the record's length byte says.
The refinement `ImplementsSource` maps the byte position to a line position
(the lines completed, from a history variable `lineStart` that marks where the
line in progress began) and the record's numbers to sets of bits. So what `Bootldr`
assumes of its data source is what the byte-level code does, for the kinds of
line in the files: records of at most `MAX_HEX_PAYLOAD_SIZE_IN_BYTES` bytes with
hex digits, and lines without a colon. Truncated records and counts above 32 are
outside the model. `FatFs`, the open flag and the port are as in `HexSource`; that no
byte of a file is asked for through a port that is off is `ReadsOnLivePort`.

### DiskTimers and BootVectors

A timer is two bytes. As built (`bin/PicBoot.hex`) the low byte is written
first and tested first, and an interrupt may come in between; `disk_timerproc`
runs to its end. An interrupt takes much less than the time between two, so the
main program makes at least a step in between (`ran`). `BootVectors` adds the
bits of INTCON, `TMR0ON` and the switch: each assignment of
`InitializeApplication` and of the path to the user program is a step, each
instruction of the unlock sequence is one, and an interrupt is taken when the
hardware would take it. `moved` remembers that the switch was moved after
`main` had looked at it. The user program may enable interrupts for itself. A
session is any order of waits and flash commands; the order that `Bootldr`
gives them does not matter here.

### DiskIo

One action is one command of `disk_initialize` with what follows its answer, one
round of a start-up loop, or one byte of a data packet in `disk_readp`. `pc`
names the command (`cmd0` to `cmd17`) or the loop of `disk_readp`; `tmr`, `ty`,
`CardType` and the counts are the C variables. `SDCARD_Initialize` and
`pf_mount` both call `disk_initialize`, one after the other (`caller`); the
second one is called only if the first has succeeded. `fatFs` is `FatFs`: null,
set by a mount since the last reset, or left from before it. As in the code
nothing but a null `FatFs` keeps a caller from `Readp`, and with the port off an
exchange does not return (`SendCmd`). `Reset` may come at any point. The card is
external: SDHC, SD version 2 or 1, MMC or none, in any state when power comes
on. It answers as its kind does, leaves its idle state when it likes, and any
command or the answer to it may be lost (`Exchange`). One assumption bounds its
lateness: what it has not begun to send when the wait of 200 ms ends it does not
send later. A packet's bytes are pairs of sector and offset, so that
`ReadIsExact` can say which bytes were stored. The waits inside `send_cmd` end
either way here; that they end is shown in `DiskTimers` and `BootVectors`. `cnt`
is at least 1, as every caller in `pff.c` passes it (a count of 0 would wrap in
`do ... while (--cnt)`).

### PetitFat, FatVolume and ByteFile

One action is one round of a loop of `pff.c` (one directory entry, one link of a
chain, one part of a sector) or the code before one; `fs`, `dj` and the local
variables are the C variables. Each `disk_readp` may fail, at any time; the codes
returned and what is left of `fs` then are those of the code. A card is a
function from sectors to contents of four kinds (boot record, allocation table,
directory, data). Table bytes are numbers, because a FAT12 entry may lie across
two sectors and is taken apart with shifts; a data byte is the pair of its sector
and offset, so that a byte from a wrong place is a different byte.

`FatVolume` says what such a card means as the file system defines it: the areas
of a volume, the links of a chain, the path of names to a file, its bytes.
`ByteFile` is what a caller of `pff.c` may rely on, and `ImplementsFile` maps the
FATFS object to an open file and a position in it; the files themselves come from
`FatVolume`. `ChainPosition` says what the object remembers between calls:
`curr_clust`, `csect` and `dsect` belong to the position, with the irregular
cases at the borders of sectors and clusters.

Assumed of a card (`IsDisk`): in a boot record that names a FAT volume the areas
lie one behind the other and inside the volume, the number of sectors in a
cluster is a power of two and the root directory fills its sectors
(`Formatted`); sectors that are not of the kind their place asks for read as
zeros. The masks of `pff.c` (lines 197, 754) are remainders in the model, which
is the same for powers of two. Nothing is assumed of chains, directories or
sizes. What a failed transfer in `check_fs` can lead to is finding 6; the
theorems have the hypothesis `NoMisleadingCard`, which excludes the cards on
which it does. `FatFs` begins here with the first `pf_mount`, which clears it; a
call of `pf_open` before that is the subject of `DiskIo` and `HexSource`. A path
is any sequence of characters in the runs' alphabet `Char`; `toupper` must not
leave it (`CharAssumption`).

`SdReader` uses of all this one file, opened by one name, rewound, and read one
byte at a time: the steps `OpenNamed`, `SeekToStart`, `ReadChar` and
`TransferFails` are `ByteFile`'s `Open`, `Seek` to 0 and `Read` of one byte. A
seek to 0 needs no transfer and so cannot fail (`SeekToStart` in both modules). The
chain from `DiskIo` to `PetitFat` is of the same kind: `ReadIsExact` is the
reason why a successful `disk_readp` delivers the bytes of the sector in
`PetitFat`, and every other result is a failed transfer. These two links are
argued here, not checked.

## 3. Runs

| Run | Instance | Expected | Shows |
|---|---|---|---|
| `layouts` | all pairs and many triples of records, in and out of order, and odd files; two initial memories; faults | pass | `CopyInBounds`, `ProgramCorrect`, `PassMeansMatch`, `NoOverprogramming`, `ProgramStaysInUserArea`: block buffering is right for every alignment |
| `live` | odd files, faults, a power loss anywhere, torn commands, file exchanged, RAM arbitrary; fairness | pass | `TypeOK`, `ProgramCorrect`, `BootAreaKept`, `SessionEnds`, `GoodFilePasses`, `KeepsPromise`: a session does what `Reprogram` promises |
| `sdreader` | 6 shapes of file with and without a final line end, buffer of 20 | pass | `TypeOK`, `ImplementsSource`, `OverrunOnlyByLongLine`, `ReadsOnLivePort` |
| `vectors` | bytes of 8, waits of 15 and 6 ticks, switch moved at any time | pass | `TypeOK`, `UnlockUninterrupted`, `NoEarlyInterrupt`, `VectorsFollowMode`, `TimesOutNotBefore`, `TimesOutInTime`, `CardWaitEnds` |
| `diskio` | 7 sectors of 3 bytes, all kinds of card, 2 rounds of the start-up loops, any loss, resets that leave `FatFs` | pass | `TypeOK`, `ReadIsExact`, `CardIsKnown`, `BusIsFree`, `PortIsOn`, `DriverReturns` |
| `petitfat` | a FAT12 and a FAT16 volume and four cards without one, 8 paths, any transfer fails | pass | `TypeOK`, `ChainPosition`, `MountsTheVolume`, `ImplementsFile`, `CallsReturn` |
| `verify_fault` | odd files, faults | violation | finding 1, `VerifyIsHonest` |
| `free_erase` | `FreeSelfClears = TRUE` | violation | finding 2, `EraseIsComplete` |
| `sdreader_payload` | the device's 64-byte buffer, records of 24 to 32 bytes | violation | finding 3, `PayloadFitsBuffer` |
| `vectors_mode` | as `vectors` | violation | finding 4, `ModeFixedAtStartup` |
| `stale_fatfs` | as `diskio` | violation | finding 5, `ReadNeedsMount` |
| `wrong_volume` | a card formatted as a whole that had a partition before | violation | finding 6, `MountsTheVolume` |

Bounds, and why they are enough:

* Memory of 24 bytes, pages of 8, blocks of 4, the bootloader in the first page,
  the user area from 8 to 21 with two configuration bytes behind it in the last
  page, as on the device. Two pages, four blocks and two extended linear
  addresses in the user area: each border of the device (page, block,
  start, end, high address) occurs, at a distance from the others.
  `NumBlocksToErase = 1` makes two rounds of the erase loop, as 95 makes 96.
* Records of 1 and 3 bytes with blocks of 4: inside a block, exactly to its end,
  across it by one or two bytes. Longer records than a block cannot occur
  (32 < 64), and `BootldrAssumption` says so. Addresses run from two bytes below
  the user area to two above it.
* Two bits to a byte: enough to tell an erased byte, a zero and two different
  data bytes, and to see bits merged by programming a cell twice.
* `MaxResets`: one loss of power, at any step, that leaves any part of a command
  done; the session after it may read another file. `BootAreaKept` is proved for
  any number of losses.
* `DiskIo`: sectors of 3 bytes let each of the three loops of `disk_readp` run
  never, once and more than once (the last always runs, for the CRC). Of 7
  sectors, sectors 1 and 2 are reached through byte addresses 3 and 6, which are
  sectors too: an address in the wrong unit reads another sector instead of
  failing. Two rounds for 25000 have a last one and one before it.
* `MaxTicks`: the tick counter of `DiskTimers` stops above both timeouts, where
  no property looks. On the device's values a timeout of 500 passes the high
  byte's only transition to zero once and a timeout of 200 never; 15 and 6 with
  bytes of 8 keep that. The bounds are proved for all values.
* `petitfat`: sectors of 4 bytes or 2 directory entries, names of 2 + 1
  characters, FAT16 from 9 clusters on, 16 directory entries that can be counted.
  The first volume is FAT12 without a partition table, two sectors to a cluster:
  `AB.H` is in clusters 2, 5 and 3, its last byte alone in a sector; entries of
  the table lie across sectors; a directory has a second cluster; a file's chain
  ends before its size. The second is FAT16 in a partition, with one sector to a
  cluster, a full root directory and a directory whose chain is a circle. Reads
  of 1, 5 and 10 bytes and seeks to 0, 3, 4, 8, 9, 12, 17 and 30 begin and end
  inside, on and beyond every border of sector and cluster, forwards and back.
  The eight paths reach a file, one in a subdirectory, the root, a directory, a
  name that is too long, a way through a file, a name behind a circle and one
  that is not there. 70319 states.

Fairness. `Bootldr`: weak fairness of the processor's steps (`Step`); loops that
wait for the card lie inside a step, but for the wait on a port that is off,
which is the state `hung`. `SessionEnds` says that only a session that began
with `FatFs` set, and in which the card has failed, gets there. That the other
waits end is what `CardWaitEnds` of `BootVectors` shows, under weak fairness of
the steps of `main` and of a loop that do not depend on the card, of the timer
and of interrupt delivery: the processor runs and the hardware counts. Nothing
is assumed about the card, about power or about the switch; `CardWaitEnds`
therefore excuses a moved switch, which takes the timer interrupt away from the
bootloader.

`DriverReturns` of `DiskIo` and `CallsReturn` of `PetitFat` assume that the
processor goes on (weak fairness of `Driver`, of `Step`) and nothing about the
card. `DriverReturns` speaks of calls that run with the port on; `PortIsOn` says
which is the other one.

Deadlock is checked in every run; states in which the system really stops have
explicit stuttering actions (`Spin`, `Lost`, `Halt`, `Astray`).

Each property of a passing run has a mutant: a plausible bug in a definition
under which TLC finds the property violated. The mutated forms stand before the
definitions they replace, marked `mutant`.

## 4. Findings

1. Without a card, without `platform.hex` or after a failed read the
   verification finds no record and the display says PASS.
2. FREE is set once, before the loop of `flash_erase`. On hardware that clears
   it with each erase, as the data sheet of this family has it, one page is
   erased. The bit's behaviour is an assumption about hardware outside this
   repository.
3. The line of a record with more than 25 bytes overruns `dataBuffer[64]`,
   though a record may have 32.
4. The vectors read the switch at each interrupt; the README speaks of its state
   at startup. Released in a session it sends the timer interrupt into the user
   area that is being erased.
5. After a reset that leaves `FatFs` set, or with a random one at power-on, and
   without a card that answers, the bootloader hangs: `SDCARD_Initialize` skips
   `pf_mount` (`sdcard.c:32`), the test of `pf_open` passes (`pff.c:575`) and
   `xchg_spi` waits for a byte with the port off (`diskio.c:66`). Nothing has
   been erased then, and a reset with a card that answers ends it.
6. When the second transfer of `check_fs` fails, `pf_mount` takes the boot record
   of a volume for a partition table, and four bytes in the middle of it for the
   number of a sector. If a boot record is there, its volume is mounted, with
   `FR_OK`. On the card of the run that is the volume of a partition the card had
   before.

Three more things follow from the code and are in the models as they are in the
code; no run is spent on them:

* `flash_erase` makes 96 rounds for `NUM_BLOCKS_TO_ERASE` = 95 and erases up to
  0x1FFFF, the configuration words included, which `Bootldr_Program` then never
  writes back. Without the 96th round the last page of the user area would not
  be erased, and `NoOverprogramming` would be false.
* Only the first address of a record is compared with the end of the user area: a
  record across it is programmed into the configuration words.
  `ProgramStaysInUserArea` excuses such files, by `WellFormed`.
* The two-instruction test of `Timer2` can see zero at 256: a wait of 500 ticks
  can end 255 too early. `TimesOutNotBefore` says that this is the worst case and
  that the wait of 200 is not affected; `NeverMuchTooEarly` proves it.

`layouts` also shows what is *not* wrong: within its assumptions (an ascending
file, no record across a border of the user area, a first line with a colon)
block buffering is exact, also with junk lines and without an end-of-file
record. `WellFormed` states these assumptions; the code tests none of them.

## 5. Proofs

All theorems hold for every value of the constants that satisfies the ASSUMEs in
`Flash`, `HexSource`, `Bootldr`, `DiskTimers`, `DiskIo`, `SdReader`, `FatVolume`
and `PetitFat`; TLC evaluates those on each run. No file, fault, memory content
or number of power losses is excluded. The assumptions about the address map are
that the user area begins with a block and with a page, is not empty and ends
inside the memory (`UserStart < UserEnd <= FlashSize`), and that no record is
longer than a block. `EachCellOnce`, `ImageCorrect` and `PromiseKept` have one
hypothesis more, `EraseWorks`: the erase loop reaches the end of the user area
and FREE stays set between its commands. Without it they are false (finding 2 is
about the second part). The theorems about `PetitFat` have the hypothesis
`NoMisleadingCard`: on no card does the first sector, taken for a partition
table, lead to a boot record. Without it `MountsTheVolume` and `ImplementsFile`
are false (finding 6); a card that was formatted once, with a partition table or
without, is such a card unless the numbers in its boot record happen to point at
one. `ByteFileImplemented` has moreover the hypothesis `Proper`, about names
(see below).

`Bootldr_proofs`:

* `TypeCorrect`: `Spec => []TypeOK`. One lemma for each operator that builds a
  value (`CommittedType`, `HoldingType`, `CopyIntoType`, `ReadRecordType`, ...),
  one case for each action.
* `BootAreaSafe`: `Spec => BootAreaKept`. Not inductive as it stands: a
  command issued with TBLPTR or the block below `UserStart` would break it. The
  invariant `BlockInv` says that the block in hand is aligned and in the user
  area, and that in the erase loop TBLPTR has not left it downwards; with
  `AlignAbove` (an aligned bound is not crossed by rounding down) every cell a
  command changes, or a torn one may change, lies at or above `UserStart`.
* `CopySafe`: `Spec => []CopyInBounds`. The strengthening is `OrderInv`: in the
  programming loop the reader has followed the file (`high = HighAt(file, pos)`),
  the record in hand is the line just read or a ghost left by a line without a
  colon, and in an ascending file no record from the one in hand on begins below
  the block in hand (`LoopInv`).
* `PassDeserved`: `Spec => []PassMeansMatch`. `FileInv`: while nothing has failed
  the file is open when a loop begins to read it, at its first line. `FollowInv`:
  neither loop loses a data line, because the record in hand is the last line
  read if that was a data line, and the end of the file is reported only when no
  data line is left; the one exception is a first line without a colon, which
  leaves an uninitialized type. `VerifyInv`: all data lines before the one in
  hand are held by the flash.
* `UserAreaOnly`: `Spec => ProgramStaysInUserArea`. `BufferInv`: the buffer holds
  0xFF for the words from `UserEnd` on, and programming 0xFF changes nothing.
* `EachCellOnce`: `EraseWorks` implies `Spec => NoOverprogramming`. `EraseInv`: the
  pages behind TBLPTR are erased, then the block in hand and all blocks above it
  are. The last block may be written twice, the second time from a blank buffer
  (`BufferInv` for `pc = "flush"`).
* `ImageCorrect`: `EraseWorks` implies `Spec => []ProgramCorrect`. The inductive
  form (`ImageInv`) speaks of the memory as it will be once the block in hand is
  written (`Pending`): it holds the bytes of the lines before the one in hand and
  0xFF elsewhere in the user area. A copy into the buffer adds the record's line to
  it (`ImageExtends`), writing a block does not change it (`WriteMakesPending`),
  and a record that is passed over gives nothing to the user area
  (`SkippedGivesNothing`, `NothingPastEnd`).
* `PromiseKept`: `EraseWorks` implies `Spec => KeepsPromise`, the refinement of
  `Reprogram`, step by step from the invariants above. New in it is that a good
  file never fails (`NoFalseFail`): what the verification compares is a data line of
  the file or nothing (`CompareInv`), and in an ascending file the bytes of a line
  are those of the image (`ImageOfLine`).

`DiskTimers_proofs`:

* `NeverMuchTooEarly`, `NeverTooLate`: the bounds of both waits, for bytes of any
  width and any times that are no multiple of it. `TimersInv` says that a timer
  that is tested has counted every interrupt (`Counting`), that the low byte in
  hand was read at the last interrupt or after it (`LowRead`), and that of the
  round in which the timer runs down only the steps that are left can be late
  (`OnTime`).

`BootVectors_proofs`:

* `ImplementsTimers`: `Spec => TimersSpec`. `main`, the session and the interrupts
  use the timers as `DiskTimers` says, so its theorems hold in the firmware
  (`WaitsKeepTime`).
* `ModeKept`: `Spec => []VectorsFollowMode`, and `TypeCorrect`.
* `UnlockSafe`: `Spec => []UnlockUninterrupted`, and `StartUpSafe`:
  `Spec => []NoEarlyInterrupt`, from the invariant `IInv`: GIEH is clear in the
  unlock sequence, and before the choice of a program and on the way to the user
  program Timer 0 has never run, so nothing is pending (`QuietBeforeChoice`)
  even though interrupts are enabled.

`DiskIo_proofs`:

* `PortOn`: `Spec => []PortIsOn`, for any `FatFs` at the start and after every reset.
  The driver runs with the port off only in the wait for the first byte of a read,
  and only if identification has failed in this start and `FatFs` is left from before
  the reset. `PortInv` says between calls: once initialization has begun, the port is
  on or the last identification failed, and then `FatFs` is null or left.
* `CardKnown`, `BusFree`: from `Identification`, what the answers so far
  have said of the card. The case that needs it is a card of high capacity whose
  answer to CMD8 was lost: it stays in its idle state and is not accepted as a
  card of another kind.
* `ReadsAreExact`: from `PacketInv`, the bytes of the packet that are left in the
  card are those that the driver still has to clock, so each byte is the one it
  is taken for.
* `TypeCorrect`.

`DataInduction`: the induction theorems of the library take an operator as a
parameter, which the provers cannot instantiate. With a set of numbers in its
place they become facts about sets (`LeastOfSet`, `SetInduction`, `Recursion`,
`RecursionUnique`), which can be cited. From these: the type of `FlattenSeq`, what
one more part at either end does to it, and where its parts stand
(`FlattenPlaces`).

`SdReader_proofs`:

* `TypeCorrect`, `OverrunNeedsLongLine`: `Spec => []TypeOK` and
  `Spec => []OverrunOnlyByLongLine`. The inductive invariant `BufferInv` speaks of
  the places where the lines of the text end (`LineEnds`; that there are such
  places is `TextFacts`, by induction over the lines): while the file is open the
  file pointer is at one of them between calls (`AtLine`), and in a call the buffer
  holds the beginning of one line, without its end (`InLine`).
* `ReadsOnPort`: `Spec => []ReadsOnLivePort`. `LivePort`: a file
  that is open under its name was opened since the last initialization, with the port
  on.

`PetitFat_proofs` begins with lemmas about volumes: the value of an entry is a
number, the k-th cluster of a chain is the entry of the one before it
(`ClusterAtNext`), a chain that has a cluster has all before it (`ChainBefore`), so
that a file's bytes are an initial part of what its size says (`FileBytesAre`).
Then:

* `TypeCorrect`: `Spec => []TypeOK`. What has to be shown is that no subtraction
  becomes negative (`fsize - fptr`, `ofs`, the sectors behind a cluster) and no
  number read from the card leaves its range. The inductive invariant `FileInv` adds
  to the types that the FATFS object describes the volume of the card (`MountInv`,
  with `Describes`) and that positions and counts are inside the file
  (`ExtentInv`). On the way: what `get_fat` computes from the two bytes it reads is
  the entry as `FatVolume` puts it together from half-bytes, also across two
  sectors (`Fat12EntryIs`, `Fat16EntryIs`, `GetFatIs`), and `clust2sect` gives the
  first sector of a cluster (`Clust2SectIs`).
* `RightVolume`: `Spec => []MountsTheVolume`, from the part of `FileInv` about the
  volume.
* `PositionKept`: `Spec => []ChainPosition`. `ChainPosition` holds between calls;
  `PositionInv` is what the loops of `pf_read` and `pf_lseek` keep: in a read,
  `ChainPosition` for the bytes read so far; in a seek, that `clst` is the cluster
  of the place reached and the rest of the way `ofs` begins on its border.

`PetitFatFile_proofs`:

* `ByteFileImplemented`: `Proper` implies `Spec => ImplementsFile`. Every step of
  `pff.c` is a step of `ByteFile` or none, so a call that is answered OK has opened
  the file the path leads to, delivered the bytes at the position or moved there,
  and one that fails does so for a reason `ByteFile` admits. Beyond `FileInv` and
  `PositionInv` this needs `RefInv`, in four parts:
  * `CallInv`: what each phase of a call has left alone so far;
  * `SearchInv`: in `follow_path` there is a number n of names done, the first n
    lead to the directory that is searched, and `path` points behind them; in
    `dir_find` moreover `fn` is what a directory stores for the next name, and no
    entry before the one looked at is called so (`NoneBefore`);
  * `OpenedInv`: `org_clust` and `fsize` are those of the file that was opened;
  * `DataInv`: what a read has delivered so far are the bytes of the chain from the
    position at its beginning, and with `btr` to come it ends where the count or
    the file ends.

  The longest part is about names: what `create_name` makes of one (`CreateNameIs`)
  is the form the volume compares with (`SpellsForm`), although one goes from the
  text to the directory and the other from the directory to the text. Next come
  the directories: `dir_next` visits the entries in their order (`EntryPlace`) and
  ends where the directory ends, by a border of a sector, of a cluster or of the
  table.

  `Proper` asks that names in a path fit (`ProperName`), that nothing but blanks and
  one slash stands in front of them (`ProperLead`), and that no name stored in a
  directory has a dot in it but for the entries `.` and `..` (`ProperEntries`).
  `platform.hex`, the only path the program opens, is such a path, and no formatter
  stores dots. The first part is needed. `create_name` stops at a name that is too
  long, drops the character at which it stops and takes the rest for the next
  name, so that with the sizes of the run the path `ddda` may open `A` in the
  directory `DD`. The run covers one path that is too long, with its refusal;
  `ProperButOne` in `MCPetitFat` says that everything else in it is proper.

Model-checked only: the refinement `ImplementsSource` (of `HexSource` by
`SdReader`), and all liveness (`SessionEnds`, `GoodFilePasses`, `CardWaitEnds`,
`DriverReturns`, `CallsReturn`), which the prover does not reach.

## 6. What is not modelled

* `pf_write`, `pf_opendir` and `pf_readdir` of `pff.c` and `disk_writep` of
  `diskio.c`: nothing in the program calls them, so the states in which they would
  run do not occur. `Bootldr_Erase` only calls `flash_erase`, and `close_source` is
  empty. TEST builds (`Bootldr_TestHarness`).
* Addresses beyond 24 bits. `parse_hex_line` loses the upper byte of an extended
  linear address (`hexreader.c:150`), and `AddrOf`, which the properties use, takes
  addresses in 24 bits as well. `WellFormed` excludes such files; that PASS is shown
  for one, with its records in the wrong place, no property sees.
* What `pf_open` writes through a random `FatFs` at power-on (see section 2).
* A source for Timer 0 other than the instruction clock: T0CON is all ones at reset,
  so the timer is on and counts edges of T0CKI, which `BootVectors` takes to be none
  until `main` selects the instruction clock and stops it.
* FAT32 and other code of `pff.c` that the configuration in `pff.h` leaves out.
* A damaged allocation table whose chain for a file is a circle: `pf_read` then
  delivers as many bytes as the directory entry says, and `FatVolume` has no
  opinion on which. Circular directories are modelled.
* Whether the user program that a reset without the switch starts is complete
  (`main.c:141`). The code keeps no mark of it and promises nothing; the action
  `EnterUserProgram` is enabled after every cut session.
* A card that starts a packet after the driver has given up, or answers a
  command after ten exchanges; a card exchanged for another while in use; CRC
  errors, which the driver does not look at.
* The display: pins that are set one after the other, output that nothing in the
  program reads back. `DelayMS`: time. The verdict it shows is `verdict`.
* Linker scripts, the device header, binaries; the example and the test
  application under `src/example` and `src/test`. The example's `bootldr.c` and
  `hexreader.c` are older copies that its project file `ExampleApp.mcp` does not
  compile; they lack, for one, the last `flash_write` of `Bootldr_Program` and with
  it the last block.

The map covers 1338 lines. Of the 10367 lines of C in the repository, 6058 are the
device header, twice, 645 the two uncompiled copies, and most of the rest that is
not mapped is tables of `pff.c` and `pff.h`, the functions named above, comments
and the display.

## 7. Plan

Done:

1. `Bytes`, `Flash`, `HexSource`, `Bootldr`: the core, and its theorems up to
   `ProgramCorrect`.
2. `HexLine`, `SdReader`: the byte-level reader implements `HexSource`.
3. `DiskTimers`, `BootVectors`: interrupts; the bounds of the waits proved and
   carried over to the firmware.
4. `DiskIo`: identification and reads against a card of any kind, proved.
5. `FatVolume`, `PetitFat`, `ByteFile`: files of bytes on FAT volumes.
6. `Reprogram`: the abstract session, and the proof that `Bootldr` implements it.
7. Induction over data in the form of sets; the invariants of `SdReader` and
   `PetitFat` proved, and that `PetitFat` implements `ByteFile`.

Left:

1. The refinement `ImplementsSource` as a theorem.
2. The links between the layers that section 2 argues: `SdReader` over `ByteFile`,
   `PetitFat` over what `DiskIo` promises, as refinements.
3. `pf_write` and `disk_writep`, should the program come to use them.
