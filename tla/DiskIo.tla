------------------------------- MODULE DiskIo -------------------------------
(***************************************************************************)
(* The SD card driver of diskio.c: disk_initialize, which finds out what   *)
(* kind of card there is, and disk_readp, which reads a part of a sector,  *)
(* both over send_cmd and the exchange of single bytes.                    *)
(*                                                                         *)
(* The card is external: a card of one of four kinds, or none.  It answers *)
(* as its kind does, as late as it likes, and any command, or the answer   *)
(* to it, may be lost.  That the waits inside send_cmd and disk_readp end  *)
(* is shown in DiskTimers and BootVectors; here they end either way.       *)
(***************************************************************************)
EXTENDS Integers, Sequences

CONSTANTS
  SectorSize,       \* bytes of a sector                             (512)
  Sectors,          \* how many the card has
  MaxTries          \* rounds of the start-up loops                (25000)

ASSUME DiskAssumption ==
  /\ SectorSize \in Nat \ {0}
  /\ Sectors \in Nat \ {0}
  /\ MaxTries \in Nat \ {0}

Kinds == {"SDHC", "SD2", "SD1", "MMC", "none"}

Flags == {"MMC", "SD1", "SD2", "BLOCK"}

(* R1 responses: in-idle-state, illegal command, and 0xFF for no answer.   *)
Ready == 0
Idle == 1
Illegal == 5
NoAnswer == 255

PacketSize == SectorSize + 2        \* the data and its CRC

VARIABLES
  card,             \* kind, idle state, sector being sent, bytes left of it
  sspen,            \* SSPCON1.SSPEN: the SPI port is on
  selected,         \* SD_CS is low
  cardType,         \* CardType
  fatFs,            \* FatFs: null, left from before the reset, or set
  pc,               \* where the driver is
  caller,           \* of disk_initialize: "init" or "mount", or "none" so far
  ty,               \* ty of disk_initialize
  tmr,              \* tmr of disk_initialize
  req,              \* arguments of disk_readp
  todo,             \* bytes still to skip, to take, and to drop
  buff,             \* bytes taken
  result            \* of the last disk_readp: "none", "OK", "ERROR"

initVars == <<caller, ty, tmr>>
readVars == <<req, todo, buff, result>>
vars == <<card, sspen, selected, cardType, fatFs, pc, initVars, readVars>>

InitSteps == {"cmd0", "cmd8", "acmd41", "cmd58", "probe", "start", "cmd16",
              "finish", "power_off"}
ReadSteps == {"cmd17", "token", "skip", "take", "trail", "release"}

(* What callers in pff.c ask for.                                          *)
Requests ==
  {r \in [lba : 0 .. Sectors - 1, ofs : 0 .. SectorSize - 1,
          cnt : 1 .. SectorSize] : r.ofs + r.cnt <= SectorSize}

TypeOK ==
  /\ card \in [kind : Kinds, idle : BOOLEAN, sector : 0 .. Sectors - 1,
               left : 0 .. PacketSize]
  /\ sspen \in BOOLEAN /\ selected \in BOOLEAN
  /\ fatFs \in {"null", "left", "set"}
  /\ cardType \in SUBSET Flags /\ ty \in SUBSET Flags
  /\ pc \in {"idle"} \cup InitSteps \cup ReadSteps
  /\ caller \in {"none", "init", "mount"}
  /\ tmr \in 0 .. MaxTries
  /\ req \in Requests
  /\ todo \in [skip : 0 .. SectorSize, take : 0 .. SectorSize,
               drop : 0 .. PacketSize]
  /\ Len(buff) <= SectorSize
  /\ result \in {"none", "OK", "ERROR"}

FreshCards == [kind : Kinds, idle : BOOLEAN, sector : {0}, left : {0}]

(* After a reset.  The start-up code (c018i.o) does not clear RAM: FatFs   *)
(* may be null or anything else, and so may CardType.  The locals that get *)
(* a value here are written before they are read.                          *)
Init ==
  /\ card \in FreshCards
  /\ sspen = FALSE
  /\ selected = FALSE
  /\ cardType \in SUBSET Flags
  /\ fatFs \in {"null", "left"}
  /\ pc = "idle"
  /\ caller = "none"
  /\ ty = {}
  /\ tmr = 0
  /\ req = [lba |-> 0, ofs |-> 0, cnt |-> 1]
  /\ todo = [skip |-> 0, take |-> 0, drop |-> 0]
  /\ buff = <<>>
  /\ result = "none"

-----------------------------------------------------------------------------
(* What a card does on a command: its answer, and card'.                   *)
Present == card.kind # "none"

State(idle) == IF idle THEN Idle ELSE Ready

GoIdleState(r) == Present /\ card' = [card EXCEPT !.idle = TRUE] /\ r = Idle

SendIfCond(r) ==
  /\ Present
  /\ r = IF card.kind \in {"SDHC", "SD2"} THEN State(card.idle) ELSE Illegal
  /\ UNCHANGED card

(* A card may stay in idle state for some rounds.  One of high capacity    *)
(* leaves it only for a host that says it knows such cards (HCS).          *)
MayLeave(can, r) ==
  \/ can /\ card' = [card EXCEPT !.idle = FALSE] /\ r = Ready
  \/ r = State(card.idle) /\ UNCHANGED card

SdSendOpCond(hcs, r) ==
  \/ /\ card.kind \in {"SDHC", "SD2", "SD1"}
     /\ MayLeave(card.kind # "SDHC" \/ hcs, r)
  \/ card.kind = "MMC" /\ r = Illegal /\ UNCHANGED card

SendOpCond(r) == Present /\ MayLeave(card.kind # "SDHC", r)

ReadOcr(r) == Present /\ r = State(card.idle) /\ UNCHANGED card

SetBlockLen(r) == Present /\ r = State(card.idle) /\ UNCHANGED card

(* A card of high capacity takes the number of a sector, the others the    *)
(* address of a byte.                                                      *)
SectorAt(arg) == IF card.kind = "SDHC" THEN arg ELSE arg \div SectorSize

ReadSingleBlock(arg, r) ==
  /\ Present
  /\ IF ~card.idle /\ SectorAt(arg) < Sectors
       THEN r = Ready /\ card' = [card EXCEPT !.sector = SectorAt(arg)]
       ELSE r = Illegal /\ UNCHANGED card

(* send_cmd: the card is deselected and selected again, and the answer is  *)
(* 0xFF if the card does not become ready or does not answer in time: the  *)
(* command was lost, or only the answer to it.                             *)
Answers == {Ready, Idle, Illegal}

Exchange(Command(_), r) ==
  \/ r = NoAnswer /\ UNCHANGED card
  \/ \E answer \in Answers : Command(answer) /\ r \in {answer, NoAnswer}

Responses == Answers \cup {NoAnswer}

(* With the port off nothing is exchanged, and it does not return.         *)
SendCmd ==
  /\ sspen
  /\ selected' = TRUE
  /\ UNCHANGED <<sspen, fatFs, readVars>>

-----------------------------------------------------------------------------
(* disk_initialize: power_on and the dummy clocks.                         *)
PowerOn ==
  /\ sspen' = TRUE
  /\ selected' = FALSE
  /\ ty' = {}
  /\ pc' = "cmd0"

(* SDCARD_Initialize calls it, and then pf_mount does; main initializes    *)
(* the card once after a reset.                                            *)
Initialize ==
  /\ pc = "idle" /\ caller = "none"
  /\ PowerOn
  /\ caller' = "init"
  /\ UNCHANGED <<card, cardType, fatFs, tmr, readVars>>

Cmd0 ==
  /\ pc = "cmd0"
  /\ \E r \in Responses :
       /\ Exchange(GoIdleState, r)
       /\ pc' = IF r = Idle THEN "cmd8" ELSE "finish"
  /\ SendCmd
  /\ UNCHANGED <<cardType, initVars>>

(* The four bytes that follow the answer say whether the card can work at  *)
(* this voltage.                                                           *)
Cmd8 ==
  /\ pc = "cmd8"
  /\ \E r \in Responses, echo \in BOOLEAN :
       /\ Exchange(SendIfCond, r)
       /\ pc' = IF r # Idle THEN "probe" ELSE IF echo THEN "acmd41" ELSE "finish"
  /\ tmr' = MaxTries
  /\ SendCmd
  /\ UNCHANGED <<cardType, caller, ty>>

(* for (tmr = 25000; tmr && send_cmd(...); tmr--)                          *)
TriesKept(n) == n                  \* mutant: tmr is not counted

TriesAfter(n) == n - 1

Again(r, next) ==
  \/ r = Ready /\ pc' = next /\ UNCHANGED tmr
  \/ r # Ready /\ tmr' = TriesAfter(tmr) /\ UNCHANGED pc

Acmd41Unbounded ==                 \* mutant: tmr is not tested
  /\ pc = "acmd41"
  /\ \E r \in Responses :
       /\ Exchange(LAMBDA a : SdSendOpCond(TRUE, a), r)
       /\ Again(r, "cmd58")
  /\ SendCmd
  /\ UNCHANGED <<cardType, caller, ty>>

Acmd41 ==
  /\ pc = "acmd41" /\ tmr > 0
  /\ \E r \in Responses :
       /\ Exchange(LAMBDA a : SdSendOpCond(TRUE, a), r)
       /\ Again(r, "cmd58")
  /\ SendCmd
  /\ UNCHANGED <<cardType, caller, ty>>

Acmd41Exhausted ==
  /\ pc = "acmd41" /\ tmr = 0
  /\ pc' = "finish"
  /\ UNCHANGED <<card, sspen, selected, cardType, fatFs, initVars, readVars>>

SdV2TypeAlwaysBlock == {"SD2", "BLOCK"}       \* mutant: CCS is not looked at

SdV2Type == IF card.kind = "SDHC" THEN {"SD2", "BLOCK"} ELSE {"SD2"}

Cmd58 ==
  /\ pc = "cmd58"
  /\ \E r \in Responses :
       /\ Exchange(ReadOcr, r)
       /\ ty' = IF r = Ready THEN SdV2Type ELSE ty
  /\ pc' = "finish"
  /\ SendCmd
  /\ UNCHANGED <<cardType, caller, tmr>>

(* A card that does not know CMD8: one that knows ACMD41 is SD version 1,  *)
(* another MMC.                                                            *)
Probe ==
  /\ pc = "probe"
  /\ \E r \in Responses :
       /\ Exchange(LAMBDA a : SdSendOpCond(FALSE, a), r)
       /\ ty' = IF r <= Idle THEN {"SD1"} ELSE {"MMC"}
  /\ tmr' = MaxTries
  /\ pc' = "start"
  /\ SendCmd
  /\ UNCHANGED <<cardType, caller>>

Start ==
  /\ pc = "start" /\ tmr > 0
  /\ \E r \in Responses :
       /\ \/ ty = {"SD1"} /\ Exchange(LAMBDA a : SdSendOpCond(FALSE, a), r)
          \/ ty = {"MMC"} /\ Exchange(SendOpCond, r)
       /\ Again(r, "cmd16")
  /\ SendCmd
  /\ UNCHANGED <<cardType, caller, ty>>

StartExhausted ==
  /\ pc = "start" /\ tmr = 0
  /\ ty' = {}
  /\ pc' = "finish"
  /\ UNCHANGED <<card, sspen, selected, cardType, fatFs, caller, tmr,
                 readVars>>

Cmd16 ==
  /\ pc = "cmd16"
  /\ \E r \in Responses :
       /\ Exchange(SetBlockLen, r)
       /\ ty' = IF r = Ready THEN ty ELSE {}
  /\ pc' = "finish"
  /\ SendCmd
  /\ UNCHANGED <<cardType, caller, tmr>>

(* release_spi, and what the callers do with the answer: SDCARD_Initialize *)
(* goes on to pf_mount, which clears FatFs and calls disk_initialize       *)
(* again, and then begins to read; after a failure it calls nothing, and   *)
(* FatFs keeps its value.                                                  *)
Release == sspen /\ selected' = FALSE

Identified ==
  /\ pc = "finish" /\ ty # {}
  /\ cardType' = ty
  /\ Release
  /\ \/ /\ caller = "init"
        /\ caller' = "mount" /\ fatFs' = "null"
        /\ ty' = {} /\ pc' = "cmd0"
     \/ /\ caller = "mount"
        /\ fatFs' = "set" /\ pc' = "idle"
        /\ UNCHANGED <<caller, ty>>
  /\ UNCHANGED <<card, sspen, tmr, readVars>>

NotIdentified ==
  /\ pc = "finish" /\ ty = {}
  /\ cardType' = ty
  /\ selected' = TRUE
  /\ pc' = "power_off"
  /\ UNCHANGED <<card, sspen, fatFs, initVars, readVars>>

PowerOffReturnsOk ==               \* mutant: the failure is not returned
  /\ pc = "power_off"
  /\ Release
  /\ sspen' = FALSE
  /\ fatFs' = "set"
  /\ pc' = "idle"
  /\ UNCHANGED <<card, cardType, initVars, readVars>>

PowerOff ==
  /\ pc = "power_off"
  /\ Release
  /\ sspen' = FALSE
  /\ pc' = "idle"
  /\ UNCHANGED <<card, cardType, fatFs, initVars, readVars>>

-----------------------------------------------------------------------------
(* disk_readp.                                                             *)
Address(lba) == IF "BLOCK" \in cardType THEN lba ELSE lba * SectorSize

(* pf_mount reads once the card is identified, pf_open and pf_read         *)
(* whenever FatFs is not null; a file is opened after SDCARD_Initialize.   *)
Readp ==
  /\ pc = "idle" /\ caller # "none" /\ fatFs # "null"
  /\ req' \in Requests
  /\ buff' = <<>>
  /\ result' = "none"
  /\ pc' = "cmd17"
  /\ UNCHANGED <<card, sspen, selected, cardType, fatFs, initVars, todo>>

Cmd17 ==
  /\ pc = "cmd17"
  /\ \E r \in Responses :
       /\ Exchange(LAMBDA a : ReadSingleBlock(Address(req.lba), a), r)
       /\ pc' = IF r = Ready THEN "token" ELSE "release"
  /\ SendCmd
  /\ UNCHANGED <<cardType, initVars>>

TrailingWithoutCrc ==              \* mutant: 512 for 514
  SectorSize - req.ofs - req.cnt

Trailing == PacketSize - req.ofs - req.cnt

(* The token comes, and the packet after it; or an error token; or nothing *)
(* in time.  A card that has sent nothing by then, or whose answer to the  *)
(* command was lost, sends nothing later either (the standard gives a card *)
(* half of the time that the driver waits).                                *)
Token ==
  /\ pc = "token"
  /\ card' = [card EXCEPT !.left = PacketSize]
  /\ todo' = [skip |-> req.ofs, take |-> req.cnt, drop |-> Trailing]
  /\ pc' = IF req.ofs # 0 THEN "skip" ELSE "take"
  /\ UNCHANGED <<sspen, selected, cardType, fatFs, initVars, req, buff, result>>

NoToken ==
  /\ pc = "token"
  /\ pc' = "release"
  /\ UNCHANGED <<card, sspen, selected, cardType, fatFs, initVars, readVars>>

(* rcvr_spi: the next byte of the packet is clocked out.                   *)
NextByte == <<card.sector, PacketSize - card.left>>

Clock ==
  /\ card' = [card EXCEPT !.left = IF @ > 0 THEN @ - 1 ELSE 0]
  /\ UNCHANGED <<sspen, selected, cardType, fatFs, initVars, req, result>>

(* do ... while (--n): a byte is clocked before the count is tested.       *)
SkipByteOnceOnly ==                \* mutant: no loop
  /\ pc = "skip"
  /\ Clock
  /\ todo' = [todo EXCEPT !.skip = 0]
  /\ pc' = "take"
  /\ UNCHANGED buff

SkipByte ==
  /\ pc = "skip"
  /\ Clock
  /\ todo' = [todo EXCEPT !.skip = @ - 1]
  /\ pc' = IF todo.skip > 1 THEN "skip" ELSE "take"
  /\ UNCHANGED buff

TakeByte ==
  /\ pc = "take"
  /\ Clock
  /\ buff' = Append(buff, NextByte)
  /\ todo' = [todo EXCEPT !.take = @ - 1]
  /\ pc' = IF todo.take > 1 THEN "take" ELSE "trail"

DropByte ==
  /\ pc = "trail"
  /\ Clock
  /\ todo' = [todo EXCEPT !.drop = @ - 1]
  /\ pc' = IF todo.drop > 1 THEN "trail" ELSE "release"
  /\ UNCHANGED buff

(* `res' is OK only after a packet; a byte is counted in buff then.        *)
ReadpReturns ==
  /\ pc = "release"
  /\ Release
  /\ result' = IF buff # <<>> THEN "OK" ELSE "ERROR"
  /\ pc' = "idle"
  /\ UNCHANGED <<card, sspen, cardType, fatFs, initVars, req, todo, buff>>

(* The volume is not mounted after all, or SDCARD_Dispose.                 *)
Dispose ==
  /\ pc = "idle" /\ fatFs = "set"
  /\ fatFs' = "null"
  /\ UNCHANGED <<card, sspen, selected, cardType, pc, initVars, readVars>>

(* Power is lost at any point, and the card may be back as another one;    *)
(* what RAM holds then is as in Init, or what it held before.              *)
Reset ==
  /\ card' \in FreshCards
  /\ sspen' = FALSE
  /\ selected' = FALSE
  /\ fatFs' \in {"null", "left"}
  /\ pc' = "idle"
  /\ caller' = "none"
  /\ ty' = {}
  /\ tmr' = 0
  /\ req' = [lba |-> 0, ofs |-> 0, cnt |-> 1]
  /\ todo' = [skip |-> 0, take |-> 0, drop |-> 0]
  /\ buff' = <<>>
  /\ result' = "none"
  /\ UNCHANGED cardType

Initializing ==
  \/ Cmd0 \/ Cmd8 \/ Acmd41 \/ Acmd41Exhausted \/ Cmd58
  \/ Probe \/ Start \/ StartExhausted \/ Cmd16
  \/ Identified \/ NotIdentified \/ PowerOff

Reading ==
  \/ Cmd17 \/ Token \/ NoToken \/ SkipByte \/ TakeByte \/ DropByte
  \/ ReadpReturns

Driver == Initializing \/ Reading

Next == Initialize \/ Readp \/ Dispose \/ Driver \/ Reset

Spec == Init /\ [][Next]_vars

(* The processor goes on; nothing is assumed about the card.               *)
FairSpec == Spec /\ WF_vars(Driver)

-----------------------------------------------------------------------------
(* A read that returns RES_OK has stored exactly the bytes asked for, of   *)
(* the sector asked for, whatever the kind of the card and whatever was    *)
(* lost while it was identified.                                           *)
ReadIsExact ==
  pc = "idle" /\ result = "OK" =>
    buff = [i \in 1 .. req.cnt |-> <<req.lba, req.ofs + i - 1>>]

(* A card of a mounted volume is addressed in the unit it expects, and has *)
(* left its idle state.                                                    *)
CardIsKnown ==
  fatFs = "set" => ~card.idle /\ ("BLOCK" \in cardType <=> card.kind = "SDHC")

(* When the bus is released no byte of a packet is left in the card, which *)
(* would meet the next command; and the bus is released between calls.     *)
BusIsFree == pc = "idle" => card.left = 0 /\ ~selected

(* A call on a port that is off waits for ever (diskio.c:66).  There is    *)
(* one way to it: the identification has failed, and FatFs is left from    *)
(* before the reset; and then the wait is that for the first byte.         *)
PortIsOn ==
  pc # "idle" /\ ~sspen => pc = "cmd17" /\ cardType = {} /\ fatFs = "left"

(* Every other call of the driver returns, whatever the card does.         *)
DriverReturns == (pc # "idle" /\ sspen) ~> pc = "idle"

-----------------------------------------------------------------------------
(* What the source says of itself and the program does not do.             *)

(* pff.c:575: pf_open begins with `if (!fs)', "Check file system": a card  *)
(* is read only for a volume that pf_mount is mounting or has mounted.     *)
ReadNeedsMount == pc \in ReadSteps => fatFs = "set"
=============================================================================
