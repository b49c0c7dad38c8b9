--------------------------- MODULE DiskIo_proofs ---------------------------
(***************************************************************************)
(* What the SD card driver keeps to, for sectors and cards of any size,    *)
(* any number of tries, and whatever the card and the bus lose.            *)
(***************************************************************************)
EXTENDS DiskIo, SequenceTheorems, TLAPS

-----------------------------------------------------------------------------
(* What a command does to a card, whether or not its answer arrives.       *)

Cards == [kind : Kinds, idle : BOOLEAN, sector : 0 .. Sectors - 1,
          left : 0 .. PacketSize]

(* Only its idle state may change.                                         *)
SameButIdle ==
  /\ card' \in Cards
  /\ card'.kind = card.kind
  /\ card'.sector = card.sector
  /\ card'.left = card.left

LEMMA SameButIdleIf ==
  ASSUME card \in Cards, NEW b \in BOOLEAN,
         card' = card \/ card' = [card EXCEPT !.idle = b]
  PROVE  SameButIdle
BY DEF SameButIdle, Cards

LEMMA GoIdleEffect ==
  ASSUME card \in Cards, NEW r, Exchange(GoIdleState, r)
  PROVE  SameButIdle /\ (r = Idle => card'.idle)
<1>1. card' = card \/ card' = [card EXCEPT !.idle = TRUE]
  BY DEF Exchange, GoIdleState
<1>2. r = Idle => card' = [card EXCEPT !.idle = TRUE]
  BY DEF Exchange, GoIdleState, NoAnswer, Idle
<1> QED
  BY <1>1, <1>2, SameButIdleIf DEF Cards

(* ACMD41: a card that answers `ready' has left its idle state, and one of *)
(* high capacity does so only for a host that knows of such cards.         *)
LEMMA SdSendOpCondEffect ==
  ASSUME card \in Cards, NEW r, NEW hcs \in BOOLEAN,
         Exchange(LAMBDA a : SdSendOpCond(hcs, a), r)
  PROVE  /\ SameButIdle
         /\ r = Ready => ~card'.idle
         /\ card.kind = "SDHC" /\ ~hcs => card' = card
         /\ card.kind = "SDHC" /\ ~hcs /\ card.idle => r # Ready
<1> USE DEF Exchange, SdSendOpCond, MayLeave, State, NoAnswer, Ready, Idle,
            Illegal
<1>1. card' = card \/ card' = [card EXCEPT !.idle = FALSE]
  OBVIOUS
<1>2. r = Ready => ~card'.idle
  BY DEF Cards
<1>3. card.kind = "SDHC" /\ ~hcs => card' = card
  OBVIOUS
<1>4. card.kind = "SDHC" /\ ~hcs /\ card.idle => r # Ready
  OBVIOUS
<1> QED
  BY <1>1, <1>2, <1>3, <1>4, SameButIdleIf

LEMMA SendOpCondEffect ==
  ASSUME card \in Cards, NEW r, Exchange(SendOpCond, r)
  PROVE  /\ SameButIdle
         /\ r = Ready => ~card'.idle
         /\ card.kind = "SDHC" => card' = card
         /\ card.kind = "SDHC" /\ card.idle => r # Ready
<1> USE DEF Exchange, SendOpCond, MayLeave, State, NoAnswer, Ready, Idle
<1>1. card' = card \/ card' = [card EXCEPT !.idle = FALSE]
  OBVIOUS
<1>2. r = Ready => ~card'.idle
  BY DEF Cards
<1>3. card.kind = "SDHC" => card' = card
  OBVIOUS
<1>4. card.kind = "SDHC" /\ card.idle => r # Ready
  OBVIOUS
<1> QED
  BY <1>1, <1>2, <1>3, <1>4, SameButIdleIf

(* The commands that only ask.                                             *)
LEMMA AskingEffect ==
  ASSUME NEW r,
         \/ Exchange(SendIfCond, r) \/ Exchange(ReadOcr, r)
         \/ Exchange(SetBlockLen, r)
  PROVE  card' = card
BY DEF Exchange, SendIfCond, ReadOcr, SetBlockLen

(* A read of one sector: the card that answers will send that one.         *)
LEMMA ReadBlockEffect ==
  ASSUME card \in Cards, NEW r, NEW arg \in Nat,
         Exchange(LAMBDA a : ReadSingleBlock(arg, a), r)
  PROVE  /\ card' \in Cards
         /\ card'.kind = card.kind /\ card'.idle = card.idle
         /\ card'.left = card.left
         /\ r = Ready => card'.sector = SectorAt(arg)
<1>1. SectorAt(arg) \in Nat
  BY DiskAssumption DEF SectorAt
<1>2. \/ card' = card
      \/ SectorAt(arg) < Sectors /\ card' = [card EXCEPT !.sector = SectorAt(arg)]
  BY DEF Exchange, ReadSingleBlock
<1>3. r = Ready => card' = [card EXCEPT !.sector = SectorAt(arg)]
  BY DEF Exchange, ReadSingleBlock, Ready, Illegal, NoAnswer
<1> QED
  BY <1>1, <1>2, <1>3, DiskAssumption DEF Cards

(* The address of a sector, in the unit of its card.                       *)
LEMMA AddressOfSector ==
  ASSUME NEW lba \in Nat, "BLOCK" \in cardType <=> card.kind = "SDHC"
  PROVE  Address(lba) \in Nat /\ SectorAt(Address(lba)) = lba
<1>1. lba * SectorSize \in Nat /\ (lba * SectorSize) \div SectorSize = lba
  BY DiskAssumption
<1> QED
  BY <1>1 DEF Address, SectorAt

-----------------------------------------------------------------------------
(* The invariant of identification.                                        *)

(* The places where ty has not been set.                                   *)
Untyped == {"cmd0", "cmd8", "acmd41", "cmd58"}

(* What the answers so far have said.  A card of high capacity whose       *)
(* answer to CMD8 was lost stays in idle state, and is not taken for one   *)
(* of another kind.                                                        *)
Identification ==
  /\ pc \in Untyped => ty = {}
  /\ pc = "cmd8" => card.idle
  /\ pc = "cmd58" => ~card.idle
  /\ pc \in {"start", "cmd16"} => ty \in {{"SD1"}, {"MMC"}}
  /\ pc \in {"probe", "start"} /\ card.kind = "SDHC" => card.idle
  /\ pc = "cmd16" => ~card.idle /\ card.kind # "SDHC"
  /\ pc = "finish" /\ ty # {} =>
       ~card.idle /\ ("BLOCK" \in ty <=> card.kind = "SDHC")

(* The port is on but for a FatFs that is left from before the reset,      *)
(* after an identification that has failed; and then the driver gets as    *)
(* far as its first exchange.                                              *)
PortInv ==
  /\ pc # "idle" => caller # "none"
  /\ pc \in InitSteps => sspen /\ fatFs # "set"
  /\ pc \in ReadSteps => fatFs # "null"
  /\ pc \in ReadSteps \ {"cmd17"} => sspen
  /\ pc = "power_off" => cardType = {}
  /\ caller = "mount" => fatFs # "left"
  /\ fatFs = "set" => sspen /\ caller = "mount"
  /\ pc \notin InitSteps /\ caller # "none" /\ fatFs = "left" =>
       ~sspen /\ cardType = {}

InitType ==
  /\ card \in Cards
  /\ sspen \in BOOLEAN /\ selected \in BOOLEAN
  /\ fatFs \in {"null", "left", "set"}
  /\ cardType \in SUBSET Flags /\ ty \in SUBSET Flags
  /\ pc \in {"idle"} \cup InitSteps \cup ReadSteps
  /\ caller \in {"none", "init", "mount"}
  /\ tmr \in 0 .. MaxTries

(* Between calls the bus is released.                                      *)
Released == pc = "idle" => ~selected

InitInv == InitType /\ Identification /\ PortInv /\ CardIsKnown /\ Released

LEMMA InitInvInit == Init => InitInv
<1> SUFFICES ASSUME Init PROVE InitInv
  OBVIOUS
<1>1. card \in Cards
  BY DiskAssumption DEF Init, FreshCards, Cards, PacketSize
<1>2. /\ sspen = FALSE /\ selected = FALSE /\ fatFs \in {"null", "left"}
      /\ cardType \in SUBSET Flags /\ ty = {} /\ tmr = 0
      /\ pc = "idle" /\ caller = "none"
  BY DEF Init
<1>3. tmr \in 0 .. MaxTries
  BY <1>2, DiskAssumption
<1>4. InitType
  BY <1>1, <1>2, <1>3 DEF InitType
<1>5. Identification /\ PortInv /\ CardIsKnown /\ Released
  BY <1>2 DEF Identification, Untyped, PortInv, InitSteps, ReadSteps,
     CardIsKnown, Released
<1> QED
  BY <1>4, <1>5 DEF InitInv

(* A step of disk_initialize with a command.                               *)
LEMMA InitInvCommands ==
  ASSUME InitInv, Cmd0 \/ Cmd8 \/ Acmd41 \/ Cmd58
  PROVE  InitInv'
<1> USE DEF InitInv
<1>1. selected' = TRUE /\ UNCHANGED <<sspen, fatFs, cardType, caller>>
  BY DEF Cmd0, Cmd8, Acmd41, Cmd58, SendCmd, initVars
<1>2. pc \in InitSteps /\ pc' \in InitSteps \ {"power_off"}
  BY DEF Cmd0, Cmd8, Acmd41, Cmd58, InitSteps, Again
<1>3. PortInv' /\ CardIsKnown' /\ Released'
  BY <1>1, <1>2 DEF PortInv, CardIsKnown, Released, InitSteps, ReadSteps
<1> USE DEF InitType, Identification, Untyped, InitSteps
<1>4. CASE Cmd0
  <2>1. PICK r \in Responses :
          /\ Exchange(GoIdleState, r)
          /\ pc' = IF r = Idle THEN "cmd8" ELSE "finish"
    BY <1>4 DEF Cmd0
  <2>2. SameButIdle /\ (r = Idle => card'.idle)
    BY <2>1, GoIdleEffect
  <2>3. ty = {} /\ UNCHANGED <<ty, tmr>>
    BY <1>4 DEF Cmd0, initVars
  <2> QED
    BY <1>1, <1>2, <1>3, <2>1, <2>2, <2>3 DEF SameButIdle
<1>5. CASE Cmd8
  <2>1. card' = card
    BY <1>5, AskingEffect DEF Cmd8
  <2>2. pc' \in {"probe", "acmd41", "finish"} /\ ty = {} /\ card.idle
        /\ tmr' = MaxTries /\ ty' = ty
    BY <1>5 DEF Cmd8
  <2> QED
    BY <1>1, <1>2, <1>3, <2>1, <2>2, DiskAssumption
<1>6. CASE Acmd41
  <2>1. PICK r \in Responses :
          Exchange(LAMBDA a : SdSendOpCond(TRUE, a), r) /\ Again(r, "cmd58")
    BY <1>6 DEF Acmd41
  <2>2. SameButIdle /\ (r = Ready => ~card'.idle)
    BY <2>1, SdSendOpCondEffect
  <2>3. ty = {} /\ ty' = ty /\ tmr > 0 /\ pc = "acmd41"
    BY <1>6 DEF Acmd41
  <2>4. tmr' \in 0 .. MaxTries
        /\ (pc' = "acmd41" \/ (pc' = "cmd58" /\ r = Ready))
    BY <2>1, <2>3, DiskAssumption DEF Again, TriesAfter
  <2> QED
    BY <1>1, <1>2, <1>3, <2>2, <2>3, <2>4 DEF SameButIdle
<1>7. CASE Cmd58
  <2>1. card' = card
    BY <1>7, AskingEffect DEF Cmd58
  <2>2. pc' = "finish" /\ tmr' = tmr /\ ~card.idle /\ ty' \in {{}, SdV2Type}
    BY <1>7 DEF Cmd58
  <2>3. SdV2Type \in SUBSET Flags
        /\ ("BLOCK" \in SdV2Type <=> card.kind = "SDHC")
    BY DEF SdV2Type, Flags
  <2> QED
    BY <1>1, <1>2, <1>3, <2>1, <2>2, <2>3 DEF SdV2Type
<1> QED
  BY <1>4, <1>5, <1>6, <1>7

(* The steps of disk_initialize for a card that does not know CMD8.        *)
LEMMA InitInvStarting ==
  ASSUME InitInv, Probe \/ Start \/ Cmd16
  PROVE  InitInv'
<1> USE DEF InitInv
<1>1. selected' = TRUE /\ UNCHANGED <<sspen, fatFs, cardType, caller>>
  BY DEF Probe, Start, Cmd16, SendCmd
<1>2. pc \in InitSteps /\ pc' \in InitSteps \ {"power_off"}
  BY DEF Probe, Start, Cmd16, InitSteps, Again
<1>3. PortInv' /\ CardIsKnown' /\ Released'
  BY <1>1, <1>2 DEF PortInv, CardIsKnown, Released, InitSteps, ReadSteps
<1>4. {"SD1"} \in SUBSET Flags /\ {"MMC"} \in SUBSET Flags
  BY DEF Flags
<1> USE DEF InitType, Identification, Untyped, InitSteps
<1>5. CASE Probe
  <2>1. PICK r \in Responses : Exchange(LAMBDA a : SdSendOpCond(FALSE, a), r)
    BY <1>5 DEF Probe
  <2>2. SameButIdle /\ (card.kind = "SDHC" => card' = card)
    BY <2>1, SdSendOpCondEffect
  <2>3. pc = "probe" /\ pc' = "start" /\ tmr' = MaxTries
        /\ ty' \in {{"SD1"}, {"MMC"}}
    BY <1>5 DEF Probe
  <2>4. tmr' \in 0 .. MaxTries
    BY <2>3, DiskAssumption
  <2> QED
    BY <1>1, <1>2, <1>3, <1>4, <2>2, <2>3, <2>4 DEF SameButIdle
<1>6. CASE Start
  <2>1. PICK r \in Responses :
          /\ \/ Exchange(LAMBDA a : SdSendOpCond(FALSE, a), r)
             \/ Exchange(SendOpCond, r)
          /\ Again(r, "cmd16")
    BY <1>6 DEF Start
  <2>2. /\ SameButIdle /\ (r = Ready => ~card'.idle)
        /\ card.kind = "SDHC" => card' = card
        /\ card.kind = "SDHC" /\ card.idle => r # Ready
    BY <2>1, SdSendOpCondEffect, SendOpCondEffect
  <2>3. pc = "start" /\ tmr > 0 /\ ty' = ty /\ ty \in {{"SD1"}, {"MMC"}}
    BY <1>6 DEF Start
  <2>4. tmr' \in 0 .. MaxTries
        /\ (pc' = "start" \/ (pc' = "cmd16" /\ r = Ready))
    BY <2>1, <2>3, DiskAssumption DEF Again, TriesAfter
  <2> QED
    BY <1>1, <1>2, <1>3, <1>4, <2>2, <2>3, <2>4 DEF SameButIdle
<1>7. CASE Cmd16
  <2>1. card' = card
    BY <1>7, AskingEffect DEF Cmd16
  <2>2. pc = "cmd16" /\ pc' = "finish" /\ tmr' = tmr /\ ty' \in {{}, ty}
    BY <1>7 DEF Cmd16
  <2>3. ty \in {{"SD1"}, {"MMC"}} /\ "BLOCK" \notin ty
    BY <2>2
  <2>4. ty' \in SUBSET Flags /\ "BLOCK" \notin ty'
    BY <1>4, <2>2, <2>3
  <2> QED
    BY <1>1, <1>2, <1>3, <2>1, <2>2, <2>3, <2>4
<1> QED
  BY <1>5, <1>6, <1>7

(* The steps that send no command.                                         *)
LEMMA InitInvRest ==
  ASSUME InitInv,
         Initialize \/ Acmd41Exhausted \/ StartExhausted \/ Identified
         \/ NotIdentified \/ PowerOff
  PROVE  InitInv'
<1> USE DEF InitInv, InitType, Identification, Untyped, PortInv,
            CardIsKnown, Released, InitSteps, ReadSteps
<1>1. CASE Initialize
  BY <1>1 DEF Initialize, PowerOn
<1>2. CASE Acmd41Exhausted \/ StartExhausted
  BY <1>2 DEF Acmd41Exhausted, StartExhausted, initVars
<1>3. CASE Identified
  <2>1. /\ pc = "finish" /\ cardType' = ty /\ selected' = FALSE
        /\ UNCHANGED <<card, sspen, tmr>>
        /\ ~card.idle /\ ("BLOCK" \in ty <=> card.kind = "SDHC")
        /\ fatFs # "set" /\ sspen
    BY <1>3 DEF Identified, Release
  <2>2. CASE /\ pc' = "cmd0" /\ caller' = "mount" /\ ty' = {}
             /\ fatFs' = "null"
    BY <2>1, <2>2
  <2>3. CASE /\ pc' = "idle" /\ fatFs' = "set" /\ caller = "mount"
             /\ UNCHANGED <<caller, ty>>
    BY <2>1, <2>3
  <2> QED
    BY <1>3, <2>2, <2>3 DEF Identified
<1>4. CASE NotIdentified
  BY <1>4 DEF NotIdentified, initVars
<1>5. CASE PowerOff
  BY <1>5 DEF PowerOff, Release, initVars
<1> QED
  BY <1>1, <1>2, <1>3, <1>4, <1>5

(* The steps of disk_readp.                                                *)
LEMMA InitInvReading ==
  ASSUME InitInv, TypeOK, Readp \/ Dispose \/ Reading
  PROVE  InitInv'
<1> USE DEF InitInv
<1>1. UNCHANGED <<sspen, cardType, initVars>>
  BY DEF Readp, Dispose, Reading, Cmd17, Token, NoToken, SkipByte, TakeByte,
     DropByte, ReadpReturns, Clock, SendCmd
<1>2. card' \in Cards /\ card'.kind = card.kind /\ card'.idle = card.idle
  <2>1. CASE Cmd17
    <3>1. PICK r \in Responses :
            Exchange(LAMBDA a : ReadSingleBlock(Address(req.lba), a), r)
      BY <2>1 DEF Cmd17
    <3>2. Address(req.lba) \in Nat
      BY DiskAssumption DEF TypeOK, Requests, Address
    <3> QED
      BY <3>1, <3>2, ReadBlockEffect DEF InitType
  <2>2. CASE Token
    BY <2>2, DiskAssumption DEF Token, InitType, Cards, PacketSize
  <2>3. CASE SkipByte \/ TakeByte \/ DropByte
    <3>1. card' = [card EXCEPT !.left = IF @ > 0 THEN @ - 1 ELSE 0]
      BY <2>3 DEF SkipByte, TakeByte, DropByte, Clock
    <3> QED
      BY <3>1, DiskAssumption DEF InitType, Cards, PacketSize
  <2> QED
    BY <2>1, <2>2, <2>3 DEF Readp, Dispose, Reading, NoToken, ReadpReturns,
       InitType
<1>3. /\ pc \in {"idle"} \cup ReadSteps /\ pc' \in {"idle"} \cup ReadSteps
      /\ pc' \in ReadSteps \ {"cmd17"} => sspen
      /\ caller # "none"
      /\ pc' \in ReadSteps => fatFs # "null"
      /\ fatFs' = fatFs \/ (fatFs' = "null" /\ pc' = "idle")
      /\ selected' = TRUE \/ selected' = FALSE \/ selected' = selected
      /\ pc' = "idle" => ~selected'
  <2> USE DEF ReadSteps, PortInv, InitType, InitSteps
  <2>1. CASE Readp \/ Dispose \/ ReadpReturns
    BY <2>1 DEF Readp, Dispose, ReadpReturns, Release, Released
  <2>2. CASE Cmd17
    BY <2>2 DEF Cmd17, SendCmd
  <2>3. CASE Token \/ NoToken
    BY <2>3 DEF Token, NoToken
  <2>4. CASE SkipByte \/ TakeByte \/ DropByte
    BY <2>4 DEF SkipByte, TakeByte, DropByte, Clock
  <2> QED
    BY <2>1, <2>2, <2>3, <2>4 DEF Reading
<1>4. InitType'
  BY <1>1, <1>2, <1>3 DEF InitType, initVars
<1>5. Identification' /\ PortInv' /\ CardIsKnown' /\ Released'
  BY <1>1, <1>2, <1>3 DEF Identification, Untyped, PortInv, CardIsKnown,
     Released, InitSteps, ReadSteps, initVars
<1> QED
  BY <1>4, <1>5

(* A reset leads to an initial state.                                      *)
LEMMA ResetIsInit == ASSUME InitInv, Reset PROVE Init'
BY DEF Reset, Init, InitInv, InitType

LEMMA InitInvNext ==
  ASSUME InitInv, TypeOK, [Next]_vars
  PROVE  InitInv'
<1>1. CASE UNCHANGED vars
  BY <1>1 DEF vars, initVars, InitInv, InitType, Identification, PortInv,
     CardIsKnown, Released
<1>2. CASE Reset
  <2>1. Init' => InitInv'
    BY InitInvInit, PTL
  <2> QED
    BY <1>2, <2>1, ResetIsInit
<1> QED
  BY <1>1, <1>2, InitInvCommands, InitInvStarting, InitInvRest, InitInvReading
  DEF Next, Driver, Initializing

-----------------------------------------------------------------------------
(* The invariant of reading.                                               *)

(* The first n of the bytes asked for.                                     *)
Asked(n) == [i \in 1 .. n |-> <<req.lba, req.ofs + i - 1>>]

ReadType ==
  /\ req \in Requests
  /\ todo \in [skip : 0 .. SectorSize, take : 0 .. SectorSize,
               drop : 0 .. PacketSize]
  /\ result \in {"none", "OK", "ERROR"}

InPacket == {"skip", "take", "trail"}

(* What is left of the packet is what the driver still has to clock, and   *)
(* so the next byte is the one that it takes it for.                       *)
PacketInv ==
  /\ pc \notin InPacket => card.left = 0
  /\ pc \in {"token"} \cup InPacket => card.sector = req.lba
  /\ pc = "skip" =>
       /\ todo.skip \in 1 .. req.ofs
       /\ todo.take = req.cnt /\ todo.drop = Trailing
       /\ card.left = todo.skip + todo.take + todo.drop
  /\ pc = "take" =>
       /\ todo.take \in 1 .. req.cnt
       /\ todo.drop = Trailing
       /\ card.left = todo.take + todo.drop
       /\ buff = Asked(req.cnt - todo.take)
  /\ pc = "trail" =>
       /\ todo.drop \in 1 .. Trailing
       /\ card.left = todo.drop
       /\ buff = Asked(req.cnt)

ResultInv ==
  /\ buff = <<>> \/ \E n \in 0 .. req.cnt : buff = Asked(n)
  /\ pc \in {"cmd17", "token", "skip"} => buff = <<>>
  /\ pc = "release" => buff = <<>> \/ buff = Asked(req.cnt)
  /\ pc \in ReadSteps => result # "OK"
  /\ result = "OK" => buff = Asked(req.cnt)

ReadInv == ReadType /\ PacketInv /\ ResultInv

LEMMA RequestFacts ==
  ASSUME req \in Requests
  PROVE  /\ req.lba \in 0 .. Sectors - 1
         /\ req.ofs \in 0 .. SectorSize - 1
         /\ req.cnt \in 1 .. SectorSize
         /\ req.ofs + req.cnt <= SectorSize
         /\ Trailing \in 2 .. PacketSize
         /\ req.ofs + req.cnt + Trailing = PacketSize
         /\ PacketSize \in Nat
BY DiskAssumption DEF Requests, Trailing, PacketSize

LEMMA AskedNone == Asked(0) = <<>>
BY DEF Asked

LEMMA AskedNext ==
  ASSUME NEW n \in Nat, req \in Requests
  PROVE  Append(Asked(n), <<req.lba, req.ofs + n>>) = Asked(n + 1)
<1> DEFINE s == Asked(n)
<1>1. s \in Seq(Int \X Int) /\ Len(s) = n
  BY RequestFacts DEF Asked
<1>2. <<req.lba, req.ofs + n>> \in Int \X Int
  BY RequestFacts
<1>3. Asked(n + 1) \in Seq(Int \X Int) /\ Len(Asked(n + 1)) = n + 1
  BY RequestFacts DEF Asked
<1>4. \A i \in 1 .. n + 1 :
        Append(s, <<req.lba, req.ofs + n>>)[i] = Asked(n + 1)[i]
  <2> TAKE i \in 1 .. n + 1
  <2>1. CASE i \in 1 .. n
    BY <1>1, <1>2, <2>1, AppendProperties DEF Asked
  <2>2. CASE i = n + 1
    <3>1. Asked(n + 1)[n + 1] = <<req.lba, req.ofs + (n + 1) - 1>>
      BY DEF Asked
    <3>2. req.ofs + (n + 1) - 1 = req.ofs + n
      BY RequestFacts
    <3>3. Append(s, <<req.lba, req.ofs + n>>)[n + 1] = <<req.lba, req.ofs + n>>
      BY <1>1, <1>2, AppendProperties
    <3> QED
      BY <2>2, <3>1, <3>2, <3>3
  <2>3. i \in 1 .. n \/ i = n + 1
    OBVIOUS
  <2> QED
    BY <2>1, <2>2, <2>3, Zenon
<1>5. Append(s, <<req.lba, req.ofs + n>>) \in Seq(Int \X Int)
      /\ Len(Append(s, <<req.lba, req.ofs + n>>)) = n + 1
  BY <1>1, <1>2, AppendProperties
<1> HIDE DEF s
<1>6. Append(s, <<req.lba, req.ofs + n>>) = Asked(n + 1)
  BY <1>3, <1>4, <1>5, SeqEqual
<1> QED
  BY <1>6 DEF s

LEMMA AskedLength ==
  ASSUME req \in Requests, NEW n \in Nat
  PROVE  Len(Asked(n)) = n
BY RequestFacts DEF Asked

LEMMA AskedSomething == ASSUME req \in Requests PROVE Asked(req.cnt) # <<>>
BY RequestFacts DEF Asked

LEMMA ReadInvInit == Init => ReadInv
<1> SUFFICES ASSUME Init PROVE ReadInv
  OBVIOUS
<1>1. /\ req = [lba |-> 0, ofs |-> 0, cnt |-> 1]
      /\ todo = [skip |-> 0, take |-> 0, drop |-> 0]
      /\ buff = <<>> /\ result = "none" /\ pc = "idle"
  BY DEF Init
<1>2. ReadType
  BY <1>1, DiskAssumption DEF ReadType, Requests, PacketSize
<1>3. card.left = 0
  BY DEF Init, FreshCards
<1>4. PacketInv /\ ResultInv
  BY <1>1, <1>3 DEF PacketInv, InPacket, ResultInv, ReadSteps
<1> QED
  BY <1>2, <1>4 DEF ReadInv

(* disk_initialize leaves the packet and the last read alone.              *)
LEMMA InitializingKeepsRead ==
  ASSUME InitInv, Initialize \/ Initializing
  PROVE  /\ UNCHANGED readVars
         /\ card'.left = card.left
         /\ pc \notin ReadSteps /\ pc' \notin ReadSteps
<1> USE DEF InitInv, InitType, ReadSteps, readVars
<1>1. CASE Initialize
  BY <1>1 DEF Initialize, PowerOn
<1>2. CASE Cmd0
  <2>1. PICK r \in Responses : Exchange(GoIdleState, r)
    BY <1>2 DEF Cmd0
  <2> QED
    BY <1>2, <2>1, GoIdleEffect DEF Cmd0, SendCmd, SameButIdle
<1>3. CASE Cmd8 \/ Cmd58 \/ Cmd16
  <2>1. card' = card
    BY <1>3, AskingEffect DEF Cmd8, Cmd58, Cmd16
  <2> QED
    BY <1>3, <2>1 DEF Cmd8, Cmd58, Cmd16, SendCmd
<1>4. CASE Acmd41 \/ Probe \/ Start
  <2>1. PICK r \in Responses, hcs \in BOOLEAN :
          \/ Exchange(LAMBDA a : SdSendOpCond(hcs, a), r)
          \/ Exchange(SendOpCond, r)
    BY <1>4 DEF Acmd41, Probe, Start
  <2>2. SameButIdle
    BY <2>1, SdSendOpCondEffect, SendOpCondEffect
  <2> QED
    BY <1>4, <2>2 DEF Acmd41, Probe, Start, Again, SendCmd, SameButIdle
<1>5. CASE Acmd41Exhausted \/ StartExhausted \/ Identified \/ NotIdentified
           \/ PowerOff
  BY <1>5 DEF Acmd41Exhausted, StartExhausted, Identified, NotIdentified,
     PowerOff
<1> QED
  BY <1>1, <1>2, <1>3, <1>4, <1>5 DEF Initializing

LEMMA ReadInvInitializing ==
  ASSUME InitInv, ReadInv, Initialize \/ Initializing
  PROVE  ReadInv'
<1>1. /\ UNCHANGED <<req, todo, buff, result>>
      /\ card'.left = card.left
      /\ pc \notin ReadSteps /\ pc' \notin ReadSteps
  BY InitializingKeepsRead DEF readVars
<1> QED
  BY <1>1 DEF ReadInv, ReadType, PacketInv, ResultInv, InPacket, ReadSteps,
     Asked

(* A read is asked for, and its command is sent.                           *)
LEMMA ReadInvAsk ==
  ASSUME InitInv, ReadInv, Readp \/ Cmd17
  PROVE  ReadInv'
<1> USE DEF ReadInv, ReadSteps, InPacket
<1>1. CASE Readp
  <2>1. /\ req' \in Requests /\ buff' = <<>> /\ result' = "none"
        /\ pc = "idle" /\ pc' = "cmd17" /\ UNCHANGED <<card, todo>>
    BY <1>1 DEF Readp
  <2> QED
    BY <2>1 DEF ReadType, PacketInv, ResultInv
<1>2. CASE Cmd17
  <2>1. PICK r \in Responses :
          /\ Exchange(LAMBDA a : ReadSingleBlock(Address(req.lba), a), r)
          /\ pc' = IF r = Ready THEN "token" ELSE "release"
    BY <1>2 DEF Cmd17
  <2>2. pc = "cmd17" /\ UNCHANGED <<req, todo, buff, result>>
    BY <1>2 DEF Cmd17, SendCmd, readVars
  <2>3. card \in Cards /\ ("BLOCK" \in cardType <=> card.kind = "SDHC")
    <3>1. fatFs = "set"
      BY <1>2, <2>2
      DEF Cmd17, SendCmd, InitInv, InitType, InitSteps, PortInv
    <3> QED
      BY <3>1 DEF InitInv, InitType, CardIsKnown
  <2>4. req.lba \in Nat
    BY RequestFacts DEF ReadType
  <2>5. card'.left = card.left /\ (r = Ready => card'.sector = req.lba)
    BY <2>1, <2>3, <2>4, AddressOfSector, ReadBlockEffect
  <2> QED
    BY <2>1, <2>2, <2>5 DEF ReadType, PacketInv, ResultInv, Asked
<1> QED
  BY <1>1, <1>2

(* The packet begins, or does not.                                         *)
LEMMA ReadInvToken ==
  ASSUME InitInv, ReadInv, Token \/ NoToken
  PROVE  ReadInv'
<1> USE DEF ReadInv, ReadSteps, InPacket
<1>1. req \in Requests /\ pc = "token" /\ buff = <<>>
  BY DEF ReadType, ResultInv, Token, NoToken
<1>2. CASE Token
  <2>1. /\ card' = [card EXCEPT !.left = PacketSize]
        /\ todo' = [skip |-> req.ofs, take |-> req.cnt, drop |-> Trailing]
        /\ pc' = IF req.ofs # 0 THEN "skip" ELSE "take"
        /\ UNCHANGED <<req, buff, result>>
    BY <1>2 DEF Token
  <2>2. card'.left = PacketSize /\ card'.sector = card.sector
    BY <2>1 DEF InitInv, InitType, Cards
  <2>3. ReadType'
    <3>1. /\ req.ofs \in 0 .. SectorSize /\ req.cnt \in 0 .. SectorSize
          /\ Trailing \in 0 .. PacketSize
      BY <1>1, RequestFacts, DiskAssumption
    <3>2. todo' \in [skip : 0 .. SectorSize, take : 0 .. SectorSize,
                     drop : 0 .. PacketSize]
      BY <2>1, <3>1
    <3> QED
      BY <2>1, <3>2 DEF ReadType
  <2>4. Trailing' = Trailing
    BY <2>1 DEF Trailing
  <2>5. buff' = Asked(0)'
    BY <1>1, <2>1 DEF Asked
  <2>6. req.cnt - todo'.take = 0
    BY <1>1, <2>1, RequestFacts
  <2>7. PacketInv'
    BY <1>1, <2>1, <2>2, <2>4, <2>5, <2>6, RequestFacts DEF PacketInv
  <2>8. ResultInv'
    BY <1>1, <2>1 DEF ResultInv
  <2> QED
    BY <2>3, <2>7, <2>8
<1>3. CASE NoToken
  BY <1>1, <1>3 DEF NoToken, readVars, ReadType, PacketInv, ResultInv, Asked
<1> QED
  BY <1>2, <1>3

(* A byte of the packet is clocked.                                        *)
LEMMA ClockEffect ==
  ASSUME InitInv, Clock, card.left > 0
  PROVE  /\ card'.left = card.left - 1
         /\ card'.sector = card.sector
         /\ UNCHANGED <<req, result>>
         /\ Trailing' = Trailing
BY DEF InitInv, InitType, Cards, Clock, Trailing

LEMMA ReadInvSkip ==
  ASSUME InitInv, ReadInv, SkipByte
  PROVE  ReadInv'
<1> USE DEF ReadInv, ReadSteps, InPacket
<1>1. /\ pc = "skip" /\ Clock /\ UNCHANGED buff
      /\ todo' = [todo EXCEPT !.skip = @ - 1]
      /\ pc' = IF todo.skip > 1 THEN "skip" ELSE "take"
  BY DEF SkipByte
<1>2. /\ todo.skip \in 1 .. req.ofs
      /\ todo.take = req.cnt /\ todo.drop = Trailing
      /\ card.left = todo.skip + todo.take + todo.drop
      /\ card.sector = req.lba
      /\ buff = <<>>
  BY <1>1 DEF PacketInv, ResultInv
<1>3. req \in Requests
  BY DEF ReadType
<1>4. /\ card'.left = card.left - 1 /\ card'.sector = card.sector
      /\ UNCHANGED <<req, result>> /\ Trailing' = Trailing
  BY <1>1, <1>2, <1>3, ClockEffect, RequestFacts
<1>5. /\ todo'.skip = todo.skip - 1
      /\ todo'.take = todo.take /\ todo'.drop = todo.drop
      /\ todo' \in [skip : 0 .. SectorSize, take : 0 .. SectorSize,
                    drop : 0 .. PacketSize]
  <2>1. SectorSize \in Nat /\ req.ofs \in Nat /\ req.ofs <= SectorSize
    BY <1>3, RequestFacts, DiskAssumption
  <2>2. todo.skip \in Nat /\ todo.skip >= 1 /\ todo.skip <= req.ofs
    BY <1>2, <2>1
  <2>3. todo.skip - 1 \in 0 .. SectorSize
    BY <2>1, <2>2
  <2> QED
    BY <1>1, <2>3 DEF ReadType
<1>6. ReadType'
  BY <1>4, <1>5 DEF ReadType
<1>7. buff' = Asked(0)' /\ req.cnt - todo'.take = 0
  BY <1>1, <1>2, <1>3, <1>5, RequestFacts DEF Asked
<1>8. PacketInv'
  <2>1. /\ todo.skip \in Nat /\ req.ofs \in Nat /\ req.cnt \in Nat \ {0}
        /\ Trailing \in Nat
        /\ todo.skip >= 1 /\ todo.skip <= req.ofs
        /\ card.left = todo.skip + req.cnt + Trailing
    <3>1. req.ofs \in Nat /\ req.cnt \in Nat \ {0} /\ Trailing \in Nat
      BY <1>3, RequestFacts
    <3> QED
      BY <1>2, <3>1
  <2>2. /\ card'.left = todo'.skip + req.cnt + Trailing
        /\ todo'.skip > 0 => todo'.skip \in 1 .. req.ofs
        /\ todo'.skip > 0 <=> todo.skip > 1
        /\ todo'.skip = 0 => card'.left = req.cnt + Trailing
        /\ req.cnt \in 1 .. req.cnt
        /\ todo'.skip >= 0
    BY <1>4, <1>5, <2>1
  <2>3. /\ pc' \in {"skip", "take"}
        /\ pc' = "skip" <=> todo'.skip > 0
        /\ pc' = "take" => todo'.skip = 0
    BY <1>1, <1>5, <2>1, <2>2
  <2>4. buff' = Asked(req.cnt - todo.take)'
    BY <1>4, <1>7 DEF Asked
  <2> QED
    BY <1>2, <1>4, <1>5, <2>2, <2>3, <2>4 DEF PacketInv
<1>9. ResultInv'
  BY <1>1, <1>2, <1>4 DEF ResultInv
<1> QED
  BY <1>6, <1>8, <1>9

LEMMA ReadInvTake ==
  ASSUME InitInv, ReadInv, TakeByte
  PROVE  ReadInv'
<1> USE DEF ReadInv, ReadSteps, InPacket
<1>1. /\ pc = "take" /\ Clock
      /\ buff' = Append(buff, NextByte)
      /\ todo' = [todo EXCEPT !.take = @ - 1]
      /\ pc' = IF todo.take > 1 THEN "take" ELSE "trail"
  BY DEF TakeByte
<1>2. /\ todo.take \in 1 .. req.cnt /\ todo.drop = Trailing
      /\ card.left = todo.take + todo.drop
      /\ card.sector = req.lba
      /\ buff = Asked(req.cnt - todo.take)
      /\ result # "OK"
  BY <1>1 DEF PacketInv, ResultInv
<1>3. req \in Requests
  BY DEF ReadType
<1>4. /\ card'.left = card.left - 1 /\ card'.sector = card.sector
      /\ UNCHANGED <<req, result>> /\ Trailing' = Trailing
  BY <1>1, <1>2, <1>3, ClockEffect, RequestFacts, SMTT(30)
<1>5. /\ todo'.take = todo.take - 1 /\ todo'.drop = todo.drop
      /\ todo' \in [skip : 0 .. SectorSize, take : 0 .. SectorSize,
                    drop : 0 .. PacketSize]
  <2>1. todo.take - 1 \in 0 .. SectorSize
    BY <1>2, <1>3, RequestFacts, DiskAssumption
  <2> QED
    BY <1>1, <2>1 DEF ReadType
<1>6. ReadType'
  BY <1>4, <1>5 DEF ReadType
<1> DEFINE n == req.cnt - todo.take
<1>7. n \in 0 .. req.cnt - 1 /\ n \in Nat /\ req.cnt - todo'.take = n + 1
  BY <1>2, <1>3, <1>5, RequestFacts
<1>8. PacketSize - card.left = req.ofs + n
  BY <1>2, <1>3, RequestFacts
<1>9. NextByte = <<req.lba, req.ofs + n>>
  BY <1>2, <1>8 DEF NextByte
<1>10. buff' = Asked(n + 1)
  BY <1>1, <1>2, <1>3, <1>7, <1>9, AskedNext
<1>11. \A k : Asked(k)' = Asked(k)
  BY <1>4 DEF Asked
<1>12. todo'.take = 0 <=> n + 1 = req.cnt
  BY <1>2, <1>3, <1>5, <1>7, RequestFacts
<1>13. pc' \in {"take", "trail"} /\ (pc' = "trail" <=> todo'.take = 0)
  BY <1>1, <1>2, <1>3, <1>5, RequestFacts, SMTT(30)
<1>14. PacketInv'
  <2>1. /\ card'.left = todo'.take + todo'.drop
        /\ todo'.take # 0 => todo'.take \in 1 .. req.cnt
        /\ todo'.take = 0 => card'.left = todo'.drop
        /\ todo'.drop \in 1 .. Trailing
    BY <1>2, <1>3, <1>4, <1>5, RequestFacts
  <2>2. buff' = Asked(req.cnt - todo.take)'
    BY <1>4, <1>7, <1>10 DEF Asked
  <2>3. todo'.take = 0 => buff' = Asked(req.cnt)'
    BY <1>4, <1>10, <1>12 DEF Asked
  <2> QED
    BY <1>2, <1>4, <1>5, <1>13, <2>1, <2>2, <2>3 DEF PacketInv
<1>15. ResultInv'
  <2>1. n + 1 \in 0 .. req.cnt
    BY <1>3, <1>7, RequestFacts
  <2>2. \E k \in 0 .. req.cnt' : buff' = Asked(k)'
    BY <1>4, <1>10, <1>11, <2>1
  <2> QED
    BY <1>2, <1>4, <1>13, <2>2 DEF ResultInv
<1> QED
  BY <1>6, <1>14, <1>15

LEMMA ReadInvDrop ==
  ASSUME InitInv, ReadInv, DropByte
  PROVE  ReadInv'
<1> USE DEF ReadInv, ReadSteps, InPacket
<1>1. /\ pc = "trail" /\ Clock /\ UNCHANGED buff
      /\ todo' = [todo EXCEPT !.drop = @ - 1]
      /\ pc' = IF todo.drop > 1 THEN "trail" ELSE "release"
  BY DEF DropByte
<1>2. /\ todo.drop \in 1 .. Trailing
      /\ card.left = todo.drop
      /\ card.sector = req.lba
      /\ buff = Asked(req.cnt)
      /\ result # "OK"
  BY <1>1 DEF PacketInv, ResultInv
<1>3. req \in Requests
  BY DEF ReadType
<1>4. Trailing \in Nat /\ PacketSize \in Nat /\ Trailing <= PacketSize
  BY <1>3, RequestFacts
<1>5. todo.drop \in Nat /\ todo.drop >= 1 /\ todo.drop <= Trailing
  BY <1>2, <1>4
<1>6. /\ card'.left = card.left - 1 /\ card'.sector = card.sector
      /\ UNCHANGED <<req, result>> /\ Trailing' = Trailing
  BY <1>1, <1>2, <1>5, ClockEffect
<1>7. /\ todo'.drop = todo.drop - 1
      /\ todo' \in [skip : 0 .. SectorSize, take : 0 .. SectorSize,
                    drop : 0 .. PacketSize]
  <2>1. todo.drop - 1 \in 0 .. PacketSize
    BY <1>4, <1>5
  <2> QED
    BY <1>1, <2>1 DEF ReadType
<1>8. ReadType'
  BY <1>6, <1>7 DEF ReadType
<1>9. buff' = Asked(req.cnt)'
  BY <1>1, <1>2, <1>6 DEF Asked
<1>10. PacketInv'
  <2>1. /\ card'.left = todo'.drop
        /\ todo'.drop > 0 => todo'.drop \in 1 .. Trailing
        /\ todo'.drop = 0 \/ todo'.drop > 0
        /\ todo'.drop > 0 <=> todo.drop > 1
    BY <1>2, <1>4, <1>5, <1>6, <1>7
  <2>2. pc' \in {"trail", "release"} /\ (pc' = "trail" <=> todo'.drop > 0)
    BY <1>1, <2>1
  <2>3. pc' = "release" => card'.left = 0
    BY <2>1, <2>2
  <2> QED
    BY <1>2, <1>6, <1>9, <2>1, <2>2, <2>3 DEF PacketInv
<1>11. ResultInv'
  <2>1. req.cnt \in 0 .. req.cnt
    BY <1>3, RequestFacts
  <2>2. \E k \in 0 .. req.cnt' : buff' = Asked(k)'
    BY <1>1, <1>2, <1>6, <2>1 DEF Asked
  <2>3. pc' \in {"trail", "release"} /\ result' # "OK"
    BY <1>1, <1>2, <1>6
  <2> QED
    BY <1>9, <2>2, <2>3 DEF ResultInv
<1> QED
  BY <1>8, <1>10, <1>11

(* `res' is OK exactly after a packet that was taken whole.                *)
LEMMA ReadInvReturns ==
  ASSUME InitInv, ReadInv, ReadpReturns \/ Dispose
  PROVE  ReadInv'
<1> USE DEF ReadInv, ReadSteps, InPacket
<1>1. UNCHANGED <<card, req, todo, buff>> /\ pc' = "idle"
  BY DEF ReadpReturns, Dispose, readVars
<1>2. CASE ReadpReturns
  <2>1. pc = "release" /\ result' = IF buff # <<>> THEN "OK" ELSE "ERROR"
    BY <1>2 DEF ReadpReturns
  <2> QED
    BY <1>1, <2>1 DEF ReadType, PacketInv, ResultInv, Asked
<1>3. CASE Dispose
  <2>1. pc = "idle" /\ result' = result
    BY <1>3 DEF Dispose, readVars
  <2> QED
    BY <1>1, <2>1 DEF ReadType, PacketInv, ResultInv, Asked
<1> QED
  BY <1>2, <1>3

LEMMA ReadInvNext ==
  ASSUME InitInv, ReadInv, [Next]_vars
  PROVE  ReadInv'
<1>1. CASE UNCHANGED vars
  BY <1>1 DEF vars, readVars, ReadInv, ReadType, PacketInv, ResultInv, Asked,
     Trailing
<1>2. CASE Reset
  <2>1. Init' => ReadInv'
    BY ReadInvInit, PTL
  <2> QED
    BY <1>2, <2>1, ResetIsInit
<1> QED
  BY <1>1, <1>2, ReadInvInitializing, ReadInvAsk, ReadInvToken, ReadInvSkip,
     ReadInvTake, ReadInvDrop, ReadInvReturns
  DEF Next, Driver, Reading

-----------------------------------------------------------------------------
LEMMA TypeOKIf == InitInv /\ ReadInv => TypeOK
<1> SUFFICES ASSUME InitInv, ReadInv PROVE TypeOK
  OBVIOUS
<1>1. Len(buff) <= SectorSize
  <2>1. req \in Requests /\ SectorSize \in Nat
    BY DiskAssumption DEF ReadInv, ReadType
  <2>2. CASE buff = <<>>
    BY <2>1, <2>2
  <2>3. CASE \E n \in 0 .. req.cnt : buff = Asked(n)
    <3>1. PICK n \in 0 .. req.cnt : buff = Asked(n)
      BY <2>3
    <3>2. n \in Nat /\ n <= SectorSize
      BY <2>1, RequestFacts
    <3> QED
      BY <2>1, <3>1, <3>2, AskedLength
  <2> QED
    BY <2>2, <2>3 DEF ReadInv, ResultInv
<1> QED
  BY <1>1 DEF TypeOK, InitInv, InitType, ReadInv, ReadType, Cards

LEMMA Invariance == Spec => [](InitInv /\ ReadInv)
<1>1. Init => InitInv /\ ReadInv
  BY InitInvInit, ReadInvInit
<1>2. InitInv /\ ReadInv /\ [Next]_vars => (InitInv /\ ReadInv)'
  BY TypeOKIf, InitInvNext, ReadInvNext
<1> QED
  BY <1>1, <1>2, PTL DEF Spec

(* The driver's variables keep their types: in particular what is stored   *)
(* never exceeds a sector.                                                 *)
THEOREM TypeCorrect == Spec => []TypeOK
BY Invariance, TypeOKIf, PTL

(* A card that pf_mount accepts is out of its idle state and is addressed  *)
(* in its own unit (disk_initialize), though any answer may be lost.       *)
THEOREM CardKnown == Spec => []CardIsKnown
<1>1. InitInv => CardIsKnown
  BY DEF InitInv
<1> QED
  BY <1>1, Invariance, PTL

(* xchg_spi is reached with the port off, where its wait has no end, only  *)
(* in the first exchange of a disk_readp for a FatFs that is left from     *)
(* before the reset, after an identification that has failed: whatever RAM *)
(* holds at a reset, and wherever power is lost.                           *)
THEOREM PortOn == Spec => []PortIsOn
<1>1. InitInv => PortIsOn
  BY DEF InitInv, InitType, PortInv, PortIsOn, InitSteps, ReadSteps
<1> QED
  BY <1>1, Invariance, PTL

(* disk_readp leaves no byte of a packet behind it, and both functions     *)
(* release the bus before they return.                                     *)
THEOREM BusFree == Spec => []BusIsFree
<1>1. InitInv /\ ReadInv => BusIsFree
  BY DEF InitInv, Released, ReadInv, PacketInv, InPacket, BusIsFree
<1> QED
  BY <1>1, Invariance, PTL

(* disk_readp that returns RES_OK has stored the bytes asked for, whatever *)
(* the sizes, the kind of the card, and what was lost on the way.          *)
THEOREM ReadsAreExact == Spec => []ReadIsExact
<1>1. ReadInv => ReadIsExact
  BY DEF ReadInv, ResultInv, Asked, ReadIsExact
<1> QED
  BY <1>1, Invariance, PTL
=============================================================================
