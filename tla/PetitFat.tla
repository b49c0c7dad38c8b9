------------------------------ MODULE PetitFat ------------------------------
(***************************************************************************)
(* Petit FatFs, pff.c: mounting a FAT12 or FAT16 volume, finding a file by *)
(* its path, reading it and moving in it.  Nothing is cached: each call    *)
(* reads boot records, directory entries, the allocation table and data    *)
(* from the card again, with disk_readp, and each transfer may fail.       *)
(*                                                                         *)
(* One action is one round of a loop of pff.c, or the code before one.     *)
(***************************************************************************)
EXTENDS FatVolume

CONSTANTS
  Disks,            \* the cards to choose from, a sequence
  Paths,            \* the paths that are opened, a sequence
  Counts,           \* the numbers of bytes that are read at a time
  Offsets           \* the positions that are gone to

ASSUME CallerAssumption ==
  /\ \A c \in DOMAIN Disks : IsDisk(Disks[c])
  /\ Paths \in Seq([lead : Seq(Char), names : Seq(Seq(Char))])
  /\ Counts \subseteq Nat
  /\ Offsets \subseteq Nat

(* No card leads a failed transfer to another volume: MountsTheVolume.     *)
NoMisleadingCard == \A c \in DOMAIN Disks : ~Misleading(Disks[c])

(* A path is a number of names, with blanks and a slash in front or not.   *)
Typed ==
  [i \in DOMAIN Paths |->
    LET p == Paths[i]
    IN  p.lead \o FlattenSeq([n \in DOMAIN p.names |->
                    IF n = 1 THEN p.names[n] ELSE <<"/">> \o p.names[n]])]

(* In front of the names are blanks only, and one slash or none.           *)
ProperLead(lead) ==
  \A i \in DOMAIN lead : \/ lead[i] = " "
                         \/ lead[i] = "/" /\ i = Len(lead)

ProperPath(p) ==
  ProperLead(p.lead) /\ \A n \in DOMAIN p.names : ProperName(p.names[n])

Proper ==
  /\ \A n \in DOMAIN Paths : ProperPath(Paths[n])
  /\ \A c \in DOMAIN Disks : ProperEntries(Disks[c])

Calls ==
  [op : {"mount", "unmount"}, arg : {0}]
    \cup [op : {"open"}, arg : DOMAIN Paths]
    \cup [op : {"read"}, arg : Counts]
    \cup [op : {"seek"}, arg : Offsets]

Idle == [op |-> "none", arg |-> 0]

VARIABLES
  card,             \* the card in the slot, by its number
  fatFs,            \* FatFs is set
  fs,               \* the FATFS object
  dj,               \* the DIR object, with the last-segment flag of its fn
  path,             \* what create_name has not yet taken
  call,             \* the call in progress, or Idle
  pc,               \* where it is
  bsect,            \* bsect of pf_mount
  btr,              \* btr of pf_read
  ofs,              \* ofs, clst and ifptr of pf_lseek
  clst,
  ifptr,
  got,              \* the caller's buffer: bytes of the last read
  answer,           \* the last FRESULT
  opened,           \* history: number of the path opened last
  failed            \* history: a transfer has failed in this call

handle == <<fatFs, fs, opened>>
findVars == <<dj, path>>
seekVars == <<ofs, clst, ifptr>>
locals == <<findVars, bsect, btr, seekVars>>
vars == <<card, handle, locals, call, pc, got, answer, failed>>

FResults == {"OK", "DISK_ERR", "NOT_READY", "NO_FILE", "NO_PATH",
             "NOT_OPENED", "NOT_ENABLED", "NO_FILESYSTEM"}

Places == {"idle", "mount", "table", "bpb", "unmount", "open", "segment",
           "find", "read", "chunk", "seek", "follow"}

disk == Disks[card]

FATFS ==
  [flag : BOOLEAN, csize : Nat, fs_type : {"FAT12", "FAT16"},
   n_rootdir : Nat, max_clust : Nat, fatbase : Nat, dirbase : Nat,
   database : Nat, org_clust : Nat, fsize : Nat, fptr : Nat,
   curr_clust : Nat, csect : Nat, dsect : Nat]

DIR ==
  [sclust : Nat, index : 0 .. IndexRange - 1, clust : Nat, sect : Nat,
   fn : [1 .. NameLen -> Char], last : BOOLEAN]

TypeOK ==
  /\ card \in DOMAIN Disks
  /\ fatFs \in BOOLEAN /\ failed \in BOOLEAN
  /\ fs \in FATFS
  /\ dj \in DIR
  /\ path \in Seq(Char)
  /\ call \in Calls \cup {Idle}
  /\ pc \in Places
  /\ bsect \in Nat /\ btr \in Nat /\ ofs \in Nat /\ clst \in Nat
  /\ ifptr \in Nat
  /\ got \in Seq(Nat \X Nat)
  /\ answer \in FResults \cup {"none"}
  /\ opened \in 0 .. Len(Paths)

NoDir == [sclust |-> 0, index |-> 0, clust |-> 0, sect |-> 0, fn |-> Blank,
          last |-> FALSE]

(* The model begins with FatFs clear, as the first pf_mount leaves it.     *)
(* What calls before that do through a FatFs that was never set is part of *)
(* HexSource, SdReader and DiskIo.                                         *)
Init ==
  /\ card \in DOMAIN Disks
  /\ fatFs = FALSE
  /\ fs = [flag |-> FALSE, csize |-> 0, fs_type |-> "FAT12",
           n_rootdir |-> 0, max_clust |-> 0, fatbase |-> 0, dirbase |-> 0,
           database |-> 0, org_clust |-> 0, fsize |-> 0, fptr |-> 0,
           curr_clust |-> 0, csect |-> 0, dsect |-> 0]
  /\ dj = NoDir
  /\ path = <<>>
  /\ call = Idle
  /\ pc = "idle"
  /\ bsect = 0 /\ btr = 0 /\ ofs = 0 /\ clst = 0 /\ ifptr = 0
  /\ got = <<>>
  /\ answer = "none"
  /\ opened = 0
  /\ failed = FALSE

(* The caller calls.                                                       *)
Call(c) ==
  /\ pc = "idle"
  /\ call' = c
  /\ pc' = c.op
  /\ got' = <<>>
  /\ answer' = "none"
  /\ failed' = FALSE
  /\ UNCHANGED <<card, handle, locals>>

(* `return res': the local variables are gone.                             *)
Return(res) ==
  /\ answer' = res
  /\ pc' = "idle"
  /\ call' = Idle
  /\ dj' = NoDir /\ path' = <<>> /\ bsect' = 0 /\ btr' = 0
  /\ ofs' = 0 /\ clst' = 0 /\ ifptr' = 0

GoTo(place) == pc' = place /\ UNCHANGED <<call, answer>>

Stay == GoTo(pc)

-----------------------------------------------------------------------------
(* Reading the table.  disk_readp is called with a sector, and an offset   *)
(* and a count that stay inside it.                                        *)
FatByte(s, o) == ByteIn(disk, s, o)

LdWord(low, high) == high * 256 + low

WordInSector(s, o) ==              \* mutant: no entry across two sectors
  LdWord(FatByte(s, o), FatByte(s, (o + 1) % SectorSize))

Fat12Word(s, o) ==
  LdWord(FatByte(s, o),
         IF o # SectorSize - 1 THEN FatByte(s, o + 1) ELSE FatByte(s + 1, 0))

Fat12Entry(c) ==
  LET bc == c + c \div 2
      wc == Fat12Word(fs.fatbase + bc \div SectorSize, bc % SectorSize)
  IN  IF c % 2 = 1 THEN wc \div 16 ELSE wc % 4096

Fat16Entry(c) ==
  LET n == SectorSize \div 2
      s == fs.fatbase + c \div n
      o == (c % n) * 2
  IN  LdWord(FatByte(s, o), FatByte(s, o + 1))

(* get_fat returns the entry, 1 for a cluster out of range, or 1 when a    *)
(* transfer fails: what it may return, and whether one has failed.         *)
GetFat(c) ==
  IF c < 2 \/ c >= fs.max_clust
    THEN {[link |-> 1, fails |-> FALSE]}
    ELSE {[link |-> IF fs.fs_type = "FAT12" THEN Fat12Entry(c)
                                            ELSE Fat16Entry(c),
           fails |-> FALSE],
          [link |-> 1, fails |-> TRUE]}

Clust2Sect(c) ==
  IF c < 2 \/ c - 2 >= fs.max_clust - 2 THEN 0
  ELSE (c - 2) * fs.csize + fs.database

-----------------------------------------------------------------------------
(* pf_mount.                                                               *)

(* check_fs.  When the second of its two transfers fails it returns 1, as  *)
(* for a boot record without a FAT volume, and a volume's own boot record  *)
(* is read as a partition table.                                           *)
CheckFs(s, fmt) ==
  \/ fmt = 3 /\ failed' = TRUE
  \/ fmt = 2 /\ ~IsBoot(disk, s) /\ UNCHANGED failed
  \/ fmt = 1 /\ IsBoot(disk, s) /\ failed' = TRUE
  \/ /\ IsBoot(disk, s)
     /\ fmt = IF disk[s].fat THEN 0 ELSE 1
     /\ UNCHANGED failed

Unmount ==
  /\ pc = "unmount"
  /\ fatFs' = FALSE
  /\ Return("OK")
  /\ UNCHANGED <<card, fs, opened, got, failed>>

(* disk_initialize, and check_fs of the first sector.                      *)
DriveNotReady ==
  /\ pc = "mount"
  /\ fatFs' = FALSE
  /\ failed' = TRUE
  /\ Return("NOT_READY")
  /\ UNCHANGED <<card, fs, opened, got>>

VolumeAt(s) ==
  GoTo("bpb") /\ bsect' = s /\ UNCHANGED <<findVars, btr, seekVars>>

CheckFirstSector ==
  /\ pc = "mount"
  /\ fatFs' = FALSE
  /\ \/ CheckFs(0, 0) /\ VolumeAt(0)
     \/ CheckFs(0, 1) /\ GoTo("table") /\ UNCHANGED locals
     \/ CheckFs(0, 2) /\ Return("NO_FILESYSTEM")
     \/ CheckFs(0, 3) /\ Return("DISK_ERR")
  /\ UNCHANGED <<card, fs, opened, got>>

(* The first entry of the partition table, and check_fs of its sector.     *)
ReadTable ==
  /\ pc = "table"
  /\ LET s == disk[0].part
     IN  \/ failed' = TRUE /\ Return("DISK_ERR")
         \/ s = 0 /\ Return("NO_FILESYSTEM") /\ UNCHANGED failed
         \/ s # 0 /\ CheckFs(s, 0) /\ VolumeAt(s)
         \/ s # 0 /\ (CheckFs(s, 1) \/ CheckFs(s, 2)) /\ Return("NO_FILESYSTEM")
         \/ s # 0 /\ CheckFs(s, 3) /\ Return("DISK_ERR")
  /\ UNCHANGED <<card, handle, got>>

(* The parameters of the volume.                                           *)
FatArea(b) == (IF b.fatsz16 # 0 THEN b.fatsz16 ELSE b.fatsz32) * b.fats

LastCluster(b) ==
  LET tsect == IF b.tot16 # 0 THEN b.tot16 ELSE b.tot32
  IN  (tsect - b.rsvd - FatArea(b) - b.rootent \div DirSize) \div b.csize + 2

GeometryOfDisk(b) ==               \* mutant: the volume begins with the disk
  [fs EXCEPT !.fatbase = b.rsvd, !.csize = b.csize,
             !.n_rootdir = b.rootent, !.max_clust = LastCluster(b)]

Geometry(b) ==
  [fs EXCEPT !.fatbase = bsect + b.rsvd, !.csize = b.csize,
             !.n_rootdir = b.rootent, !.max_clust = LastCluster(b)]

ReadBpb ==
  /\ pc = "bpb"
  /\ LET b == disk[bsect].bpb
         g == Geometry(b)
     IN  \/ failed' = TRUE /\ Return("DISK_ERR") /\ UNCHANGED <<fs, fatFs>>
         \/ /\ LastCluster(b) >= Fat16Limit
            /\ fs' = g
            /\ Return("NO_FILESYSTEM")
            /\ UNCHANGED <<failed, fatFs>>
         \/ /\ LastCluster(b) < Fat16Limit
            /\ fs' = [g EXCEPT
                 !.fs_type = IF LastCluster(b) >= Fat12Limit THEN "FAT16"
                                                             ELSE "FAT12",
                 !.dirbase = g.fatbase + FatArea(b),
                 !.database = g.fatbase + FatArea(b)
                                + b.rootent \div DirSize,
                 !.flag = FALSE]
            /\ fatFs' = TRUE
            /\ Return("OK")
            /\ UNCHANGED failed
  /\ UNCHANGED <<card, opened, got>>

-----------------------------------------------------------------------------
(* pf_open and follow_path.                                                *)
BeginOpenUnmounted ==
  /\ pc = "open" /\ ~fatFs
  /\ Return("NOT_ENABLED")
  /\ UNCHANGED <<card, handle, got, failed>>

(* Blanks and one slash are skipped.  The null path is the root directory, *)
(* which is no file.                                                       *)
WithoutLead(text) ==
  LET blanks == SelectInSeq(text \o <<"nul">>, LAMBDA char : char # " ") - 1
      rest == SubSeq(text, blanks + 1, Len(text))
  IN  IF rest # <<>> /\ Head(rest) = "/" THEN Tail(rest) ELSE rest

IsEnd(char) == char \in {" ", "nul"}

BeginOpen ==
  /\ pc = "open" /\ fatFs
  /\ fs' = [fs EXCEPT !.flag = FALSE]
  /\ LET text == WithoutLead(Typed[call.arg])
     IN  IF text = <<>> \/ IsEnd(Head(text))
         THEN Return("NO_FILE")
         ELSE /\ path' = text
              /\ GoTo("segment")
              /\ UNCHANGED <<dj, bsect, btr, seekVars>>
  /\ UNCHANGED <<card, fatFs, opened, got, failed>>

(* create_name: a name in directory form, and what is left of the path.  A *)
(* name that is too long, or has a second dot, ends there, and what is     *)
(* left goes on behind that character.                                     *)
ToUpper(char) == Capital(char)

Dots(text, k) == {j \in 1 .. k - 1 : text[j] = "."}

Room(text, k) ==
  IF Dots(text, k) = {} THEN BaseLen - (k - 1)
                        ELSE NameLen - BaseLen - (k - 1 - Min(Dots(text, k)))

Breaks(text, k) ==
  \/ IsEnd(text[k]) \/ text[k] = "/"
  \/ IF text[k] = "." THEN Dots(text, k) # {} ELSE Room(text, k) <= 0

FirstBreak(text, si) ==
  Breaks(text, si) /\ \A k \in 1 .. si - 1 : ~Breaks(text, k)

(* Character n of the name stands at `from' in the path.                   *)
CreateName(text, si) ==
  LET dot == Min(Dots(text, si) \cup {si})
      from(n) == IF n <= BaseLen THEN n ELSE dot + n - BaseLen
      upTo(n) == IF n <= BaseLen THEN dot ELSE si
  IN  [n \in 1 .. NameLen |->
        IF from(n) < upTo(n) THEN ToUpper(text[from(n)]) ELSE " "]

(* dir_rewind.                                                             *)
CanRewind(c) == c # 1 /\ c < fs.max_clust

Rewound(d) ==
  [d EXCEPT !.index = 0, !.clust = d.sclust,
            !.sect = IF d.sclust # 0 THEN Clust2Sect(d.sclust)
                                     ELSE fs.dirbase]

FollowSegment ==
  /\ pc = "segment"
  /\ \/ /\ ~CanRewind(dj.sclust)
        /\ Return("DISK_ERR")
     \/ /\ CanRewind(dj.sclust)
        /\ LET text == path \o <<"nul">>
           IN  \E si \in DOMAIN text :
                 /\ FirstBreak(text, si)
                 /\ dj' = Rewound([dj EXCEPT !.fn = CreateName(text, si),
                                            !.last = IsEnd(text[si])])
                 /\ path' = SubSeq(path, si + 1, Len(path))
        /\ GoTo("find")
        /\ UNCHANGED <<bsect, btr, seekVars>>
  /\ UNCHANGED <<card, handle, got, failed>>

(* dir_next: what it may return, with the DIR object, and whether a        *)
(* transfer has failed.  The index is a WORD; 0 is the end of any table.   *)
NextIndex == (dj.index + 1) % IndexRange

NextSector == [dj EXCEPT !.sect = @ + 1]

Moved(res, d) == [res |-> res, dj |-> d, fails |-> FALSE]

InNextCluster(entry) ==
  [res |-> IF entry.link <= 1 THEN "DISK_ERR"
           ELSE IF entry.link >= fs.max_clust THEN "NO_FILE" ELSE "OK",
   dj |-> IF entry.link <= 1 \/ entry.link >= fs.max_clust THEN NextSector
          ELSE [dj EXCEPT !.index = NextIndex, !.clust = entry.link,
                          !.sect = Clust2Sect(entry.link)],
   fails |-> entry.fails]

(* The mask with csize - 1 is the remainder: csize is a power of two.      *)
EndOfChainOnly == dj.sect = 0            \* mutant: the index goes round

EndOfIndex == NextIndex = 0 \/ dj.sect = 0

DirNext ==
  IF EndOfIndex THEN {Moved("NO_FILE", dj)}
  ELSE IF NextIndex % DirSize # 0
    THEN {Moved("OK", [dj EXCEPT !.index = NextIndex])}
  ELSE IF dj.clust = 0 /\ NextIndex >= fs.n_rootdir
    THEN {Moved("NO_FILE", NextSector)}
  ELSE IF dj.clust = 0 \/ (NextIndex \div DirSize) % fs.csize # 0
    THEN {Moved("OK", [NextSector EXCEPT !.index = NextIndex])}
  ELSE {InNextCluster(entry) : entry \in GetFat(dj.clust)}

(* The entry dir_find looks at.                                            *)
Seen == EntryIn(disk, dj.sect, dj.index % DirSize)

Matches == Seen.kind \notin {"end", "label"} /\ Seen.name = dj.fn

NotFound == IF dj.last THEN "NO_FILE" ELSE "NO_PATH"

EntryUnreadable ==
  /\ pc = "find"
  /\ failed' = TRUE
  /\ Return("DISK_ERR")
  /\ UNCHANGED <<card, handle, got>>

EndOfTable ==
  /\ pc = "find" /\ Seen.kind = "end"
  /\ Return(NotFound)
  /\ UNCHANGED <<card, handle, got, failed>>

NextEntry ==
  /\ pc = "find" /\ Seen.kind # "end" /\ ~Matches
  /\ \E next \in DirNext :
       /\ failed' = (failed \/ next.fails)
       /\ \/ /\ next.res = "OK"
             /\ dj' = next.dj
             /\ Stay
             /\ UNCHANGED <<path, bsect, btr, seekVars>>
          \/ next.res = "NO_FILE" /\ Return(NotFound)
          \/ next.res = "DISK_ERR" /\ Return("DISK_ERR")
  /\ UNCHANGED <<card, handle, got>>

FollowDirectory ==
  /\ pc = "find" /\ Matches /\ ~dj.last
  /\ \/ /\ Seen.kind = "dir"
        /\ dj' = [dj EXCEPT !.sclust = Seen.clust]
        /\ GoTo("segment")
        /\ UNCHANGED <<path, bsect, btr, seekVars>>
     \/ Seen.kind # "dir" /\ Return("NO_PATH")
  /\ UNCHANGED <<card, handle, got, failed>>

OpenFound ==
  /\ pc = "find" /\ Matches /\ dj.last
  /\ \/ Seen.kind = "dir" /\ Return("NO_FILE") /\ UNCHANGED handle
     \/ /\ Seen.kind # "dir"
        /\ fs' = [fs EXCEPT !.org_clust = Seen.clust, !.fsize = Seen.size,
                            !.fptr = 0, !.flag = TRUE]
        /\ opened' = call.arg
        /\ Return("OK")
        /\ UNCHANGED fatFs
  /\ UNCHANGED <<card, got, failed>>

-----------------------------------------------------------------------------
(* pf_read.                                                                *)
NotUsable == IF ~fatFs THEN "NOT_ENABLED" ELSE "NOT_OPENED"

Usable == fatFs /\ fs.flag

BeginReadUnusable ==
  /\ pc = "read" /\ ~Usable
  /\ Return(NotUsable)
  /\ UNCHANGED <<card, handle, got, failed>>

BeginRead ==
  /\ pc = "read" /\ Usable
  /\ LET remain == fs.fsize - fs.fptr
     IN  btr' = IF call.arg > remain THEN remain ELSE call.arg
  /\ GoTo("chunk")
  /\ UNCHANGED <<card, handle, findVars, bsect, seekVars, got, failed>>

ReadDone ==
  /\ pc = "chunk" /\ btr = 0
  /\ Return("OK")
  /\ UNCHANGED <<card, handle, got, failed>>

AtSector == fs.fptr % SectorSize = 0

AtCluster == AtSector /\ (fs.fptr \div SectorSize) % fs.csize = 0

(* The cluster of the next byte: on its border the first one of the file,  *)
(* or the one that get_fat gives.                                          *)
NextCluster ==
  IF ~AtCluster THEN {[link |-> fs.curr_clust, fails |-> FALSE]}
  ELSE IF fs.fptr = 0 THEN {[link |-> fs.org_clust, fails |-> FALSE]}
  ELSE GetFat(fs.curr_clust)

InClusterAnySector(f, c) ==              \* mutant: csect is not reset
  IF AtCluster THEN [f EXCEPT !.curr_clust = c] ELSE f

InCluster(f, c) ==
  IF AtCluster THEN [f EXCEPT !.curr_clust = c, !.csect = 0] ELSE f

InSector(f) ==
  IF AtSector
    THEN [f EXCEPT !.dsect = Clust2Sect(f.curr_clust) + f.csect,
                   !.csect = @ + 1]
    ELSE f

Closed(f) == [f EXCEPT !.flag = FALSE]

(* disk_readp of a part of a sector.                                       *)
Bytes(s, from, count) == [n \in 1 .. count |-> <<s, from + n - 1>>]

RestOfSector == SectorSize - (fs.fptr % SectorSize) \* mutant: not what is left

Portion ==
  LET rcnt == SectorSize - (fs.fptr % SectorSize)
  IN  IF rcnt > btr THEN btr ELSE rcnt

(* One round of the loop: the cluster, the sector and the bytes.  The      *)
(* chain is broken, the transfer fails, or the bytes arrive.               *)
ReadChunk ==
  /\ pc = "chunk" /\ btr > 0
  /\ \E next \in NextCluster :
       LET noLink == AtCluster /\ next.link <= 1
           noSector == AtSector /\ Clust2Sect(next.link) = 0
           f == InCluster(fs, next.link)
           g == InSector(f)
       IN  \/ /\ noLink \/ noSector
              /\ fs' = Closed(IF noLink THEN fs ELSE f)
              /\ failed' = (failed \/ next.fails)
              /\ Return("DISK_ERR")
              /\ UNCHANGED got
           \/ /\ ~noLink /\ ~noSector
              /\ fs' = Closed(g)
              /\ failed' = TRUE
              /\ Return("DISK_ERR")
              /\ UNCHANGED got
           \/ /\ ~noLink /\ ~noSector
              /\ got' = got \o Bytes(g.dsect, fs.fptr % SectorSize, Portion)
              /\ fs' = [g EXCEPT !.fptr = @ + Portion]
              /\ btr' = btr - Portion
              /\ Stay
              /\ UNCHANGED <<findVars, bsect, seekVars, failed>>
  /\ UNCHANGED <<card, fatFs, opened>>

-----------------------------------------------------------------------------
(* pf_lseek.                                                               *)
BeginSeekUnusable ==
  /\ pc = "seek" /\ ~Usable
  /\ Return(NotUsable)
  /\ UNCHANGED <<card, handle, got, failed>>

ClusterSize == fs.csize * SectorSize

Target == IF call.arg > fs.fsize THEN fs.fsize ELSE call.arg

SeekToStart ==
  /\ pc = "seek" /\ Usable /\ Target = 0
  /\ fs' = [fs EXCEPT !.fptr = 0]
  /\ Return("OK")
  /\ UNCHANGED <<card, fatFs, opened, got, failed>>

(* To the cluster where the search starts, which begins at `start'.        *)
Search(start, cluster) ==
  /\ fs' = [fs EXCEPT !.fptr = start, !.curr_clust = cluster]
  /\ ofs' = Target - start
  /\ clst' = cluster
  /\ ifptr' = fs.fptr
  /\ GoTo("follow")
  /\ UNCHANGED <<card, fatFs, opened, findVars, bsect, btr, got, failed>>

InLaterCluster ==
  fs.fptr > 0 /\ (Target - 1) \div ClusterSize >= (fs.fptr - 1) \div ClusterSize

(* The mask with ~(bcs - 1) takes away the remainder by bcs, a power of    *)
(* two.                                                                    *)
SeekForward ==
  /\ pc = "seek" /\ Usable /\ Target > 0 /\ InLaterCluster
  /\ Search((fs.fptr - 1) - ((fs.fptr - 1) % ClusterSize), fs.curr_clust)

SeekFromStart ==
  /\ pc = "seek" /\ Usable /\ Target > 0 /\ ~InLaterCluster
  /\ Search(0, fs.org_clust)

FollowChain ==
  /\ pc = "follow" /\ ofs > ClusterSize
  /\ \E next \in GetFat(clst) :
       /\ failed' = (failed \/ next.fails)
       /\ \/ /\ next.link <= 1 \/ next.link >= fs.max_clust
             /\ fs' = Closed(fs)
             /\ Return("DISK_ERR")
          \/ /\ 1 < next.link /\ next.link < fs.max_clust
             /\ clst' = next.link
             /\ fs' = [fs EXCEPT !.curr_clust = next.link,
                                 !.fptr = @ + ClusterSize]
             /\ ofs' = ofs - ClusterSize
             /\ Stay
             /\ UNCHANGED <<findVars, bsect, btr, ifptr>>
  /\ UNCHANGED <<card, fatFs, opened, got>>

SeekDone ==
  /\ pc = "follow" /\ ofs <= ClusterSize
  /\ LET f == [fs EXCEPT !.fptr = @ + ofs]
         n == ofs \div SectorSize
         s == Clust2Sect(clst)
     IN  \/ s = 0 /\ fs' = Closed(f) /\ Return("DISK_ERR")
         \/ /\ s # 0
            /\ fs' = IF ofs % SectorSize = 0 THEN [f EXCEPT !.csect = n]
                     ELSE [f EXCEPT !.csect = n + 1, !.dsect = s + n]
            /\ Return("OK")
  /\ UNCHANGED <<card, fatFs, opened, got, failed>>

-----------------------------------------------------------------------------
MountStep == DriveNotReady \/ CheckFirstSector \/ ReadTable \/ ReadBpb

OpenStep ==
  \/ BeginOpenUnmounted \/ BeginOpen \/ FollowSegment
  \/ EntryUnreadable \/ EndOfTable \/ NextEntry \/ FollowDirectory
  \/ OpenFound

ReadStep == BeginReadUnusable \/ BeginRead \/ ReadChunk \/ ReadDone

SeekStep ==
  \/ BeginSeekUnusable \/ SeekToStart \/ SeekForward \/ SeekFromStart
  \/ FollowChain \/ SeekDone

Step == MountStep \/ Unmount \/ OpenStep \/ ReadStep \/ SeekStep

Next == (\E c \in Calls : Call(c)) \/ Step

Spec == Init /\ [][Next]_vars

(* The processor runs.                                                     *)
FairSpec == Spec /\ WF_vars(Step)

-----------------------------------------------------------------------------
(* Whatever the volume looks like, fragmented or in order, with entries    *)
(* across sectors, names in subdirectories, and whatever fails, callers    *)
(* of pff.c see files of bytes.                                            *)
FilesOf ==
  [c \in DOMAIN Disks |->
    [n \in {m \in DOMAIN Paths : IsFile(Disks[c], Paths[m].names)} |->
      FileOf(Disks[c], Paths[n].names)]]

Mountable == [c \in DOMAIN Disks |-> IsVolume(Disks[c])]

File == INSTANCE ByteFile WITH
  files <- FilesOf[card],
  mountable <- Mountable[card],
  mounted <- fatFs /\ pc # "mount" /\ pc # "unmount",
  open <- IF Usable /\ pc \notin {"mount", "unmount", "open"}
            THEN opened ELSE 0,
  at <- IF ~Usable \/ pc \in {"mount", "unmount", "open"} THEN 0
        ELSE IF pc = "chunk" THEN fs.fptr - Len(got)
        ELSE IF pc = "follow" THEN ifptr
        ELSE fs.fptr,
  answer <- IF answer \in {"none", "OK"} THEN answer ELSE "ERROR"

ImplementsFile == File!Spec

(* While a file is open, what is remembered of its chain belongs to its    *)
(* position: the cluster of the last byte before it, and between sectors   *)
(* the sector of the next byte and the number of those begun.  pf_read and *)
(* pf_lseek go on from there.                                              *)
ChainPosition ==
  pc = "idle" /\ Usable /\ fs.fptr > 0 =>
    LET c == fs.org_clust
        last == (fs.fptr - 1) \div SectorSize
    IN  /\ fs.curr_clust = ClusterAt(disk, c, last \div fs.csize)
        /\ fs.csect = (last % fs.csize) + 1
        /\ fs.fptr % SectorSize # 0 =>
             fs.dsect = SectorInChain(disk, c, last)

(* A mounted volume is the card's, the one in its first sector or the one  *)
(* of its first partition, whatever transfer fails: a sector that is       *)
(* searched as a partition table is "not an FAT boot record" (pff.c:503).  *)
MountsTheVolume ==
  fatFs => fs.fatbase = FirstSector(disk) + Bpb(disk).rsvd

(* Every call returns, on any volume: the loops over a directory whose     *)
(* chain is a circle end too.                                              *)
CallsReturn == pc # "idle" ~> pc = "idle"
=============================================================================
