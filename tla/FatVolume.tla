----------------------------- MODULE FatVolume -----------------------------
(***************************************************************************)
(* A card formatted with FAT12 or FAT16, and what it says: the meaning of  *)
(* its sectors as the file system defines it, written without regard to    *)
(* how pff.c finds its way through them.                                   *)
(*                                                                         *)
(* A disk is a function from sectors to contents of one of four kinds:     *)
(*   boot   has the record signature; fat: names a FAT12/16 volume; part:  *)
(*          what stands where a partition table has its first entry; bpb   *)
(*   fat    bytes of an allocation table                                   *)
(*   dir    directory entries                                              *)
(*   data   bytes of files; the byte at offset o of sector s is <<s, o>>   *)
(***************************************************************************)
EXTENDS Integers, Sequences, SequencesExt, FiniteSetsExt

CONSTANTS
  SectorSize,       \* bytes of a sector                             (512)
  DirSize,          \* directory entries of a sector                  (16)
  BaseLen,          \* characters of a name before the dot             (8)
  NameLen,          \* and with those after it                        (11)
  Fat12Limit,       \* the first cluster number beyond FAT12       (0xFF7)
  Fat16Limit,       \* and beyond FAT16                           (0xFFF7)
  IndexRange,       \* directory entries that can be counted     (0x10000)
  Char              \* the characters of names and paths

(* The powers that numbers of bytes and of sectors may be; a remainder by  *)
(* one of them is what the mask below it leaves.                           *)
PowerOfTwo(n) == \E k \in 0 .. 15 : n = 2 ^ k

ASSUME VolumeAssumption ==
  /\ SectorSize \in Nat \ {0} /\ SectorSize % 2 = 0
  /\ PowerOfTwo(SectorSize)
  /\ DirSize \in Nat \ {0}
  /\ BaseLen \in Nat \ {0} /\ NameLen \in Nat /\ BaseLen < NameLen
  /\ Fat12Limit \in Nat /\ Fat16Limit \in Nat /\ 2 < Fat12Limit
  /\ Fat12Limit < Fat16Limit
  /\ IndexRange \in Nat \ {0} /\ IndexRange % DirSize = 0

(* Capital letters; the other letters do as well as these.                 *)
Letters == [a |-> "A", b |-> "B", d |-> "D", f |-> "F", h |-> "H"]

Capital(char) == IF char \in DOMAIN Letters THEN Letters[char] ELSE char

ASSUME CharAssumption ==
  /\ {" ", ".", "/"} \subseteq Char
  /\ "nul" \notin Char
  /\ \A char \in Char : Capital(char) \in Char

-----------------------------------------------------------------------------
(* Sectors.                                                                *)
Blank == [n \in 1 .. NameLen |-> " "]

EndMark == [name |-> Blank, kind |-> "end", clust |-> 0, size |-> 0]

Entries ==
  [name : [1 .. NameLen -> Char], kind : {"file", "dir", "label", "end"},
   clust : Nat, size : Nat]

(* A sector read as one of a table or of a directory; what other sectors   *)
(* hold is not told apart from zeros.                                      *)
ByteIn(disk, s, o) ==
  IF s \in DOMAIN disk /\ disk[s].kind = "fat" THEN disk[s].bytes[o + 1]
                                               ELSE 0

EntryIn(disk, s, n) ==
  IF s \in DOMAIN disk /\ disk[s].kind = "dir" THEN disk[s].ents[n + 1]
                                               ELSE EndMark

-----------------------------------------------------------------------------
(* The volume and its areas.                                               *)
IsBoot(disk, s) == s \in DOMAIN disk /\ disk[s].kind = "boot"

FirstSector(disk) ==
  IF IsBoot(disk, 0) /\ ~disk[0].fat THEN disk[0].part ELSE 0

Bpb(disk) == disk[FirstSector(disk)].bpb

FatSectors(b) == IF b.fatsz16 # 0 THEN b.fatsz16 ELSE b.fatsz32

TotalSectors(b) == IF b.tot16 # 0 THEN b.tot16 ELSE b.tot32

RootStart(b) == b.rsvd + b.fats * FatSectors(b)

DataStart(b) == RootStart(b) + b.rootent \div DirSize

Clusters(b) == (TotalSectors(b) - DataStart(b)) \div b.csize

(* Parameters that a formatted volume has: its areas lie one behind the    *)
(* other, behind the boot record and inside the volume, the root directory *)
(* fills its sectors, and a cluster has a power of two of sectors.         *)
Formatted(b) ==
  /\ b \in [rsvd : Nat \ {0}, fats : Nat, fatsz16 : Nat, fatsz32 : Nat,
            csize : Nat \ {0}, rootent : Nat \ {0}, tot16 : Nat, tot32 : Nat]
  /\ PowerOfTwo(b.csize)
  /\ b.rootent % DirSize = 0
  /\ DataStart(b) <= TotalSectors(b)

IsSector(x) ==
  \/ /\ x.kind = "boot"
     /\ x.fat \in BOOLEAN /\ x.part \in Nat
     /\ x.fat => Formatted(x.bpb)
  \/ x.kind = "fat" /\ x.bytes \in [1 .. SectorSize -> 0 .. 255]
  \/ x.kind = "dir" /\ x.ents \in [1 .. DirSize -> Entries]
  \/ x.kind = "data"

IsDisk(disk) == \A s \in DOMAIN disk : IsSector(disk[s])

(* A card whose first sector is a volume's boot record, but would, taken   *)
(* for a partition table, name the boot record of another volume: one that *)
(* once had partitions and was formatted as a whole later, say.            *)
Misleading(disk) ==
  /\ IsBoot(disk, 0) /\ disk[0].fat
  /\ LET s == disk[0].part
     IN  s # 0 /\ IsBoot(disk, s) /\ disk[s].fat

IsVolume(disk) ==
  /\ IsBoot(disk, FirstSector(disk))
  /\ disk[FirstSector(disk)].fat
  /\ Clusters(Bpb(disk)) + 2 < Fat16Limit

-----------------------------------------------------------------------------
(* Cluster c's entry: three half-bytes of a FAT12 table, two bytes of a    *)
(* FAT16 table.                                                            *)
TableByte(disk, k) ==
  ByteIn(disk, FirstSector(disk) + Bpb(disk).rsvd + k \div SectorSize,
         k % SectorSize)

HalfByte(disk, k) ==
  IF k % 2 = 0 THEN TableByte(disk, k \div 2) % 16
               ELSE TableByte(disk, k \div 2) \div 16

Entry(disk, c) ==
  IF Clusters(Bpb(disk)) + 2 < Fat12Limit
    THEN HalfByte(disk, 3 * c) + 16 * HalfByte(disk, 3 * c + 1)
           + 256 * HalfByte(disk, 3 * c + 2)
    ELSE TableByte(disk, 2 * c) + 256 * TableByte(disk, 2 * c + 1)

IsCluster(disk, c) == 2 <= c /\ c < Clusters(Bpb(disk)) + 2

(* The k-th cluster of the chain that starts at c, counted from 0; no      *)
(* cluster number if the chain has ended.                                  *)
ClusterAt(disk, c, k) ==
  LET follow[n \in 0 .. k] ==
        IF n = 0 THEN c
        ELSE IF IsCluster(disk, follow[n - 1])
             THEN Entry(disk, follow[n - 1]) ELSE 0
  IN  follow[k]

(* The n-th sector of the chain that starts at c.                          *)
SectorInChain(disk, c, n) ==
  LET b == Bpb(disk)
  IN  FirstSector(disk) + DataStart(b) + (n % b.csize)
        + (ClusterAt(disk, c, n \div b.csize) - 2) * b.csize

ChainHas(disk, c, n) ==
  IsCluster(disk, ClusterAt(disk, c, n \div Bpb(disk).csize))

(* The bytes of a file, as far as its chain goes.                          *)
FileBytes(disk, c, size) ==
  LET there == {n \in 1 .. size : ChainHas(disk, c, (n - 1) \div SectorSize)}
  IN  [n \in 1 .. Cardinality(there) |->
        <<SectorInChain(disk, c, (n - 1) \div SectorSize),
          (n - 1) % SectorSize>>]

-----------------------------------------------------------------------------
(* The directory that starts at cluster c, or the root directory for 0:    *)
(* the sector of its i-th entry, and whether it has one.                   *)
DirSector(disk, c, i) ==
  IF c = 0 THEN FirstSector(disk) + RootStart(Bpb(disk)) + i \div DirSize
           ELSE SectorInChain(disk, c, i \div DirSize)

DirHas(disk, c, i) ==
  IF c = 0 THEN i < Bpb(disk).rootent ELSE ChainHas(disk, c, i \div DirSize)

DirEntry(disk, c, i) ==
  EntryIn(disk, DirSector(disk, c, i), i % DirSize)

(* Its entries up to the end mark.                                         *)
Listed(disk, c) ==
  {i \in 0 .. IndexRange - 1 :
    \A j \in 0 .. i : /\ DirHas(disk, c, j)
                      /\ DirEntry(disk, c, j).kind # "end"}

(* A name without the blanks that fill it up.                              *)
Trimmed(name) ==
  SubSeq(name, 1, Max({0} \cup {n \in DOMAIN name : name[n] # " "}))

(* What a name in a path must look like to name a directory entry.         *)
Spells(text, name) ==
  LET base == Trimmed(SubSeq(name, 1, BaseLen))
      ext == Trimmed(SubSeq(name, BaseLen + 1, NameLen))
      capitals == [i \in 1 .. Len(text) |-> Capital(text[i])]
  IN  \/ capitals = base \o <<".">> \o ext
      \/ capitals = base /\ ext = <<>>

Named(disk, c, text) ==
  {i \in Listed(disk, c) :
    /\ DirEntry(disk, c, i).kind # "label"
    /\ Spells(text, DirEntry(disk, c, i).name)}

(* Names as they are written: a base and an extension that fit, with a dot *)
(* between them, or a base alone.  p is the place of the dot, or the end.  *)
DotAt(text, p) ==
  /\ p \in 2 .. BaseLen + 1
  /\ p <= Len(text) + 1 /\ Len(text) - p <= NameLen - BaseLen
  /\ p <= Len(text) => text[p] = "."
  /\ \A i \in DOMAIN text \ {p} : text[i] \notin {" ", ".", "/"}

ProperName(text) == \E p \in 2 .. Len(text) + 1 : DotAt(text, p)

(* Directories have no dots in their names, but for the two that stand for *)
(* the directory itself and the one above it.                              *)
Undotted(name) == name[1] = "." \/ \A n \in DOMAIN name : name[n] # "."

ProperEntries(disk) ==
  \A s \in DOMAIN disk :
    disk[s].kind = "dir" =>
      \A n \in DOMAIN disk[s].ents : Undotted(disk[s].ents[n].name)

NoEntry == [name |-> <<>>, kind |-> "none", clust |-> 0, size |-> 0]

RootEntry == [NoEntry EXCEPT !.kind = "dir"]

(* What a sequence of names leads to.                                      *)
Resolved(disk, names) ==
  LET at[n \in 0 .. Len(names)] ==
        IF n = 0 THEN RootEntry
        ELSE LET found == Named(disk, at[n - 1].clust, names[n])
             IN  IF at[n - 1].kind # "dir" \/ found = {} THEN NoEntry
                 ELSE DirEntry(disk, at[n - 1].clust, Min(found))
  IN  at[Len(names)]

IsFile(disk, names) ==
  IsVolume(disk) /\ names # <<>> /\ Resolved(disk, names).kind = "file"

FileOf(disk, names) ==
  LET e == Resolved(disk, names)
  IN  [size |-> e.size, bytes |-> FileBytes(disk, e.clust, e.size)]
=============================================================================
