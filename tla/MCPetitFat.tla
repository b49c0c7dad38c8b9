----------------------------- MODULE MCPetitFat -----------------------------
(***************************************************************************)
(* PetitFat on small volumes: sectors of 4 bytes or 2 directory entries,   *)
(* names of 2 + 1 characters, FAT16 from 9 clusters on.                    *)
(***************************************************************************)
EXTENDS PetitFat

MCSectorSize == 4
MCDirSize == 2
MCBaseLen == 2
MCNameLen == 3
MCFat12Limit == 9
MCFat16Limit == 12
MCIndexRange == 16
MCChar == {" ", ".", "/", "e5", "a", "b", "d", "f", "h", "A", "B", "D", "F",
           "H"}

-----------------------------------------------------------------------------
(* Directory entries.                                                      *)
Ent(name, kind, cluster, size) ==
  [name |-> name, kind |-> kind, clust |-> cluster, size |-> size]

FileEnt(name, cluster, size) == Ent(name, "file", cluster, size)
DirEnt(name, cluster) == Ent(name, "dir", cluster, 0)
LabelEnt(name) == Ent(name, "label", 0, 0)
EndEnt == Ent(<<" ", " ", " ">>, "end", 0, 0)

ABH == <<"A", "B", "H">>       \* AB.H
FSP == <<"F", " ", " ">>       \* F
DSP == <<"D", " ", " ">>       \* D
Deleted == <<"e5", "B", "H">>

-----------------------------------------------------------------------------
(* The bytes of a FAT12 table whose entries from 0 on are given.           *)
Fat12Bytes(entries) ==
  LET half(k) == (entries[k \div 3 + 1]
                    \div (CASE k % 3 = 0 -> 1 [] k % 3 = 1 -> 16
                            [] k % 3 = 2 -> 256)) % 16
      halves == 3 * Len(entries)
      at(k) == IF k < halves THEN half(k) ELSE 0
  IN  [k \in 1 .. (halves + 1) \div 2 |-> at(2 * k - 2) + 16 * at(2 * k - 1)]

Fat16Bytes(entries) ==
  [k \in 1 .. 2 * Len(entries) |->
    IF k % 2 = 1 THEN entries[(k + 1) \div 2] % 256
                 ELSE entries[(k + 1) \div 2] \div 256]

FatSector(bytes, n) ==
  [kind |-> "fat",
   bytes |-> [k \in 1 .. 4 |->
     IF 4 * n + k <= Len(bytes) THEN bytes[4 * n + k] ELSE 0]]

DirSectorOf(e1, e2) == [kind |-> "dir", ents |-> <<e1, e2>>]

Data == [kind |-> "data"]

NoBpb == [rsvd |-> 0, fats |-> 0, fatsz16 |-> 0, fatsz32 |-> 0,
          csize |-> 1, rootent |-> 0, tot16 |-> 0, tot32 |-> 0]

Boot(fat, part, bpb) ==
  [kind |-> "boot", fat |-> fat, part |-> part, bpb |-> bpb]

Sectors(seq) == [s \in 0 .. Len(seq) - 1 |-> seq[s + 1]]

End12 == 4095

-----------------------------------------------------------------------------
(* FAT12 without a partition table, clusters of two sectors.  AB.H is in   *)
(* clusters 2, 5, 3; the entries of 2 and 5 lie across two sectors of the  *)
(* table.  The directory D is in clusters 4 and 6; its second file F ends  *)
(* too early.                                                              *)
Fat12 == Fat12Bytes(<<4088, End12, 5, End12, 6, 3, End12, End12>>)

SfdBpb == [NoBpb EXCEPT !.rsvd = 1, !.fats = 2, !.fatsz16 = 3, !.csize = 2,
                        !.rootent = 4, !.tot16 = 21]

Sfd ==
  LET fat == [n \in 1 .. 3 |-> FatSector(Fat12, n - 1)]
  IN  Sectors(<<Boot(TRUE, 9, SfdBpb)>> \o fat \o fat
        \o <<DirSectorOf(LabelEnt(ABH), FileEnt(Deleted, 7, 3)),
             DirSectorOf(DirEnt(DSP, 4), FileEnt(ABH, 2, 21))>>
        \o <<Data, Data, Data, Data>>                        \* 2, 3
        \o <<DirSectorOf(LabelEnt(DSP), FileEnt(<<"A", " ", " ">>, 7, 0)),
             DirSectorOf(LabelEnt(DSP), LabelEnt(DSP))>>     \* 4
        \o <<Data, Data>>                                    \* 5
        \o <<DirSectorOf(FileEnt(FSP, 7, 11), EndEnt),
             DirSectorOf(EndEnt, EndEnt)>>                   \* 6
        \o <<Data, Data>>)                                   \* 7

(* FAT16 in a partition, clusters of one sector, eight clusters.  The root *)
(* directory is full; D's chain is a circle.                               *)
Fat16 == Fat16Bytes(<<65528, 65535, 7, 65535, 4, 3, 65535, 5, 9, 65535>>)

PartBpb == [NoBpb EXCEPT !.rsvd = 2, !.fats = 1, !.fatsz32 = 5, !.csize = 1,
                         !.rootent = 2, !.tot32 = 16]

Partitioned ==
  LET fat == [n \in 1 .. 5 |-> FatSector(Fat16, n - 1)]
  IN  Sectors(<<Boot(FALSE, 2, NoBpb), Data, Boot(TRUE, 0, PartBpb), Data>>
        \o fat
        \o <<DirSectorOf(FileEnt(ABH, 2, 14), DirEnt(DSP, 4))>>
        \o <<Data, Data>>                                    \* 2, 3
        \o <<DirSectorOf(LabelEnt(ABH), LabelEnt(FSP))>>     \* 4
        \o <<Data, Data, Data, Data, Data>>)                 \* 5 - 9

(* No volume: no record signature, an empty partition table, a partition   *)
(* with another file system, too many clusters.                            *)
NoVolumes ==
  <<Sectors(<<Data, Data>>),
    Sectors(<<Boot(FALSE, 0, NoBpb), Data>>),
    Sectors(<<Boot(FALSE, 1, NoBpb), Boot(FALSE, 0, NoBpb)>>),
    Sectors(<<Boot(TRUE, 0, [PartBpb EXCEPT !.tot32 = 40])>>)>>

MCDisks == <<Sfd, Partitioned>> \o NoVolumes

(* A card that had a partition from its sector 20 on and has been          *)
(* formatted as a whole since; both boot records are complete.             *)
Reformatted ==
  [Sfd EXCEPT ![0].part = 20, ![20] = Boot(TRUE, 0, SfdBpb)]

MCReformatted == <<Reformatted>>

-----------------------------------------------------------------------------
Path(lead, names) == [lead |-> lead, names |-> names]

MCPaths ==
  <<Path(<<>>, <<<<"a", "b", ".", "h">>>>),
    Path(<<" ", "/">>, <<<<"D">>, <<"f">>>>),
    Path(<<>>, <<<<"a", "b", "d">>>>),                  \* too long
    Path(<<>>, <<<<"a", "b", ".", "h">>, <<"f">>>>),    \* through a file
    Path(<<"/">>, <<<<"d">>>>),                         \* a directory
    Path(<<"/">>, <<<<"d", ".">>, <<"a">>>>),
    Path(<<>>, <<<<"d">>, <<"b">>>>),                   \* not there
    Path(<<" ">>, <<>>)>>                               \* the root

(* Every directory and every path but the one that is too long is as the   *)
(* refinement theorem asks for; the run covers that path too.              *)
ASSUME ProperButOne ==
  /\ {n \in DOMAIN Paths : ~ProperPath(Paths[n])} = {3}
  /\ \A c \in DOMAIN Disks : ProperEntries(Disks[c])

ASSUME NoneMisleads == Disks = MCDisks => NoMisleadingCard

MCCounts == {1, 5, 10}
MCOffsets == {0, 3, 4, 8, 9, 12, 17, 30}
=============================================================================
