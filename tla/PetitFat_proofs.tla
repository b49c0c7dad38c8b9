-------------------------- MODULE PetitFat_proofs --------------------------
(***************************************************************************)
(* Petit FatFs keeps its place in a file's chain: theorems for every       *)
(* card, every size of sector, cluster and table, and any sequence of      *)
(* calls and failures.                                                     *)
(***************************************************************************)
EXTENDS PetitFat, DataInduction, FiniteSetTheorems

(* First facts about volumes: division, cluster chains, the bytes of a     *)
(* file.  A disc is any disk, and `disk' the one in the slot.              *)

-----------------------------------------------------------------------------
(* Division.                                                               *)

LEMMA DivideBy ==
  ASSUME NEW n \in Nat \ {0}, NEW a \in Nat
  PROVE  /\ a \div n \in Nat /\ a % n \in 0 .. n - 1
         /\ a = (a \div n) * n + (a % n)
OBVIOUS

LEMMA DivUnique ==
  ASSUME NEW n \in Nat \ {0}, NEW q \in Int, NEW r \in 0 .. n - 1
  PROVE  (q * n + r) \div n = q /\ (q * n + r) % n = r
OBVIOUS

LEMMA ProductOrder ==
  ASSUME NEW n \in Nat \ {0}, NEW p \in Int, NEW q \in Int, p <= q
  PROVE  p * n <= q * n
<1>1. (q - p) * n >= 0
  OBVIOUS
<1> QED
  BY <1>1

LEMMA DivMonotone ==
  ASSUME NEW n \in Nat \ {0}, NEW a \in Nat, NEW b \in Nat, a <= b
  PROVE  a \div n <= b \div n
OBVIOUS

(* The next number: in the same group of n, or the first of the next one.  *)
LEMMA DivNext ==
  ASSUME NEW n \in Nat \ {0}, NEW a \in Nat
  PROVE  /\ (a + 1) % n # 0 => /\ (a + 1) \div n = a \div n
                               /\ (a + 1) % n = (a % n) + 1
         /\ (a + 1) % n = 0 => /\ (a + 1) \div n = a \div n + 1
                               /\ a % n = n - 1
<1> DEFINE q == a \div n
           r == a % n
<1>1. q \in Nat /\ r \in 0 .. n - 1 /\ a = q * n + r
  BY DivideBy
<1> HIDE DEF q, r
<1>2. CASE r < n - 1
  <2>1. a + 1 = q * n + (r + 1) /\ r + 1 \in 0 .. n - 1
    BY <1>1, <1>2
  <2>2. (a + 1) \div n = q /\ (a + 1) % n = r + 1
    BY <1>1, <2>1, DivUnique
  <2> QED
    BY <1>1, <2>2 DEF q, r
<1>3. CASE r = n - 1
  <2>1. a + 1 = (q + 1) * n + 0 /\ 0 \in 0 .. n - 1 /\ q + 1 \in Int
    BY <1>1, <1>3
  <2>2. (a + 1) \div n = q + 1 /\ (a + 1) % n = 0
    BY <2>1, DivUnique
  <2> QED
    BY <1>3, <2>2 DEF q, r
<1> QED
  BY <1>1, <1>2, <1>3

(* Groups of groups.                                                       *)
LEMMA DivDiv ==
  ASSUME NEW n \in Nat \ {0}, NEW m \in Nat \ {0}, NEW a \in Nat
  PROVE  (a \div n) \div m = a \div (m * n)
<1> DEFINE q == a \div n
           r == a % n
           p == q \div m
           s == q % m
<1>1. q \in Nat /\ r \in 0 .. n - 1 /\ a = q * n + r
  BY DivideBy
<1>2. p \in Nat /\ s \in 0 .. m - 1 /\ q = p * m + s
  BY <1>1, DivideBy
<1> HIDE DEF q, r, p, s
<1>3. m * n \in Nat \ {0} /\ p * m \in Nat /\ s * n \in Nat
  BY <1>2
<1>4. a = p * (m * n) + (s * n + r)
  BY <1>1, <1>2
<1>5. s * n + r \in 0 .. (m * n) - 1
  <2>1. s * n <= (m - 1) * n /\ 0 <= s * n
    BY <1>2, ProductOrder
  <2>2. (m - 1) * n = m * n - n
    OBVIOUS
  <2> QED
    BY <1>1, <1>3, <2>1, <2>2
<1>6. a \div (m * n) = p
  BY <1>2, <1>3, <1>4, <1>5, DivUnique
<1> QED
  BY <1>6 DEF p, q

-----------------------------------------------------------------------------
(* Sectors and the table.                                                  *)

LEMMA ByteInType ==
  ASSUME NEW disc, IsDisk(disc), NEW s, NEW o \in 0 .. SectorSize - 1
  PROVE  ByteIn(disc, s, o) \in 0 .. 255
<1>1. CASE s \in DOMAIN disc /\ disc[s].kind = "fat"
  <2>1. disc[s].bytes \in [1 .. SectorSize -> 0 .. 255]
    BY <1>1 DEF IsDisk, IsSector
  <2>2. o + 1 \in 1 .. SectorSize
    BY VolumeAssumption
  <2> QED
    BY <1>1, <2>1, <2>2 DEF ByteIn
<1>2. CASE ~(s \in DOMAIN disc /\ disc[s].kind = "fat")
  BY <1>2 DEF ByteIn
<1> QED
  BY <1>1, <1>2

LEMMA BlankType == Blank \in [1 .. NameLen -> Char]
BY CharAssumption DEF Blank

LEMMA EntryInType ==
  ASSUME NEW disc, IsDisk(disc), NEW s, NEW n \in 0 .. DirSize - 1
  PROVE  EntryIn(disc, s, n) \in Entries
<1>1. CASE s \in DOMAIN disc /\ disc[s].kind = "dir"
  <2>1. disc[s].ents \in [1 .. DirSize -> Entries]
    BY <1>1 DEF IsDisk, IsSector
  <2>2. n + 1 \in 1 .. DirSize
    BY VolumeAssumption
  <2> QED
    BY <1>1, <2>1, <2>2 DEF EntryIn
<1>2. CASE ~(s \in DOMAIN disc /\ disc[s].kind = "dir")
  BY <1>2, BlankType DEF EntryIn, EndMark, Entries
<1> QED
  BY <1>1, <1>2

LEMMA TableByteType ==
  ASSUME NEW disc, IsDisk(disc), NEW k \in Nat
  PROVE  TableByte(disc, k) \in 0 .. 255
<1>1. k % SectorSize \in 0 .. SectorSize - 1
  BY VolumeAssumption, DivideBy
<1> QED
  BY <1>1, ByteInType DEF TableByte

LEMMA HalfByteType ==
  ASSUME NEW disc, IsDisk(disc), NEW k \in Nat
  PROVE  HalfByte(disc, k) \in 0 .. 15
<1>1. k \div 2 \in Nat
  OBVIOUS
<1>2. TableByte(disc, k \div 2) \in 0 .. 255
  BY <1>1, TableByteType
<1> QED
  BY <1>2 DEF HalfByte

LEMMA EntryType ==
  ASSUME NEW disc, IsDisk(disc), NEW c \in Nat
  PROVE  Entry(disc, c) \in Nat
<1>1. /\ 3 * c \in Nat /\ 3 * c + 1 \in Nat /\ 3 * c + 2 \in Nat
      /\ 2 * c \in Nat /\ 2 * c + 1 \in Nat
  OBVIOUS
<1>2. /\ HalfByte(disc, 3 * c) \in 0 .. 15
      /\ HalfByte(disc, 3 * c + 1) \in 0 .. 15
      /\ HalfByte(disc, 3 * c + 2) \in 0 .. 15
  BY <1>1, HalfByteType
<1>3. /\ TableByte(disc, 2 * c) \in 0 .. 255
      /\ TableByte(disc, 2 * c + 1) \in 0 .. 255
  BY <1>1, TableByteType
<1> DEFINE h0 == HalfByte(disc, 3 * c)
           h1 == HalfByte(disc, 3 * c + 1)
           h2 == HalfByte(disc, 3 * c + 2)
           t0 == TableByte(disc, 2 * c)
           t1 == TableByte(disc, 2 * c + 1)
<1> HIDE DEF h0, h1, h2, t0, t1
<1>4. /\ h0 \in 0 .. 15 /\ h1 \in 0 .. 15 /\ h2 \in 0 .. 15
      /\ t0 \in 0 .. 255 /\ t1 \in 0 .. 255
  BY <1>2, <1>3 DEF h0, h1, h2, t0, t1
<1>5. h0 + 16 * h1 + 256 * h2 \in Nat /\ t0 + 256 * t1 \in Nat
  BY <1>4
<1> QED
  BY <1>5 DEF Entry, h0, h1, h2, t0, t1

-----------------------------------------------------------------------------
(* Chains.                                                                 *)
NextInChain(disc, c) == IF IsCluster(disc, c) THEN Entry(disc, c) ELSE 0

Links(disc) == [p \in Nat \X Nat |-> NextInChain(disc, p[2])]

LEMMA LinksType ==
  ASSUME NEW disc, IsDisk(disc)
  PROVE  Links(disc) \in [Nat \X Nat -> Nat]
<1>1. ASSUME NEW c \in Nat PROVE NextInChain(disc, c) \in Nat
  BY EntryType DEF NextInChain
<1> QED
  BY <1>1 DEF Links

LEMMA FollowExists ==
  ASSUME NEW disc, IsDisk(disc), NEW c \in Nat, NEW k \in Nat
  PROVE  \E f : Follows(f, Nat, c, Links(disc), k)
<1> DEFINE h == Links(disc)
<1>1. h \in [Nat \X Nat -> Nat]
  BY LinksType
<1> HIDE DEF h
<1>2. \A m \in Nat : \E f : Follows(f, Nat, c, h, m)
  BY <1>1, Recursion
<1> QED
  BY <1>2 DEF h

(* The function in the definition of ClusterAt is one that follows.        *)
LEMMA FollowIs ==
  ASSUME NEW disc, IsDisk(disc), NEW c \in Nat, NEW k \in Nat, NEW f,
         Follows(f, Nat, c, Links(disc), k)
  PROVE  ClusterAt(disc, c, k) = f[k]
<1> DEFINE Is(g) == g = [n \in 0 .. k |->
                           IF n = 0 THEN c
                           ELSE IF IsCluster(disc, g[n - 1])
                                THEN Entry(disc, g[n - 1]) ELSE 0]
           g == CHOOSE g : Is(g)
<1>1. /\ f \in [0 .. k -> Nat] /\ f[0] = c
      /\ \A n \in 0 .. k - 1 : f[n + 1] = Links(disc)[<<n, f[n]>>]
  BY DEF Follows
<1>2. ASSUME NEW n \in 0 .. k
      PROVE  f[n] = IF n = 0 THEN c
                    ELSE IF IsCluster(disc, f[n - 1])
                         THEN Entry(disc, f[n - 1]) ELSE 0
  <2>1. CASE n = 0
    BY <1>1, <2>1
  <2>2. CASE n # 0
    <3>1. n - 1 \in 0 .. k - 1 /\ (n - 1) + 1 = n /\ n - 1 \in 0 .. k
      BY <2>2
    <3>2. <<n - 1, f[n - 1]>> \in Nat \X Nat
      BY <1>1, <3>1
    <3>3. f[n] = Links(disc)[<<n - 1, f[n - 1]>>]
      BY <1>1, <3>1
    <3> QED
      BY <2>2, <3>2, <3>3 DEF Links, NextInChain
  <2> QED
    BY <2>1, <2>2
<1>3. Is(f)
  <2>1. f = [n \in 0 .. k |-> f[n]]
    BY <1>1
  <2> QED
    BY <1>2, <2>1
<1>4. Is(g)
  <2> HIDE DEF Is
  <2> QED
    BY <1>3
<1>5. ClusterAt(disc, c, k) = g[k]
  BY DEF ClusterAt
<1>6. /\ DOMAIN g = 0 .. k
      /\ \A n \in 0 .. k :
           g[n] = IF n = 0 THEN c
                  ELSE IF IsCluster(disc, g[n - 1])
                       THEN Entry(disc, g[n - 1]) ELSE 0
  BY <1>4
<1> HIDE DEF g, Is
<1> DEFINE N == {n \in Nat : n <= k => g[n] = f[n]}
<1>7. 0 \in N
  BY <1>1, <1>6
<1>8. ASSUME NEW n \in Nat, n \in N PROVE n + 1 \in N
  <2>1. SUFFICES ASSUME n + 1 <= k PROVE g[n + 1] = f[n + 1]
    OBVIOUS
  <2>2. n + 1 \in 0 .. k /\ n + 1 # 0 /\ (n + 1) - 1 = n /\ n <= k
    BY <2>1
  <2>3. g[n] = f[n]
    BY <1>8, <2>2
  <2> QED
    BY <1>2, <1>6, <2>2, <2>3
<1> HIDE DEF N
<1>9. Nat \subseteq N
  BY <1>7, <1>8, SetInduction
<1> QED
  BY <1>5, <1>9 DEF N

LEMMA ClusterAtType ==
  ASSUME NEW disc, IsDisk(disc), NEW c \in Nat, NEW k \in Nat
  PROVE  ClusterAt(disc, c, k) \in Nat
<1>1. PICK f : Follows(f, Nat, c, Links(disc), k)
  BY FollowExists
<1> QED
  BY <1>1, FollowIs DEF Follows

LEMMA ClusterAtFirst ==
  ASSUME NEW disc, IsDisk(disc), NEW c \in Nat
  PROVE  ClusterAt(disc, c, 0) = c
<1>1. PICK f : Follows(f, Nat, c, Links(disc), 0)
  BY FollowExists
<1>2. f[0] = c
  BY <1>1 DEF Follows
<1> QED
  BY <1>1, <1>2, FollowIs

(* One step along the chain.                                               *)
LEMMA ClusterAtNext ==
  ASSUME NEW disc, IsDisk(disc), NEW c \in Nat, NEW k \in Nat
  PROVE  ClusterAt(disc, c, k + 1) = NextInChain(disc, ClusterAt(disc, c, k))
<1>1. PICK f : Follows(f, Nat, c, Links(disc), k + 1)
  BY FollowExists
<1>2. /\ f \in [0 .. k + 1 -> Nat] /\ f[0] = c
      /\ \A n \in 0 .. k : f[n + 1] = Links(disc)[<<n, f[n]>>]
  BY <1>1 DEF Follows
<1> DEFINE g == [n \in 0 .. k |-> f[n]]
<1>3. Follows(g, Nat, c, Links(disc), k)
  BY <1>2 DEF Follows
<1>4. ClusterAt(disc, c, k) = f[k]
  <2>1. g[k] = f[k]
    OBVIOUS
  <2> HIDE DEF g
  <2> QED
    BY <1>3, <2>1, FollowIs
<1>5. ClusterAt(disc, c, k + 1) = f[k + 1]
  BY <1>1, FollowIs
<1>6. f[k + 1] = NextInChain(disc, f[k])
  <2>1. <<k, f[k]>> \in Nat \X Nat
    BY <1>2
  <2>2. f[k + 1] = Links(disc)[<<k, f[k]>>]
    BY <1>2
  <2> QED
    BY <2>1, <2>2 DEF Links
<1> QED
  BY <1>4, <1>5, <1>6

(* A chain that has ended does not go on.                                  *)
LEMMA ChainBefore ==
  ASSUME NEW disc, IsDisk(disc), NEW c \in Nat, NEW k \in Nat,
         IsCluster(disc, ClusterAt(disc, c, k))
  PROVE  \A j \in 0 .. k : IsCluster(disc, ClusterAt(disc, c, j))
<1> DEFINE N == {n \in Nat : n <= k =>
                   IsCluster(disc, ClusterAt(disc, c, k - n))}
<1>1. 0 \in N
  OBVIOUS
<1>2. ASSUME NEW n \in Nat, n \in N PROVE n + 1 \in N
  <2>1. SUFFICES ASSUME n + 1 <= k
                 PROVE  IsCluster(disc, ClusterAt(disc, c, k - (n + 1)))
    OBVIOUS
  <2> DEFINE j == k - (n + 1)
  <2>2. j \in Nat /\ j + 1 = k - n /\ n <= k
    BY <2>1
  <2>3. IsCluster(disc, ClusterAt(disc, c, j + 1))
    BY <1>2, <2>2
  <2> HIDE DEF j
  <2>4. NextInChain(disc, ClusterAt(disc, c, j)) # 0
    BY <2>2, <2>3, ClusterAtNext DEF IsCluster
  <2>5. IsCluster(disc, ClusterAt(disc, c, j))
    BY <2>4 DEF NextInChain
  <2> QED
    BY <2>5 DEF j
<1> HIDE DEF N
<1>3. Nat \subseteq N
  BY <1>1, <1>2, SetInduction
<1>4. ASSUME NEW j \in 0 .. k PROVE IsCluster(disc, ClusterAt(disc, c, j))
  <2>1. k - j \in Nat /\ k - j <= k /\ k - (k - j) = j
    OBVIOUS
  <2> QED
    BY <1>3, <2>1 DEF N
<1> QED
  BY <1>4

-----------------------------------------------------------------------------
(* The bytes of a file.                                                    *)

(* A set of numbers from 1 on without gaps is an interval.                 *)
LEMMA Initial ==
  ASSUME NEW m \in Nat, NEW S \in SUBSET (1 .. m),
         \A n \in S : \A j \in 1 .. n : j \in S
  PROVE  /\ Cardinality(S) \in 0 .. m
         /\ S = 1 .. Cardinality(S)
<1>1. CASE S = 1 .. m
  <2>1. Cardinality(1 .. m) = m
    BY FS_Interval
  <2> QED
    BY <1>1, <2>1
<1>2. CASE S # 1 .. m
  <2> DEFINE Missing == {n \in 1 .. m : n \notin S}
  <2>1. Missing \in SUBSET Nat /\ Missing # {}
    <3>1. Missing \in SUBSET Nat
      OBVIOUS
    <3>2. ASSUME Missing = {} PROVE S = 1 .. m
      <4>1. \A n \in 1 .. m : n \in S
        BY <3>2
      <4>2. \A n \in S : n \in 1 .. m
        OBVIOUS
      <4> QED
        BY <4>1, <4>2, Zenon
    <3> QED
      BY <1>2, <3>1, <3>2
  <2>2. PICK k \in Missing : \A n \in Missing : k <= n
    BY <2>1, LeastOfSet
  <2>3. k \in 1 .. m /\ k - 1 \in Nat
    BY <2>2
  <2>4. S = 1 .. k - 1
    <3>1. ASSUME NEW n \in 1 .. k - 1 PROVE n \in S
      BY <2>2, <2>3
    <3>2. ASSUME NEW n \in S PROVE n \in 1 .. k - 1
      <4>1. n \in 1 .. m
        OBVIOUS
      <4>2. CASE k <= n
        <5>1. k \in 1 .. n
          BY <2>3, <4>1, <4>2
        <5> QED
          BY <2>2, <5>1
      <4> QED
        BY <2>3, <4>1, <4>2
    <3> QED
      BY <3>1, <3>2
  <2>5. Cardinality(1 .. k - 1) = k - 1
    BY <2>3, FS_Interval
  <2> QED
    BY <2>3, <2>4, <2>5
<1> QED
  BY <1>1, <1>2

(* A file has its bytes as far as its chain goes, and no further.          *)
LEMMA FileBytesAre ==
  ASSUME NEW disc, IsDisk(disc), NEW c \in Nat, NEW size \in Nat,
         Bpb(disc).csize \in Nat \ {0}
  PROVE  LET bytes == FileBytes(disc, c, size)
         IN  /\ Len(bytes) \in 0 .. size
             /\ bytes = [n \in 1 .. Len(bytes) |->
                          <<SectorInChain(disc, c, (n - 1) \div SectorSize),
                            (n - 1) % SectorSize>>]
             /\ \A n \in 1 .. size :
                  n <= Len(bytes) <=>
                    ChainHas(disc, c, (n - 1) \div SectorSize)
<1> DEFINE there == {n \in 1 .. size : ChainHas(disc, c, (n - 1) \div SectorSize)}
           bytes == FileBytes(disc, c, size)
<1>1. ASSUME NEW n \in there, NEW j \in 1 .. n PROVE j \in there
  <2> DEFINE cs == Bpb(disc).csize
             a == (n - 1) \div SectorSize
             b == (j - 1) \div SectorSize
  <2>1. n \in 1 .. size /\ j \in 1 .. size /\ n - 1 \in Nat /\ j - 1 \in Nat
    OBVIOUS
  <2>2. j - 1 <= n - 1
    BY <2>1
  <2>3. a \in Nat /\ b \in Nat /\ b <= a
    BY <2>1, <2>2, VolumeAssumption, DivideBy, DivMonotone
  <2> HIDE DEF a, b
  <2>4. a \div cs \in Nat /\ b \div cs \in Nat /\ b \div cs <= a \div cs
    BY <2>3, DivideBy, DivMonotone
  <2>5. IsCluster(disc, ClusterAt(disc, c, a \div cs))
    BY DEF ChainHas, a
  <2>6. b \div cs \in 0 .. a \div cs
    BY <2>4
  <2>7. IsCluster(disc, ClusterAt(disc, c, b \div cs))
    <3> DEFINE ka == a \div cs
               kb == b \div cs
    <3>1. ka \in Nat /\ kb \in 0 .. ka /\ IsCluster(disc, ClusterAt(disc, c, ka))
      BY <2>4, <2>5, <2>6
    <3> HIDE DEF ka, kb
    <3>2. IsCluster(disc, ClusterAt(disc, c, kb))
      BY <3>1, ChainBefore
    <3> QED
      BY <3>2 DEF kb
  <2> QED
    BY <2>1, <2>7 DEF ChainHas, b
<1>2. there \in SUBSET (1 .. size)
  OBVIOUS
<1>3. bytes = [n \in 1 .. Cardinality(there) |->
                <<SectorInChain(disc, c, (n - 1) \div SectorSize),
                  (n - 1) % SectorSize>>]
  BY DEF FileBytes
<1>4. \A n \in 1 .. size :
        n \in there <=> ChainHas(disc, c, (n - 1) \div SectorSize)
  OBVIOUS
<1> HIDE DEF there, bytes
<1>5. Cardinality(there) \in 0 .. size /\ there = 1 .. Cardinality(there)
  BY <1>1, <1>2, Initial
<1>6. Len(bytes) = Cardinality(there)
  BY <1>3, <1>5
<1> QED
  BY <1>3, <1>4, <1>5, <1>6 DEF bytes

-----------------------------------------------------------------------------
(* The invariant.                                                          *)

(* The FATFS object describes the volume.                                  *)
Describes ==
  LET b == Bpb(disk)
  IN  /\ IsVolume(disk)
      /\ fs.fatbase = FirstSector(disk) + b.rsvd
      /\ fs.csize = b.csize
      /\ fs.n_rootdir = b.rootent
      /\ fs.max_clust = Clusters(b) + 2
      /\ fs.dirbase = FirstSector(disk) + RootStart(b)
      /\ fs.database = FirstSector(disk) + DataStart(b)
      /\ fs.fs_type = IF Clusters(b) + 2 < Fat12Limit THEN "FAT12" ELSE "FAT16"

MountInv ==
  /\ fatFs => Describes
  /\ pc \in {"table", "bpb"} => ~fatFs
  /\ pc \in {"segment", "find"} => fatFs
  /\ pc = "table" => IsBoot(disk, 0)
  /\ pc = "bpb" => /\ bsect = FirstSector(disk)
                   /\ IsBoot(disk, bsect) /\ disk[bsect].fat

(* What is left of a path, and what is left to read or to go.              *)
ExtentInv ==
  /\ pc \in {"mount", "unmount", "open", "read", "seek"} => call.op = pc
  /\ pc \in {"segment", "find"} => call.op = "open"
  /\ pc = "chunk" => call.op = "read"
  /\ pc = "follow" => call.op = "seek"
  /\ pc \in {"segment", "find"} => ~fs.flag
  /\ Usable => fs.fptr <= fs.fsize
  /\ pc = "chunk" => Usable /\ fs.fptr + btr <= fs.fsize
  /\ pc = "follow" => Usable /\ ofs > 0 /\ fs.fptr + ofs <= fs.fsize

(* The place in the chain belongs to the position, and while the chain is  *)
(* searched to the beginning of a cluster.                                 *)
LastSector == (fs.fptr - 1) \div SectorSize

AtPosition ==
  fs.fptr > 0 =>
    /\ fs.curr_clust = ClusterAt(disk, fs.org_clust, LastSector \div fs.csize)
    /\ fs.csect = (LastSector % fs.csize) + 1
    /\ fs.fptr % SectorSize # 0 =>
         fs.dsect = SectorInChain(disk, fs.org_clust, LastSector)
    /\ IsCluster(disk, fs.curr_clust)

PositionInv ==
  /\ Usable /\ pc # "follow" => AtPosition
  /\ pc = "follow" =>
       /\ fs.fptr % ClusterSize = 0
       /\ clst = fs.curr_clust
       /\ clst = ClusterAt(disk, fs.org_clust, fs.fptr \div ClusterSize)

-----------------------------------------------------------------------------
(* The volume's parameters.                                                *)

LEMMA CardMisleadsNot ==
  ASSUME NoMisleadingCard, card \in DOMAIN Disks
  PROVE  ~Misleading(disk)
BY DEF NoMisleadingCard, disk

LEMMA CardIsDisk == card \in DOMAIN Disks => IsDisk(disk)
BY CallerAssumption DEF disk

LEMMA BpbFacts ==
  ASSUME NEW b, Formatted(b)
  PROVE  /\ b.rsvd \in Nat \ {0} /\ b.csize \in Nat \ {0}
         /\ b.rootent \in Nat \ {0} /\ b.rootent % DirSize = 0
         /\ FatSectors(b) \in Nat /\ TotalSectors(b) \in Nat
         /\ FatArea(b) \in Nat
         /\ RootStart(b) = b.rsvd + FatArea(b)
         /\ DataStart(b) = b.rsvd + FatArea(b) + b.rootent \div DirSize
         /\ RootStart(b) \in Nat \ {0} /\ DataStart(b) \in Nat \ {0}
         /\ Clusters(b) \in Nat
         /\ LastCluster(b) = Clusters(b) + 2
<1>1. /\ b.rsvd \in Nat \ {0} /\ b.fats \in Nat /\ b.fatsz16 \in Nat
      /\ b.fatsz32 \in Nat /\ b.csize \in Nat \ {0}
      /\ b.rootent \in Nat \ {0} /\ b.tot16 \in Nat /\ b.tot32 \in Nat
      /\ b.rootent % DirSize = 0 /\ DataStart(b) <= TotalSectors(b)
  BY DEF Formatted
<1>2. FatSectors(b) \in Nat /\ TotalSectors(b) \in Nat
  BY <1>1 DEF FatSectors, TotalSectors
<1>3. FatSectors(b) * b.fats = b.fats * FatSectors(b)
  BY <1>1, <1>2
<1>4. FatSectors(b) * b.fats \in Nat
  BY <1>1, <1>2
<1>5. FatArea(b) = FatSectors(b) * b.fats
  BY DEF FatArea, FatSectors
<1>6. b.rootent \div DirSize \in Nat
  BY <1>1, VolumeAssumption, DivideBy
<1>7. RootStart(b) = b.rsvd + FatArea(b)
  BY <1>3, <1>5 DEF RootStart
<1>8. DataStart(b) = b.rsvd + FatArea(b) + b.rootent \div DirSize
  BY <1>7 DEF DataStart
<1>9. /\ RootStart(b) \in Nat \ {0} /\ DataStart(b) \in Nat \ {0}
      /\ FatArea(b) \in Nat
  BY <1>1, <1>4, <1>5, <1>6, <1>7, <1>8
<1>10. TotalSectors(b) - DataStart(b) \in Nat
  BY <1>1, <1>2, <1>9
<1>11. Clusters(b) \in Nat
  BY <1>1, <1>10, DivideBy DEF Clusters
<1>12. TotalSectors(b) - b.rsvd - FatArea(b) - b.rootent \div DirSize
         = TotalSectors(b) - DataStart(b)
  BY <1>1, <1>2, <1>6, <1>8, <1>9
<1>13. LastCluster(b) = Clusters(b) + 2
  BY <1>12 DEF LastCluster, Clusters, TotalSectors
<1> QED
  BY <1>1, <1>2, <1>7, <1>8, <1>9, <1>11, <1>13

LEMMA BootIsFormatted ==
  ASSUME IsDisk(disk), NEW s, IsBoot(disk, s), disk[s].fat
  PROVE  Formatted(disk[s].bpb)
BY DEF IsDisk, IsBoot, IsSector

LEMMA FirstSectorType ==
  ASSUME IsDisk(disk) PROVE FirstSector(disk) \in Nat
BY DEF IsDisk, IsBoot, IsSector, FirstSector

LEMMA VolumeFacts ==
  ASSUME IsDisk(disk), IsVolume(disk)
  PROVE  Formatted(Bpb(disk)) /\ FirstSector(disk) \in Nat
BY FirstSectorType, BootIsFormatted DEF IsVolume, Bpb

-----------------------------------------------------------------------------
(* get_fat and clust2sect.                                                 *)

LEMMA FatByteIs ==
  ASSUME IsDisk(disk), Describes, NEW k \in Nat
  PROVE  FatByte(fs.fatbase + k \div SectorSize, k % SectorSize)
           = TableByte(disk, k)
BY DEF Describes, FatByte, TableByte

LEMMA FatByteTypes ==
  ASSUME IsDisk(disk), NEW s, NEW o \in 0 .. SectorSize - 1
  PROVE  FatByte(s, o) \in 0 .. 255
BY ByteInType DEF FatByte

(* The two bytes of a FAT12 entry, wherever the border of a sector is.     *)
LEMMA Fat12WordIs ==
  ASSUME IsDisk(disk), Describes, NEW k \in Nat
  PROVE  Fat12Word(fs.fatbase + k \div SectorSize, k % SectorSize)
           = TableByte(disk, k) + 256 * TableByte(disk, k + 1)
<1> DEFINE s == fs.fatbase + k \div SectorSize
           o == k % SectorSize
<1>1. FatByte(s, o) = TableByte(disk, k)
  BY FatByteIs
<1>2. (IF o # SectorSize - 1 THEN FatByte(s, o + 1) ELSE FatByte(s + 1, 0))
        = TableByte(disk, k + 1)
  <2>1. FatByte(fs.fatbase + (k + 1) \div SectorSize, (k + 1) % SectorSize)
          = TableByte(disk, k + 1)
    BY FatByteIs
  <2>2. fs.fatbase \in Nat
    <3>1. Formatted(Bpb(disk)) /\ FirstSector(disk) \in Nat
      BY VolumeFacts DEF Describes
    <3>2. Bpb(disk).rsvd \in Nat
      BY <3>1, BpbFacts
    <3> QED
      BY <3>1, <3>2 DEF Describes
  <2>3. k \div SectorSize \in Nat /\ o \in 0 .. SectorSize - 1
    BY VolumeAssumption, DivideBy
  <2>4. CASE (k + 1) % SectorSize # 0
    <3>1. /\ (k + 1) \div SectorSize = k \div SectorSize
          /\ (k + 1) % SectorSize = o + 1
      BY <2>4, VolumeAssumption, DivNext
    <3>2. (k + 1) % SectorSize \in 0 .. SectorSize - 1
      BY VolumeAssumption, DivideBy
    <3>3. o # SectorSize - 1
      BY <2>3, <3>1, <3>2, VolumeAssumption
    <3> QED
      BY <2>1, <3>1, <3>3
  <2>5. CASE (k + 1) % SectorSize = 0
    <3>1. /\ (k + 1) \div SectorSize = k \div SectorSize + 1
          /\ o = SectorSize - 1
      BY <2>5, VolumeAssumption, DivNext
    <3>2. fs.fatbase + (k + 1) \div SectorSize = s + 1
      BY <2>2, <2>3, <3>1
    <3> QED
      BY <2>1, <2>5, <3>1, <3>2
  <2> QED
    BY <2>4, <2>5
<1> DEFINE low == TableByte(disk, k)
           high == TableByte(disk, k + 1)
<1>3. low \in 0 .. 255 /\ high \in 0 .. 255
  BY TableByteType
<1>4. Fat12Word(s, o) = high * 256 + low
  BY <1>1, <1>2 DEF Fat12Word, LdWord
<1> HIDE DEF low, high
<1>5. high * 256 + low = low + 256 * high
  BY <1>3
<1> QED
  BY <1>4, <1>5 DEF low, high

LEMMA Fat12EntryIs ==
  ASSUME IsDisk(disk), Describes, NEW c \in Nat, fs.fs_type = "FAT12"
  PROVE  Fat12Entry(c) = Entry(disk, c)
<1> DEFINE bc == c + c \div 2
           low == TableByte(disk, bc)
           high == TableByte(disk, bc + 1)
<1>1. bc \in Nat
  OBVIOUS
<1>2. low \in 0 .. 255 /\ high \in 0 .. 255
  BY <1>1, TableByteType
<1>3. Fat12Word(fs.fatbase + bc \div SectorSize, bc % SectorSize)
        = low + 256 * high
  BY <1>1, Fat12WordIs
<1>4. Entry(disk, c) = HalfByte(disk, 3 * c) + 16 * HalfByte(disk, 3 * c + 1)
                         + 256 * HalfByte(disk, 3 * c + 2)
  BY DEF Entry, Describes
<1>5. CASE c % 2 = 0
  <2>1. /\ (3 * c) % 2 = 0 /\ (3 * c + 1) % 2 = 1 /\ (3 * c + 2) % 2 = 0
        /\ (3 * c) \div 2 = bc /\ (3 * c + 1) \div 2 = bc
        /\ (3 * c + 2) \div 2 = bc + 1
    BY <1>5
  <2>2. /\ HalfByte(disk, 3 * c) = low % 16
        /\ HalfByte(disk, 3 * c + 1) = low \div 16
        /\ HalfByte(disk, 3 * c + 2) = high % 16
    BY <2>1 DEF HalfByte
  <2>3. Fat12Entry(c) = (low + 256 * high) % 4096
    BY <1>3, <1>5 DEF Fat12Entry
  <2> HIDE DEF low, high
  <2>4. (low % 16) + 16 * (low \div 16) + 256 * (high % 16)
          = (low + 256 * high) % 4096
    BY <1>2
  <2> QED
    BY <1>4, <2>2, <2>3, <2>4
<1>6. CASE c % 2 = 1
  <2>1. /\ (3 * c) % 2 = 1 /\ (3 * c + 1) % 2 = 0 /\ (3 * c + 2) % 2 = 1
        /\ (3 * c) \div 2 = bc /\ (3 * c + 1) \div 2 = bc + 1
        /\ (3 * c + 2) \div 2 = bc + 1
    BY <1>6
  <2>2. /\ HalfByte(disk, 3 * c) = low \div 16
        /\ HalfByte(disk, 3 * c + 1) = high % 16
        /\ HalfByte(disk, 3 * c + 2) = high \div 16
    BY <2>1 DEF HalfByte
  <2>3. Fat12Entry(c) = (low + 256 * high) \div 16
    BY <1>3, <1>6 DEF Fat12Entry
  <2> HIDE DEF low, high
  <2>4. (low \div 16) + 16 * (high % 16) + 256 * (high \div 16)
          = (low + 256 * high) \div 16
    BY <1>2
  <2> QED
    BY <1>4, <2>2, <2>3, <2>4
<1> QED
  BY <1>5, <1>6

(* A FAT16 table has the same number of entries in every sector.           *)
LEMMA PairInGroup ==
  ASSUME NEW n \in Nat \ {0}, NEW c \in Nat
  PROVE  /\ (2 * c) \div (2 * n) = c \div n
         /\ (2 * c) % (2 * n) = (c % n) * 2
         /\ (2 * c + 1) \div (2 * n) = c \div n
         /\ (2 * c + 1) % (2 * n) = (c % n) * 2 + 1
<1> DEFINE q == c \div n
           r == c % n
           m == q * n
           d == 2 * n
<1>1. q \in Nat /\ r \in 0 .. n - 1 /\ c = m + r
  BY DivideBy
<1>2. m \in Nat /\ d \in Nat \ {0} /\ q * d = 2 * m
  BY <1>1
<1> HIDE DEF q, r, m
<1>3. /\ 2 * c = 2 * m + r * 2 /\ 2 * c + 1 = 2 * m + (r * 2 + 1)
      /\ r * 2 \in 0 .. d - 1 /\ r * 2 + 1 \in 0 .. d - 1
  BY <1>1, <1>2
<1> DEFINE e == r * 2
           f == r * 2 + 1
           x == 2 * c
           y == 2 * c + 1
<1>4. /\ f = e + 1 /\ x = q * d + e /\ y = q * d + f
      /\ e \in 0 .. d - 1 /\ f \in 0 .. d - 1
  BY <1>2, <1>3
<1>5. d \in Nat \ {0}
  BY <1>2
<1> HIDE DEF d, e, f, x, y
<1>6. x \div d = q /\ x % d = e
  BY <1>1, <1>4, <1>5, DivUnique
<1>7. y \div d = q /\ y % d = f
  <2>1. q \in Int /\ f \in 0 .. d - 1 /\ y = q * d + f
    BY <1>1, <1>4
  <2>2. (q * d + f) \div d = q /\ (q * d + f) % d = f
    BY ONLY <1>5, <2>1, DivUnique
  <2> QED
    BY <2>1, <2>2
<1> QED
  BY <1>4, <1>6, <1>7 DEF d, e, q, r, x, y

LEMMA Fat16EntryIs ==
  ASSUME IsDisk(disk), Describes, NEW c \in Nat, fs.fs_type = "FAT16"
  PROVE  Fat16Entry(c) = Entry(disk, c)
<1> DEFINE n == SectorSize \div 2
           s == fs.fatbase + c \div n
           o == (c % n) * 2
           low == TableByte(disk, 2 * c)
           high == TableByte(disk, 2 * c + 1)
<1>1. n \in Nat \ {0} /\ SectorSize = 2 * n
  BY VolumeAssumption
<1>2. 2 * c \in Nat /\ 2 * c + 1 \in Nat
  OBVIOUS
<1>3. low \in 0 .. 255 /\ high \in 0 .. 255
  BY <1>2, TableByteType
<1>4. /\ (2 * c) \div SectorSize = c \div n
      /\ (2 * c) % SectorSize = o
      /\ (2 * c + 1) \div SectorSize = c \div n
      /\ (2 * c + 1) % SectorSize = o + 1
  <2> HIDE DEF n
  <2> QED
    BY <1>1, PairInGroup
<1>5. FatByte(s, o) = low
  BY <1>2, <1>4, FatByteIs
<1>6. FatByte(s, o + 1) = high
  BY <1>2, <1>4, FatByteIs
<1>7. Fat16Entry(c) = high * 256 + low
  <2>1. Fat16Entry(c) = LdWord(FatByte(s, o), FatByte(s, o + 1))
    BY DEF Fat16Entry
  <2> HIDE DEF low, high, s, o
  <2> QED
    BY <1>5, <1>6, <2>1 DEF LdWord
<1>8. Entry(disk, c) = low + 256 * high
  BY DEF Entry, Describes
<1> HIDE DEF low, high
<1>9. high * 256 + low = low + 256 * high
  BY <1>3
<1> QED
  BY <1>7, <1>8, <1>9

(* What get_fat returns is the entry, unless the transfer fails.           *)
LEMMA GetFatIs ==
  ASSUME IsDisk(disk), Describes, NEW c \in Nat, NEW next \in GetFat(c)
  PROVE  /\ next.link \in Nat /\ next.fails \in BOOLEAN
         /\ next.link > 1 => /\ IsCluster(disk, c) /\ ~next.fails
                             /\ next.link = Entry(disk, c)
         /\ ~next.fails => next.link = IF IsCluster(disk, c)
                                       THEN Entry(disk, c) ELSE 1
<1>1. fs.max_clust = Clusters(Bpb(disk)) + 2
  BY DEF Describes
<1>2. Clusters(Bpb(disk)) \in Nat
  BY VolumeFacts, BpbFacts DEF Describes
<1>3. c < 2 \/ c >= fs.max_clust <=> ~IsCluster(disk, c)
  BY <1>1, <1>2 DEF IsCluster
<1>4. (IF fs.fs_type = "FAT12" THEN Fat12Entry(c) ELSE Fat16Entry(c))
        = Entry(disk, c)
  BY Fat12EntryIs, Fat16EntryIs DEF Describes
<1>5. Entry(disk, c) \in Nat
  BY EntryType
<1>6. CASE ~IsCluster(disk, c)
  <2>1. next = [link |-> 1, fails |-> FALSE]
    BY <1>3, <1>6 DEF GetFat
  <2> QED
    BY <1>6, <2>1
<1>7. CASE IsCluster(disk, c)
  <2>1. \/ next = [link |-> Entry(disk, c), fails |-> FALSE]
        \/ next = [link |-> 1, fails |-> TRUE]
    BY <1>3, <1>4, <1>7 DEF GetFat
  <2>2. CASE next = [link |-> Entry(disk, c), fails |-> FALSE]
    BY <1>5, <1>7, <2>2
  <2>3. CASE next = [link |-> 1, fails |-> TRUE]
    BY <1>7, <2>3
  <2> QED
    BY <2>1, <2>2, <2>3
<1> QED
  BY <1>6, <1>7

LEMMA GetFatHas ==
  ASSUME IsDisk(disk), Describes, NEW c \in Nat
  PROVE  \E next \in GetFat(c) : TRUE
BY DEF GetFat

LEMMA Clust2SectIs ==
  ASSUME IsDisk(disk), Describes, NEW c \in Nat
  PROVE  /\ Clust2Sect(c) \in Nat
         /\ IsCluster(disk, c) =>
              Clust2Sect(c) = FirstSector(disk) + DataStart(Bpb(disk))
                                + (c - 2) * Bpb(disk).csize
         /\ Clust2Sect(c) # 0 <=> IsCluster(disk, c)
<1> DEFINE b == Bpb(disk)
<1>1. /\ fs.max_clust = Clusters(b) + 2 /\ fs.csize = b.csize
      /\ fs.database = FirstSector(disk) + DataStart(b)
  BY DEF Describes
<1>2. /\ Clusters(b) \in Nat /\ DataStart(b) \in Nat \ {0}
      /\ b.csize \in Nat \ {0} /\ FirstSector(disk) \in Nat
  BY VolumeFacts, BpbFacts DEF Describes
<1> HIDE DEF b
<1>3. c < 2 \/ c - 2 >= fs.max_clust - 2 <=> ~IsCluster(disk, c)
  BY <1>1, <1>2 DEF IsCluster, b
<1>4. CASE IsCluster(disk, c)
  <2>1. c - 2 \in Nat
    BY <1>4 DEF IsCluster
  <2> DEFINE start == (c - 2) * b.csize
  <2>2. start \in Nat
    BY <1>2, <2>1
  <2>3. Clust2Sect(c) = start + fs.database
    BY <1>1, <1>3, <1>4 DEF Clust2Sect
  <2>4. /\ start + fs.database = FirstSector(disk) + DataStart(b) + start
        /\ start + fs.database \in Nat \ {0}
    <3> HIDE DEF start
    <3> QED
      BY <1>1, <1>2, <2>2
  <2> QED
    BY <1>4, <2>3, <2>4 DEF b
<1>5. CASE ~IsCluster(disk, c)
  BY <1>3, <1>5 DEF Clust2Sect
<1> QED
  BY <1>4, <1>5

-----------------------------------------------------------------------------
(* Types.                                                                  *)

LEMMA TypedType ==
  ASSUME NEW i \in DOMAIN Paths
  PROVE  Typed[i] \in Seq(Char)
<1> DEFINE p == Paths[i]
           part == [n \in DOMAIN p.names |->
                      IF n = 1 THEN p.names[n] ELSE <<"/">> \o p.names[n]]
<1>1. p \in [lead : Seq(Char), names : Seq(Seq(Char))]
  <2>1. i \in 1 .. Len(Paths)
    BY CallerAssumption
  <2> QED
    BY <2>1, CallerAssumption, ElementOfSeq
<1>2. p.lead \in Seq(Char) /\ p.names \in Seq(Seq(Char))
  BY <1>1
<1> HIDE DEF p
<1>4. ASSUME NEW n \in DOMAIN p.names PROVE part[n] \in Seq(Char)
  <2>1. p.names[n] \in Seq(Char)
    BY <1>2, ElementOfSeq
  <2>2. <<"/">> \in Seq(Char)
    <3>1. "/" \in Char
      BY CharAssumption
    <3> QED
      BY <3>1
  <2>3. <<"/">> \o p.names[n] \in Seq(Char)
    BY <2>1, <2>2, ConcatProperties
  <2> QED
    BY <2>1, <2>3
<1>5. part \in Seq(Seq(Char))
  <2>1. DOMAIN p.names = 1 .. Len(p.names) /\ Len(p.names) \in Nat
    BY <1>2
  <2>2. part \in [1 .. Len(p.names) -> Seq(Char)]
    BY <1>4, <2>1
  <2> HIDE DEF part
  <2> QED
    BY <2>1, <2>2, SeqDef
<1> HIDE DEF part
<1>6. FlattenSeq(part) \in Seq(Char)
  BY <1>5, FlattenType
<1>7. p.lead \o FlattenSeq(part) \in Seq(Char)
  BY <1>2, <1>6, ConcatProperties
<1> QED
  BY <1>7 DEF Typed, p, part

(* Without blanks and a slash in front a path is a path.                   *)
LEMMA WithoutLeadType ==
  ASSUME NEW text \in Seq(Char)
  PROVE  WithoutLead(text) \in Seq(Char)
<1> DEFINE long == text \o <<"nul">>
           I == {i \in 1 .. Len(long) : long[i] # " "}
           blanks == Min(I) - 1
           rest == SubSeq(text, blanks + 1, Len(text))
<1>1. /\ Len(text) \in Nat /\ Len(long) = Len(text) + 1
      /\ long[Len(text) + 1] = "nul"
  OBVIOUS
<1>2. Len(text) + 1 \in I
  <2> DEFINE n == Len(text) + 1
  <2>1. "nul" # " "
    BY CharAssumption
  <2>2. n \in Nat /\ n \in 1 .. Len(long) /\ long[n] = "nul"
    BY <1>1
  <2> HIDE DEF long, n
  <2>3. n \in I
    BY <2>1, <2>2
  <2> QED
    BY <2>3 DEF n
<1>3. I \in SUBSET Nat /\ I # {}
  <2>1. I \in SUBSET (1 .. Len(long))
    OBVIOUS
  <2> HIDE DEF I
  <2> QED
    BY <1>1, <1>2, <2>1
<1>4. Min(I) \in I
  BY <1>3, MinIs
<1>5. blanks \in Nat
  <2> DEFINE k == Min(I)
  <2>1. k \in 1 .. Len(long)
    BY <1>4
  <2> HIDE DEF k
  <2>2. k - 1 \in Nat
    BY <1>1, <2>1
  <2> QED
    BY <2>2 DEF k
<1>6. SelectInSeq(long, LAMBDA char : char # " ") - 1 = blanks
  BY <1>3 DEF SelectInSeq
<1> HIDE DEF blanks, I, long
<1>7. \A n \in blanks + 1 .. Len(text) : text[n] \in Char
  BY <1>5, <1>1, ElementOfSeq
<1>8. rest \in Seq(Char)
  BY <1>1, <1>5, <1>7, SubSeqProperties
<1>9. WithoutLead(text) = IF rest # <<>> /\ Head(rest) = "/" THEN Tail(rest)
                                                            ELSE rest
  BY <1>6 DEF WithoutLead, long
<1> HIDE DEF rest
<1> QED
  BY <1>8, <1>9, HeadTailProperties

(* A name is made of the path's characters before the one where it ends.   *)
LEMMA CreateNameType ==
  ASSUME NEW text \in Seq(Char), NEW si \in DOMAIN (text \o <<"nul">>)
  PROVE  CreateName(text \o <<"nul">>, si) \in [1 .. NameLen -> Char]
<1> DEFINE long == text \o <<"nul">>
           S == Dots(long, si) \cup {si}
           dot == Min(S)
           from(n) == IF n <= BaseLen THEN n ELSE dot + n - BaseLen
           upTo(n) == IF n <= BaseLen THEN dot ELSE si
<1>1. /\ Len(text) \in Nat /\ si \in 1 .. Len(text) + 1
      /\ \A k \in 1 .. Len(text) : long[k] = text[k] /\ text[k] \in Char
  OBVIOUS
<1>2. dot \in 1 .. si
  <2>1. S \in SUBSET (1 .. si) /\ si \in S
    BY <1>1 DEF Dots
  <2> HIDE DEF S
  <2>2. S \in SUBSET Nat /\ S # {}
    BY <1>1, <2>1
  <2>3. Min(S) \in S
    BY <2>2, MinIs
  <2> QED
    BY <2>1, <2>3
<1> HIDE DEF dot
<1>3. ASSUME NEW n \in 1 .. NameLen
      PROVE  (IF from(n) < upTo(n) THEN ToUpper(long[from(n)]) ELSE " ") \in Char
  <2>1. from(n) \in Nat \ {0} /\ upTo(n) <= si /\ upTo(n) \in Nat
    BY <1>1, <1>2, VolumeAssumption
  <2>2. CASE from(n) < upTo(n)
    <3>1. from(n) \in 1 .. Len(text)
      BY <1>1, <2>1, <2>2
    <3>2. long[from(n)] \in Char
      BY <1>1, <3>1
    <3> QED
      BY <2>2, <3>2, CharAssumption DEF ToUpper
  <2>3. CASE ~(from(n) < upTo(n))
    BY <2>3, CharAssumption
  <2> QED
    BY <2>2, <2>3
<1>4. CreateName(long, si) = [n \in 1 .. NameLen |->
        IF from(n) < upTo(n) THEN ToUpper(long[from(n)]) ELSE " "]
  BY DEF CreateName, dot
<1> QED
  BY <1>3, <1>4

LEMMA FatFsTypes ==
  ASSUME fs \in FATFS
  PROVE  /\ fs.flag \in BOOLEAN /\ fs.csize \in Nat
         /\ fs.max_clust \in Nat /\ fs.org_clust \in Nat
         /\ fs.fsize \in Nat /\ fs.fptr \in Nat /\ fs.curr_clust \in Nat
         /\ fs.csect \in Nat /\ fs.dsect \in Nat
BY DEF FATFS

LEMMA DirTypes ==
  ASSUME dj \in DIR
  PROVE  /\ dj.sclust \in Nat /\ dj.index \in 0 .. IndexRange - 1
         /\ dj.clust \in Nat /\ dj.sect \in Nat
         /\ dj.fn \in [1 .. NameLen -> Char] /\ dj.last \in BOOLEAN
BY DEF DIR

LEMMA SeenType ==
  ASSUME IsDisk(disk), dj \in DIR
  PROVE  Seen \in Entries
<1>1. dj.index \in Nat
  BY DirTypes
<1>2. dj.index % DirSize \in 0 .. DirSize - 1
  BY <1>1, VolumeAssumption, DivideBy
<1> QED
  BY <1>2, EntryInType DEF Seen

(* The local variables when a call has returned.                           *)
LEMMA NoDirType == NoDir \in DIR
BY BlankType, VolumeAssumption DEF NoDir, DIR

LEMMA ReturnType ==
  ASSUME NEW res \in FResults, Return(res)
  PROVE  /\ dj' \in DIR /\ path' = <<>> /\ path' \in Seq(Char)
         /\ call' \in Calls \cup {Idle} /\ pc' = "idle" /\ pc' \in Places
         /\ bsect' \in Nat /\ btr' \in Nat /\ ofs' \in Nat
         /\ clst' \in Nat /\ ifptr' \in Nat
         /\ answer' \in FResults \cup {"none"}
BY NoDirType DEF Return, Places

-----------------------------------------------------------------------------
(* The invariant is kept.                                                  *)
FileInv == TypeOK /\ MountInv /\ ExtentInv

SameVolume ==
  /\ card' = card
  /\ fs'.fatbase = fs.fatbase /\ fs'.csize = fs.csize
  /\ fs'.n_rootdir = fs.n_rootdir /\ fs'.max_clust = fs.max_clust
  /\ fs'.dirbase = fs.dirbase /\ fs'.database = fs.database
  /\ fs'.fs_type = fs.fs_type

LEMMA DescribesKept ==
  ASSUME Describes, SameVolume
  PROVE  Describes'
<1>1. disk' = disk
  BY DEF SameVolume, disk
<1> QED
  BY <1>1 DEF SameVolume, Describes

LEMMA SameFs == card' = card /\ fs' = fs => SameVolume
BY DEF SameVolume

(* A call returns.                                                         *)
LEMMA ReturnKeeps ==
  ASSUME FileInv, NEW res \in FResults, Return(res), SameVolume,
         fs' \in FATFS, fatFs' \in BOOLEAN, fatFs' => fatFs,
         fatFs' /\ fs'.flag => fs'.fptr <= fs'.fsize,
         failed' \in BOOLEAN, got' \in Seq(Nat \X Nat),
         opened' \in 0 .. Len(Paths)
  PROVE  FileInv'
<1>1. TypeOK'
  BY ReturnType DEF FileInv, TypeOK, SameVolume
<1>2. pc' = "idle"
  BY DEF Return
<1>3. MountInv'
  BY <1>2, DescribesKept DEF FileInv, MountInv
<1>4. ExtentInv'
  BY <1>2 DEF ExtentInv, Usable
<1> QED
  BY <1>1, <1>3, <1>4 DEF FileInv

(* A call goes on without touching the volume or the file.                 *)
LEMMA GoOnKeeps ==
  ASSUME FileInv, UNCHANGED <<card, fatFs, opened, got>>, SameVolume,
         fs' \in FATFS, failed' \in BOOLEAN,
         NEW place \in {"segment", "find"}, GoTo(place), call.op = "open",
         fatFs, ~fs'.flag,
         dj' \in DIR, path' \in Seq(Char), UNCHANGED <<bsect, btr, seekVars>>
  PROVE  FileInv'
<1>1. TypeOK'
  BY DEF FileInv, TypeOK, GoTo, seekVars, Places
<1>2. MountInv'
  BY DescribesKept DEF FileInv, MountInv, GoTo
<1>3. ExtentInv'
  BY DEF ExtentInv, GoTo, Usable
<1> QED
  BY <1>1, <1>2, <1>3 DEF FileInv

LEMMA CallTypes ==
  ASSUME NEW c \in Calls
  PROVE  /\ c.op \in {"mount", "unmount", "open", "read", "seek"}
         /\ c.op = "open" => c.arg \in DOMAIN Paths
         /\ c.op \in {"read", "seek"} => c.arg \in Nat
         /\ c # Idle
<1>1. /\ c.op \in {"mount", "unmount", "open", "read", "seek"}
      /\ c.op = "open" => c.arg \in DOMAIN Paths
      /\ c.op = "read" => c.arg \in Counts
      /\ c.op = "seek" => c.arg \in Offsets
  BY DEF Calls
<1>2. c # Idle
  BY <1>1 DEF Idle
<1> QED
  BY <1>1, <1>2, CallerAssumption

LEMMA InitHolds == Init => FileInv
<1> SUFFICES ASSUME Init PROVE FileInv
  OBVIOUS
<1>1. fs \in FATFS
  BY DEF Init, FATFS
<1>2. Len(Paths) \in Nat
  BY CallerAssumption
<1>3. TypeOK
  <2>1. /\ dj \in DIR /\ path \in Seq(Char) /\ got \in Seq(Nat \X Nat)
    BY NoDirType DEF Init
  <2>2. /\ call \in Calls \cup {Idle} /\ pc \in Places
        /\ answer \in FResults \cup {"none"} /\ opened \in 0 .. Len(Paths)
    BY <1>2 DEF Init, Places
  <2> QED
    BY <1>1, <2>1, <2>2 DEF Init, TypeOK
<1>4. MountInv /\ ExtentInv
  BY DEF Init, MountInv, ExtentInv, Usable
<1> QED
  BY <1>3, <1>4 DEF FileInv

LEMMA CallKeeps ==
  ASSUME FileInv, NEW c \in Calls, Call(c)
  PROVE  FileInv'
<1>1. TypeOK'
  <2>1. /\ call' \in Calls \cup {Idle} /\ pc' \in Places
        /\ got' \in Seq(Nat \X Nat) /\ answer' = "none" /\ failed' = FALSE
    BY CallTypes DEF Call, Places
  <2> QED
    BY <2>1 DEF FileInv, TypeOK, Call, handle, locals, findVars, seekVars
<1>2. SameVolume
  BY DEF Call, handle, SameVolume
<1>3. MountInv'
  BY <1>2, CallTypes, DescribesKept DEF FileInv, MountInv, Call, handle
<1>4. ExtentInv'
  BY CallTypes DEF FileInv, ExtentInv, Call, handle, Usable
<1> QED
  BY <1>1, <1>3, <1>4 DEF FileInv

-----------------------------------------------------------------------------
(* Mounting.                                                               *)
LEMMA UnmountKeeps ==
  ASSUME FileInv, Unmount
  PROVE  FileInv'
<1>1. TypeOK /\ SameVolume
  BY DEF FileInv, Unmount, SameVolume
<1> QED
  BY <1>1, ReturnKeeps DEF Unmount, TypeOK, FResults

LEMMA DriveNotReadyKeeps ==
  ASSUME FileInv, DriveNotReady
  PROVE  FileInv'
<1>1. TypeOK /\ SameVolume
  BY DEF FileInv, DriveNotReady, SameVolume
<1> QED
  BY <1>1, ReturnKeeps DEF DriveNotReady, TypeOK, FResults

LEMMA CheckFirstSectorKeeps ==
  ASSUME FileInv, CheckFirstSector
  PROVE  FileInv'
<1>1. TypeOK /\ SameVolume /\ fatFs' = FALSE
  BY DEF FileInv, CheckFirstSector, SameVolume
<1>2. IsDisk(disk) /\ disk' = disk
  BY <1>1, CardIsDisk DEF TypeOK, SameVolume, disk
<1>3. failed' \in BOOLEAN
  BY <1>1 DEF CheckFirstSector, CheckFs, TypeOK
<1>4. CASE CheckFs(0, 0) /\ VolumeAt(0)
  <2>1. IsBoot(disk, 0) /\ disk[0].fat
    BY <1>4 DEF CheckFs
  <2>2. FirstSector(disk) = 0
    BY <2>1 DEF FirstSector
  <2>3. TypeOK'
    BY <1>1, <1>3, <1>4 DEF CheckFirstSector, VolumeAt, GoTo, TypeOK, findVars,
                            seekVars, Places
  <2>4. MountInv'
    BY <1>1, <1>2, <1>4, <2>1, <2>2 DEF VolumeAt, GoTo, MountInv
  <2>5. ExtentInv'
    BY <1>1, <1>4 DEF VolumeAt, GoTo, ExtentInv, Usable
  <2> QED
    BY <2>3, <2>4, <2>5 DEF FileInv
<1>5. CASE CheckFs(0, 1) /\ GoTo("table") /\ UNCHANGED locals
  <2>1. IsBoot(disk, 0)
    BY <1>5 DEF CheckFs
  <2>2. TypeOK'
    BY <1>1, <1>3, <1>5 DEF CheckFirstSector, GoTo, TypeOK, locals, findVars,
                            seekVars, Places
  <2>3. MountInv'
    BY <1>1, <1>2, <1>5, <2>1 DEF GoTo, MountInv
  <2>4. ExtentInv'
    BY <1>1, <1>5 DEF GoTo, ExtentInv, Usable
  <2> QED
    BY <2>2, <2>3, <2>4 DEF FileInv
<1>6. CASE Return("NO_FILESYSTEM") \/ Return("DISK_ERR")
  BY <1>1, <1>3, <1>6, ReturnKeeps DEF CheckFirstSector, TypeOK, FResults
<1> QED
  BY <1>4, <1>5, <1>6 DEF CheckFirstSector

LEMMA ReadTableKeeps ==
  ASSUME FileInv, NoMisleadingCard, ReadTable
  PROVE  FileInv'
<1> DEFINE s == disk[0].part
<1>1. /\ TypeOK /\ SameVolume /\ fatFs' = FALSE /\ fs' = fs
      /\ IsBoot(disk, 0)
  BY DEF FileInv, MountInv, ReadTable, SameVolume, handle
<1>2. IsDisk(disk) /\ disk' = disk
  BY <1>1, CardIsDisk DEF TypeOK, SameVolume, disk
<1>3. s \in Nat
  BY <1>1, <1>2 DEF IsDisk, IsSector, IsBoot
<1>4. failed' \in BOOLEAN
  BY <1>1 DEF ReadTable, CheckFs, TypeOK
<1>5. CASE s # 0 /\ CheckFs(s, 0) /\ VolumeAt(s)
  <2>1. IsBoot(disk, s) /\ disk[s].fat
    BY <1>5 DEF CheckFs
  <2>2. FirstSector(disk) = s
    <3>1. ~Misleading(disk)
      BY <1>1, CardMisleadsNot DEF TypeOK
    <3> QED
      BY <1>1, <1>5, <2>1, <3>1 DEF FirstSector, Misleading
  <2>3. TypeOK'
    BY <1>1, <1>3, <1>4, <1>5 DEF ReadTable, VolumeAt, GoTo, TypeOK, findVars,
                                  seekVars, Places, handle
  <2>4. MountInv'
    BY <1>1, <1>2, <1>5, <2>1, <2>2 DEF VolumeAt, GoTo, MountInv
  <2>5. ExtentInv'
    BY <1>1, <1>5 DEF VolumeAt, GoTo, ExtentInv, Usable
  <2> QED
    BY <2>3, <2>4, <2>5 DEF FileInv
<1>6. CASE Return("NO_FILESYSTEM") \/ Return("DISK_ERR")
  BY <1>1, <1>4, <1>6, ReturnKeeps DEF ReadTable, TypeOK, FResults, handle
<1> QED
  BY <1>5, <1>6 DEF ReadTable

LEMMA ReadBpbKeeps ==
  ASSUME FileInv, ReadBpb
  PROVE  FileInv'
<1> DEFINE b == disk[bsect].bpb
           g == Geometry(b)
<1>1. /\ TypeOK /\ card' = card /\ fatFs = FALSE
      /\ bsect = FirstSector(disk) /\ IsBoot(disk, bsect) /\ disk[bsect].fat
      /\ UNCHANGED <<opened, got>> /\ fs \in FATFS
  BY DEF FileInv, MountInv, ReadBpb, TypeOK
<1>2. IsDisk(disk) /\ disk' = disk
  BY <1>1, CardIsDisk DEF TypeOK, disk
<1>3. Formatted(b) /\ b = Bpb(disk) /\ bsect \in Nat
  BY <1>1, <1>2, BootIsFormatted DEF Bpb, TypeOK
<1>4. /\ b.rsvd \in Nat \ {0} /\ b.csize \in Nat \ {0}
      /\ b.rootent \in Nat \ {0} /\ FatArea(b) \in Nat
      /\ RootStart(b) = b.rsvd + FatArea(b)
      /\ DataStart(b) = b.rsvd + FatArea(b) + b.rootent \div DirSize
      /\ Clusters(b) \in Nat /\ LastCluster(b) = Clusters(b) + 2
  BY <1>3, BpbFacts
<1>5. b.rootent \div DirSize \in Nat
  BY <1>4, VolumeAssumption, DivideBy
<1> HIDE DEF b
<1>6. g \in FATFS /\ g.fatbase = bsect + b.rsvd
  <2>1. /\ bsect + b.rsvd \in Nat /\ b.csize \in Nat /\ b.rootent \in Nat
        /\ LastCluster(b) \in Nat
    BY <1>3, <1>4
  <2> DEFINE base == bsect + b.rsvd
             last == LastCluster(b)
  <2>2. g = [fs EXCEPT !.fatbase = base, !.csize = b.csize,
                       !.n_rootdir = b.rootent, !.max_clust = last]
    BY DEF Geometry
  <2> HIDE DEF base, last, g
  <2> QED
    BY <1>1, <2>1, <2>2 DEF FATFS, base, last
<1>7. CASE failed' = TRUE /\ Return("DISK_ERR") /\ UNCHANGED <<fs, fatFs>>
  <2>1. SameVolume
    BY <1>1, <1>7 DEF SameVolume
  <2> QED
    BY <1>1, <1>7, <2>1, ReturnKeeps DEF TypeOK, FResults
<1>8. CASE fs' = g /\ Return("NO_FILESYSTEM") /\ UNCHANGED <<failed, fatFs>>
  <2>1. TypeOK'
    BY <1>1, <1>6, <1>8, ReturnType DEF TypeOK, FResults
  <2>2. MountInv' /\ ExtentInv'
    BY <1>1, <1>8 DEF MountInv, ExtentInv, Usable, Return
  <2> QED
    BY <2>1, <2>2 DEF FileInv
<1>9. CASE /\ LastCluster(b) < Fat16Limit
           /\ fs' = [g EXCEPT
                !.fs_type = IF LastCluster(b) >= Fat12Limit THEN "FAT16"
                                                            ELSE "FAT12",
                !.dirbase = g.fatbase + FatArea(b),
                !.database = g.fatbase + FatArea(b) + b.rootent \div DirSize,
                !.flag = FALSE]
           /\ fatFs' = TRUE /\ Return("OK") /\ UNCHANGED failed
  <2>1. fs' \in FATFS
    <3> DEFINE first == g.fatbase + FatArea(b)
               data == g.fatbase + FatArea(b) + b.rootent \div DirSize
    <3>1. first \in Nat /\ data \in Nat
      BY <1>3, <1>4, <1>5, <1>6
    <3>2. fs' = [g EXCEPT
                  !.fs_type = IF LastCluster(b) >= Fat12Limit THEN "FAT16"
                                                              ELSE "FAT12",
                  !.dirbase = first, !.database = data, !.flag = FALSE]
      BY <1>9
    <3> HIDE DEF first, data, g
    <3> QED
      BY <1>6, <3>1, <3>2 DEF FATFS
  <2>2. TypeOK'
    BY <1>1, <1>9, <2>1, ReturnType DEF TypeOK, FResults
  <2>3. IsVolume(disk)
    BY <1>1, <1>3, <1>4, <1>9 DEF IsVolume
  <2>4. /\ fs'.fatbase = bsect + b.rsvd /\ fs'.csize = b.csize
        /\ fs'.n_rootdir = b.rootent /\ fs'.max_clust = Clusters(b) + 2
        /\ fs'.flag = FALSE
    BY <1>1, <1>4, <1>9 DEF FATFS, Geometry
  <2>5. /\ fs'.dirbase = bsect + b.rsvd + FatArea(b)
        /\ fs'.database = bsect + b.rsvd + FatArea(b) + b.rootent \div DirSize
        /\ fs'.fs_type = IF Clusters(b) + 2 >= Fat12Limit THEN "FAT16"
                                                          ELSE "FAT12"
    BY <1>4, <1>6, <1>9 DEF FATFS
  <2>6. /\ fs'.dirbase = bsect + RootStart(b)
        /\ fs'.database = bsect + DataStart(b)
    BY <1>3, <1>4, <1>5, <2>5
  <2>7. fs'.fs_type = IF Clusters(b) + 2 < Fat12Limit THEN "FAT12" ELSE "FAT16"
    BY <1>4, <2>5, VolumeAssumption
  <2>8. Describes'
    BY <1>1, <1>2, <1>3, <2>3, <2>4, <2>6, <2>7 DEF Describes
  <2>9. MountInv' /\ ExtentInv'
    BY <1>9, <2>4, <2>8 DEF MountInv, ExtentInv, Usable, Return
  <2> QED
    BY <2>2, <2>9 DEF FileInv
<1> QED
  BY <1>7, <1>8, <1>9 DEF ReadBpb, b

-----------------------------------------------------------------------------
(* Opening.                                                                *)
LEMMA BeginOpenUnmountedKeeps ==
  ASSUME FileInv, BeginOpenUnmounted
  PROVE  FileInv'
<1>1. TypeOK /\ SameVolume
  BY DEF FileInv, BeginOpenUnmounted, SameVolume, handle
<1> QED
  BY <1>1, ReturnKeeps DEF BeginOpenUnmounted, handle, TypeOK, FResults, FileInv,
                           ExtentInv, Usable

LEMMA BeginOpenKeeps ==
  ASSUME FileInv, BeginOpen
  PROVE  FileInv'
<1> DEFINE text == WithoutLead(Typed[call.arg])
<1>1. TypeOK /\ fs' = [fs EXCEPT !.flag = FALSE] /\ card' = card
  BY DEF FileInv, BeginOpen
<1>2. SameVolume /\ fs' \in FATFS /\ fs'.flag = FALSE
  BY <1>1 DEF SameVolume, FATFS, TypeOK
<1>3. text \in Seq(Char)
  <2>1. call.op = "open" /\ call \in Calls
    BY <1>1 DEF FileInv, ExtentInv, BeginOpen, TypeOK, Idle
  <2>2. call.arg \in DOMAIN Paths
    BY <2>1, CallTypes
  <2> QED
    BY <2>2, TypedType, WithoutLeadType
<1> HIDE DEF text
<1>4. CASE Return("NO_FILE")
  BY <1>1, <1>2, <1>4, ReturnKeeps DEF BeginOpen, TypeOK, FResults
<1>5. CASE path' = text /\ GoTo("segment") /\ UNCHANGED <<dj, bsect, btr, seekVars>>
  BY <1>1, <1>2, <1>3, <1>5, GoOnKeeps DEF BeginOpen, TypeOK, FileInv, ExtentInv
<1> QED
  BY <1>4, <1>5 DEF BeginOpen, text

LEMMA RewoundType ==
  ASSUME IsDisk(disk), Describes, fs \in FATFS, NEW d \in DIR
  PROVE  Rewound(d) \in DIR
<1>1. d.sclust \in Nat /\ fs.dirbase \in Nat
  BY DEF DIR, FATFS
<1>2. (IF d.sclust # 0 THEN Clust2Sect(d.sclust) ELSE fs.dirbase) \in Nat
  BY <1>1, Clust2SectIs
<1>3. 0 \in 0 .. IndexRange - 1
  BY VolumeAssumption
<1> QED
  BY <1>1, <1>2, <1>3 DEF Rewound, DIR

LEMMA DirNextType ==
  ASSUME IsDisk(disk), Describes, dj \in DIR, NEW next \in DirNext
  PROVE  next.dj \in DIR /\ next.fails \in BOOLEAN
<1>1. NextIndex \in 0 .. IndexRange - 1
  <2>1. dj.index + 1 \in Nat
    BY DirTypes
  <2> QED
    BY <2>1, VolumeAssumption, DivideBy DEF NextIndex
<1>2. /\ NextSector \in DIR
      /\ [dj EXCEPT !.index = NextIndex] \in DIR
      /\ [NextSector EXCEPT !.index = NextIndex] \in DIR
  <2>1. dj.sect + 1 \in Nat
    BY DirTypes
  <2>2. NextSector \in DIR
    BY <2>1 DEF NextSector, DIR
  <2> QED
    BY <1>1, <2>2 DEF DIR
<1>3. CASE \E r : \E d \in DIR : next = Moved(r, d)
  BY <1>3 DEF Moved
<1>4. CASE \E entry \in GetFat(dj.clust) : next = InNextCluster(entry)
  <2>1. PICK entry \in GetFat(dj.clust) : next = InNextCluster(entry)
    BY <1>4
  <2>2. entry.link \in Nat /\ entry.fails \in BOOLEAN
    BY DirTypes, GetFatIs
  <2>3. Clust2Sect(entry.link) \in Nat
    BY <2>2, Clust2SectIs
  <2>4. [dj EXCEPT !.index = NextIndex, !.clust = entry.link,
                   !.sect = Clust2Sect(entry.link)] \in DIR
    BY <1>1, <2>2, <2>3 DEF DIR
  <2> QED
    BY <1>2, <2>1, <2>2, <2>4 DEF InNextCluster
<1>5. \/ \E r : \E d \in DIR : next = Moved(r, d)
      \/ \E entry \in GetFat(dj.clust) : next = InNextCluster(entry)
  BY <1>2 DEF DirNext
<1> QED
  BY <1>3, <1>4, <1>5

(* What holds while a name is looked for.                                  *)
LEMMA SearchFacts ==
  ASSUME FileInv, pc \in {"segment", "find"}
  PROVE  /\ TypeOK /\ IsDisk(disk) /\ Describes /\ fatFs = TRUE /\ ~fs.flag
         /\ call.op = "open"
         /\ fs \in FATFS /\ dj \in DIR /\ path \in Seq(Char)
BY CardIsDisk DEF FileInv, TypeOK, MountInv, ExtentInv

(* A call that looks for a name returns without having found it.           *)
LEMMA SearchEnds ==
  ASSUME FileInv, pc \in {"segment", "find"}, NEW res \in FResults,
         Return(res), UNCHANGED <<card, handle, got>>, failed' \in BOOLEAN
  PROVE  FileInv'
<1>1. TypeOK /\ SameVolume /\ ~fs.flag
  BY SearchFacts DEF SameVolume, handle
<1> QED
  BY <1>1, ReturnKeeps DEF handle, TypeOK

LEMMA FollowSegmentKeeps ==
  ASSUME FileInv, FollowSegment
  PROVE  FileInv'
<1> DEFINE text == path \o <<"nul">>
<1>1. /\ TypeOK /\ IsDisk(disk) /\ Describes /\ fatFs = TRUE /\ ~fs.flag
      /\ call.op = "open"
      /\ fs \in FATFS /\ dj \in DIR /\ path \in Seq(Char) /\ pc = "segment"
  BY SearchFacts DEF FollowSegment
<1>2. CASE Return("DISK_ERR")
  BY <1>1, <1>2, SearchEnds DEF FollowSegment, FResults, TypeOK
<1>3. CASE /\ GoTo("find") /\ UNCHANGED <<bsect, btr, seekVars>>
           /\ \E si \in DOMAIN text :
                /\ dj' = Rewound([dj EXCEPT !.fn = CreateName(text, si),
                                           !.last = IsEnd(text[si])])
                /\ path' = SubSeq(path, si + 1, Len(path))
  <2>1. PICK si \in DOMAIN text :
          /\ dj' = Rewound([dj EXCEPT !.fn = CreateName(text, si),
                                     !.last = IsEnd(text[si])])
          /\ path' = SubSeq(path, si + 1, Len(path))
    BY <1>3
  <2>2. CreateName(text, si) \in [1 .. NameLen -> Char]
    BY <1>1, CreateNameType
  <2>3. [dj EXCEPT !.fn = CreateName(text, si), !.last = IsEnd(text[si])] \in DIR
    <3>1. IsEnd(text[si]) \in BOOLEAN
      BY DEF IsEnd
    <3> DEFINE name == CreateName(text, si)
               last == IsEnd(text[si])
    <3> HIDE DEF name, last
    <3>2. [dj EXCEPT !.fn = name, !.last = last] \in DIR
      BY <1>1, <2>2, <3>1 DEF DIR, name, last
    <3> QED
      BY <3>2 DEF name, last
  <2>4. dj' \in DIR
    BY <1>1, <2>1, <2>3, RewoundType
  <2>5. si \in Nat /\ Len(path) \in Nat
    BY <1>1
  <2>6. path' \in Seq(Char)
    BY <1>1, <2>1, <2>5, SubSeqProperties, ElementOfSeq
  <2>7. SameVolume /\ UNCHANGED <<card, fatFs, opened, got>> /\ fs' = fs
    BY DEF FollowSegment, SameVolume, handle
  <2> QED
    BY <1>1, <1>3, <2>4, <2>6, <2>7, GoOnKeeps DEF FollowSegment, TypeOK
<1> QED
  BY <1>2, <1>3 DEF FollowSegment

LEMMA EntryUnreadableKeeps ==
  ASSUME FileInv, EntryUnreadable
  PROVE  FileInv'
BY SearchEnds DEF EntryUnreadable, FResults

LEMMA EndOfTableKeeps ==
  ASSUME FileInv, EndOfTable
  PROVE  FileInv'
BY SearchFacts, SearchEnds DEF EndOfTable, FResults, NotFound, TypeOK

LEMMA NextEntryKeeps ==
  ASSUME FileInv, NextEntry
  PROVE  FileInv'
<1>1. /\ TypeOK /\ IsDisk(disk) /\ Describes /\ fatFs = TRUE /\ ~fs.flag
      /\ call.op = "open"
      /\ fs \in FATFS /\ dj \in DIR /\ path \in Seq(Char) /\ pc = "find"
  BY SearchFacts DEF NextEntry
<1>2. PICK next \in DirNext :
        /\ failed' = (failed \/ next.fails)
        /\ \/ /\ next.res = "OK"
              /\ dj' = next.dj
              /\ Stay
              /\ UNCHANGED <<path, bsect, btr, seekVars>>
           \/ next.res = "NO_FILE" /\ Return(NotFound)
           \/ next.res = "DISK_ERR" /\ Return("DISK_ERR")
  BY DEF NextEntry
<1>3. next.dj \in DIR /\ next.fails \in BOOLEAN
  BY <1>1, DirNextType
<1>4. failed' \in BOOLEAN
  BY <1>1, <1>2, <1>3 DEF TypeOK
<1>5. CASE /\ dj' = next.dj /\ Stay
           /\ UNCHANGED <<path, bsect, btr, seekVars>>
  <2>1. SameVolume /\ UNCHANGED <<card, fatFs, opened, got>> /\ fs' = fs
    BY DEF NextEntry, SameVolume, handle
  <2> QED
    BY <1>1, <1>3, <1>4, <1>5, <2>1, GoOnKeeps DEF Stay
<1>6. CASE Return(NotFound) \/ Return("DISK_ERR")
  BY <1>1, <1>4, <1>6, SearchEnds DEF NextEntry, NotFound, FResults
<1> QED
  BY <1>2, <1>5, <1>6

LEMMA FollowDirectoryKeeps ==
  ASSUME FileInv, FollowDirectory
  PROVE  FileInv'
<1>1. /\ TypeOK /\ IsDisk(disk) /\ Describes /\ fatFs = TRUE /\ ~fs.flag
      /\ call.op = "open"
      /\ fs \in FATFS /\ dj \in DIR /\ path \in Seq(Char) /\ pc = "find"
  BY SearchFacts DEF FollowDirectory
<1>2. CASE /\ dj' = [dj EXCEPT !.sclust = Seen.clust]
           /\ GoTo("segment") /\ UNCHANGED <<path, bsect, btr, seekVars>>
  <2>1. Seen.clust \in Nat
    BY <1>1, SeenType DEF Entries
  <2>2. dj' \in DIR
    BY <1>1, <1>2, <2>1 DEF DIR
  <2>3. SameVolume /\ UNCHANGED <<card, fatFs, opened, got>> /\ fs' = fs
    BY DEF FollowDirectory, SameVolume, handle
  <2> QED
    BY <1>1, <1>2, <2>2, <2>3, GoOnKeeps DEF FollowDirectory, TypeOK
<1>3. CASE Return("NO_PATH")
  BY <1>1, <1>3, SearchEnds DEF FollowDirectory, FResults, TypeOK
<1> QED
  BY <1>2, <1>3 DEF FollowDirectory

LEMMA OpenFoundKeeps ==
  ASSUME FileInv, OpenFound
  PROVE  FileInv'
<1>1. /\ TypeOK /\ IsDisk(disk) /\ Describes /\ fatFs = TRUE /\ ~fs.flag
      /\ call.op = "open"
      /\ fs \in FATFS /\ dj \in DIR /\ path \in Seq(Char) /\ pc = "find"
  BY SearchFacts DEF OpenFound
<1>2. CASE Return("NO_FILE") /\ UNCHANGED handle
  BY <1>1, <1>2, SearchEnds DEF OpenFound, FResults, TypeOK
<1>3. CASE /\ fs' = [fs EXCEPT !.org_clust = Seen.clust, !.fsize = Seen.size,
                               !.fptr = 0, !.flag = TRUE]
           /\ opened' = call.arg /\ Return("OK") /\ UNCHANGED fatFs
  <2>1. Seen.clust \in Nat /\ Seen.size \in Nat
    BY <1>1, SeenType DEF Entries
  <2>2. fs' \in FATFS /\ fs'.fptr = 0 /\ fs'.fsize = Seen.size
    BY <1>1, <1>3, <2>1 DEF FATFS
  <2>3. SameVolume
    BY <1>1, <1>3 DEF OpenFound, SameVolume, FATFS
  <2>4. opened' \in 0 .. Len(Paths)
    <3>1. call.op = "open" /\ call \in Calls
      BY <1>1 DEF FileInv, ExtentInv, TypeOK, Idle
    <3>2. call.arg \in DOMAIN Paths
      BY <3>1, CallTypes
    <3> QED
      BY <1>3, <3>2, CallerAssumption
  <2> QED
    BY <1>1, <1>3, <2>1, <2>2, <2>3, <2>4, ReturnKeeps
       DEF OpenFound, FResults, TypeOK
<1> QED
  BY <1>2, <1>3 DEF OpenFound

-----------------------------------------------------------------------------
(* Reading.                                                                *)
LEMMA UnusableKeeps ==
  ASSUME FileInv, BeginReadUnusable \/ BeginSeekUnusable
  PROVE  FileInv'
<1>1. TypeOK /\ SameVolume
  BY DEF FileInv, BeginReadUnusable, BeginSeekUnusable, SameVolume, handle
<1>2. NotUsable \in FResults
  BY DEF NotUsable, FResults
<1> QED
  BY <1>1, <1>2, ReturnKeeps, SMTT(30)
     DEF BeginReadUnusable, BeginSeekUnusable, Usable, handle, TypeOK

LEMMA BeginReadKeeps ==
  ASSUME FileInv, BeginRead
  PROVE  FileInv'
<1>1. /\ TypeOK /\ SameVolume /\ fs' = fs /\ fatFs' = fatFs /\ Usable
      /\ card' = card /\ call' = call
  BY DEF FileInv, BeginRead, SameVolume, handle, GoTo
<1>2. fs.fptr \in Nat /\ fs.fsize \in Nat /\ fs.fptr <= fs.fsize
  BY <1>1, FatFsTypes DEF FileInv, ExtentInv, TypeOK
<1>3. call.op = "read" /\ call.arg \in Nat
  <2>1. call.op = "read" /\ call \in Calls
    BY <1>1 DEF FileInv, ExtentInv, BeginRead, TypeOK, Idle
  <2> QED
    BY <2>1, CallTypes
<1>4. btr' \in Nat /\ fs.fptr + btr' <= fs.fsize
  BY <1>2, <1>3 DEF BeginRead
<1>5. TypeOK'
  BY <1>1, <1>4 DEF BeginRead, TypeOK, GoTo, handle, findVars, seekVars, Places
<1>6. MountInv'
  BY <1>1, DescribesKept DEF FileInv, MountInv, BeginRead, GoTo
<1>7. ExtentInv'
  BY <1>1, <1>2, <1>3, <1>4 DEF ExtentInv, BeginRead, GoTo, Usable
<1> QED
  BY <1>5, <1>6, <1>7 DEF FileInv

LEMMA ReadDoneKeeps ==
  ASSUME FileInv, ReadDone
  PROVE  FileInv'
<1>1. TypeOK /\ SameVolume
  BY DEF FileInv, ReadDone, SameVolume, handle
<1> QED
  BY <1>1, ReturnKeeps DEF ReadDone, handle, TypeOK, FResults, FileInv,
                           ExtentInv, Usable

(* What holds while a file is read, and while its chain is searched.       *)
LEMMA FileFacts ==
  ASSUME FileInv, pc \in {"chunk", "follow"}
  PROVE  /\ TypeOK /\ IsDisk(disk) /\ Describes /\ fatFs = TRUE /\ fs.flag
         /\ Usable /\ fs \in FATFS
         /\ pc = "chunk" => fs.fptr + btr <= fs.fsize /\ call.op = "read"
         /\ pc = "follow" => /\ ofs > 0 /\ fs.fptr + ofs <= fs.fsize
                             /\ call.op = "seek"
BY CardIsDisk DEF FileInv, TypeOK, MountInv, ExtentInv, Usable

LEMMA PortionIs ==
  ASSUME fs.fptr \in Nat, btr \in Nat \ {0}
  PROVE  /\ Portion \in 1 .. btr
         /\ Portion <= SectorSize - (fs.fptr % SectorSize)
<1>1. fs.fptr % SectorSize \in 0 .. SectorSize - 1
  BY VolumeAssumption, DivideBy
<1> QED
  BY <1>1, VolumeAssumption DEF Portion

LEMMA NextClusterType ==
  ASSUME IsDisk(disk), Describes, fs \in FATFS, NEW next \in NextCluster
  PROVE  next.link \in Nat /\ next.fails \in BOOLEAN
<1>1. CASE next \in GetFat(fs.curr_clust)
  BY <1>1, FatFsTypes, GetFatIs
<1>2. CASE next = [link |-> fs.curr_clust, fails |-> FALSE]
  BY <1>2, FatFsTypes
<1>3. CASE next = [link |-> fs.org_clust, fails |-> FALSE]
  BY <1>3, FatFsTypes
<1> QED
  BY <1>1, <1>2, <1>3 DEF NextCluster

(* The FATFS object with the cluster and the sector of the next byte.      *)
LEMMA InSectorType ==
  ASSUME IsDisk(disk), Describes, fs \in FATFS, NEW link \in Nat
  PROVE  LET f == InCluster(fs, link)
             g == InSector(f)
         IN  /\ f \in FATFS /\ g \in FATFS
             /\ g.fptr = fs.fptr /\ g.fsize = fs.fsize /\ g.flag = fs.flag
             /\ g.org_clust = fs.org_clust
             /\ g.curr_clust = IF AtCluster THEN link ELSE fs.curr_clust
             /\ f.csect = IF AtCluster THEN 0 ELSE fs.csect
             /\ g.csect = IF AtSector THEN f.csect + 1 ELSE f.csect
             /\ g.dsect = IF AtSector THEN Clust2Sect(g.curr_clust) + f.csect
                                      ELSE fs.dsect
             /\ \A h \in {f, g} :
                  /\ h.fatbase = fs.fatbase /\ h.csize = fs.csize
                  /\ h.n_rootdir = fs.n_rootdir /\ h.max_clust = fs.max_clust
                  /\ h.dirbase = fs.dirbase /\ h.database = fs.database
                  /\ h.fs_type = fs.fs_type
<1> DEFINE f == InCluster(fs, link)
           g == InSector(f)
<1>1. f \in FATFS
  BY DEF InCluster, FATFS
<1>2. /\ f.fptr = fs.fptr /\ f.fsize = fs.fsize /\ f.flag = fs.flag
      /\ f.org_clust = fs.org_clust /\ f.dsect = fs.dsect
      /\ f.curr_clust = IF AtCluster THEN link ELSE fs.curr_clust
      /\ f.csect = IF AtCluster THEN 0 ELSE fs.csect
      /\ f.fatbase = fs.fatbase /\ f.csize = fs.csize
      /\ f.n_rootdir = fs.n_rootdir /\ f.max_clust = fs.max_clust
      /\ f.dirbase = fs.dirbase /\ f.database = fs.database
      /\ f.fs_type = fs.fs_type
  BY DEF InCluster, FATFS
<1> HIDE DEF f
<1>3. f.curr_clust \in Nat /\ f.csect \in Nat
  BY <1>1 DEF FATFS
<1>4. Clust2Sect(f.curr_clust) \in Nat
  BY <1>3, Clust2SectIs
<1> DEFINE sector == Clust2Sect(f.curr_clust) + f.csect
<1>5. sector \in Nat /\ f.csect + 1 \in Nat
  BY <1>3, <1>4
<1>6. g = IF AtSector THEN [f EXCEPT !.dsect = sector, !.csect = f.csect + 1]
                      ELSE f
  BY DEF InSector
<1> HIDE DEF g, sector
<1>7. g \in FATFS
  BY <1>1, <1>5, <1>6 DEF FATFS
<1>8. /\ g.fptr = f.fptr /\ g.fsize = f.fsize /\ g.flag = f.flag
      /\ g.org_clust = f.org_clust /\ g.curr_clust = f.curr_clust
      /\ g.csect = IF AtSector THEN f.csect + 1 ELSE f.csect
      /\ g.dsect = IF AtSector THEN sector ELSE f.dsect
      /\ g.fatbase = f.fatbase /\ g.csize = f.csize
      /\ g.n_rootdir = f.n_rootdir /\ g.max_clust = f.max_clust
      /\ g.dirbase = f.dirbase /\ g.database = f.database
      /\ g.fs_type = f.fs_type
  BY <1>1, <1>6 DEF FATFS
<1> QED
  BY <1>1, <1>2, <1>7, <1>8 DEF f, g, sector

(* The file is closed when its chain is broken or a transfer fails.        *)
LEMMA ClosedKeeps ==
  ASSUME FileInv, NEW f \in FATFS, fs' = Closed(f), NEW res \in FResults,
         Return(res), UNCHANGED <<card, fatFs, opened, got>>,
         failed' \in BOOLEAN,
         f.fatbase = fs.fatbase, f.csize = fs.csize,
         f.n_rootdir = fs.n_rootdir, f.max_clust = fs.max_clust,
         f.dirbase = fs.dirbase, f.database = fs.database,
         f.fs_type = fs.fs_type
  PROVE  FileInv' /\ fs'.flag = FALSE
<1>1. fs' \in FATFS /\ fs'.flag = FALSE
  BY DEF Closed, FATFS
<1>2. SameVolume
  BY DEF Closed, FATFS, SameVolume
<1>3. TypeOK
  BY DEF FileInv
<1> QED
  BY <1>1, <1>2, <1>3, ReturnKeeps DEF TypeOK

LEMMA ReadChunkKeeps ==
  ASSUME FileInv, ReadChunk
  PROVE  FileInv'
<1>1. /\ TypeOK /\ IsDisk(disk) /\ Describes /\ fatFs = TRUE /\ fs.flag
      /\ fs \in FATFS /\ fs.fptr + btr <= fs.fsize /\ call.op = "read"
      /\ pc = "chunk" /\ btr > 0
      /\ UNCHANGED <<card, fatFs, opened>>
  BY FileFacts DEF ReadChunk
<1>2. PICK next \in NextCluster :
       LET noLink == AtCluster /\ next.link <= 1
           noSector == AtSector /\ Clust2Sect(next.link) = 0
           f == InCluster(fs, next.link)
           g == InSector(f)
       IN  \/ /\ noLink \/ noSector
              /\ fs' = Closed(IF noLink THEN fs ELSE f)
              /\ failed' = (failed \/ next.fails)
              /\ Return("DISK_ERR")
              /\ UNCHANGED got
           \/ /\ ~noLink /\ ~noSector
              /\ fs' = Closed(g)
              /\ failed' = TRUE
              /\ Return("DISK_ERR")
              /\ UNCHANGED got
           \/ /\ ~noLink /\ ~noSector
              /\ got' = got \o Bytes(g.dsect, fs.fptr % SectorSize, Portion)
              /\ fs' = [g EXCEPT !.fptr = @ + Portion]
              /\ btr' = btr - Portion
              /\ Stay
              /\ UNCHANGED <<findVars, bsect, seekVars, failed>>
  BY DEF ReadChunk
<1>3. next.link \in Nat /\ next.fails \in BOOLEAN
  BY <1>1, NextClusterType
<1> DEFINE f == InCluster(fs, next.link)
           g == InSector(f)
<1>4. /\ f \in FATFS /\ g \in FATFS
      /\ g.fptr = fs.fptr /\ g.fsize = fs.fsize /\ g.flag = fs.flag
      /\ \A h \in {f, g} :
           /\ h.fatbase = fs.fatbase /\ h.csize = fs.csize
           /\ h.n_rootdir = fs.n_rootdir /\ h.max_clust = fs.max_clust
           /\ h.dirbase = fs.dirbase /\ h.database = fs.database
           /\ h.fs_type = fs.fs_type
  BY <1>1, <1>3, InSectorType
<1>5. failed \in BOOLEAN /\ "DISK_ERR" \in FResults
  BY <1>1 DEF TypeOK, FResults
<1>6. CASE /\ \E h \in {fs, f, g} : fs' = Closed(h)
           /\ failed' \in BOOLEAN /\ Return("DISK_ERR") /\ UNCHANGED got
  <2>1. PICK h \in {fs, f, g} : fs' = Closed(h)
    BY <1>6
  <2>2. /\ h \in FATFS
        /\ h.fatbase = fs.fatbase /\ h.csize = fs.csize
        /\ h.n_rootdir = fs.n_rootdir /\ h.max_clust = fs.max_clust
        /\ h.dirbase = fs.dirbase /\ h.database = fs.database
        /\ h.fs_type = fs.fs_type
    BY <1>1, <1>4
  <2> HIDE DEF f, g
  <2> QED
    BY <1>1, <1>5, <1>6, <2>1, <2>2, ClosedKeeps
<1>7. CASE /\ got' = got \o Bytes(g.dsect, fs.fptr % SectorSize, Portion)
           /\ fs' = [g EXCEPT !.fptr = @ + Portion]
           /\ btr' = btr - Portion
           /\ Stay
           /\ UNCHANGED <<findVars, bsect, seekVars, failed>>
  <2> HIDE DEF f, g
  <2>1. Portion \in 1 .. btr /\ fs.fptr \in Nat /\ btr \in Nat
    BY <1>1, PortionIs, FatFsTypes DEF TypeOK
  <2>2. g.fptr + Portion \in Nat /\ btr' \in Nat
    BY <1>4, <1>7, <2>1
  <2>3. /\ fs' \in FATFS /\ fs'.fptr = fs.fptr + Portion
        /\ fs'.fsize = fs.fsize /\ fs'.flag = fs.flag
    BY <1>4, <1>7, <2>2 DEF FATFS
  <2>4. SameVolume
    BY <1>1, <1>4, <1>7 DEF SameVolume, FATFS
  <2>5. got' \in Seq(Nat \X Nat)
    <3>1. g.dsect \in Nat /\ fs.fptr % SectorSize \in Nat /\ Portion \in Nat
      <4>1. SectorSize \in Nat \ {0}
        BY VolumeAssumption
      <4>2. fs.fptr % SectorSize \in Nat
        BY ONLY <2>1, <4>1
      <4>3. g.dsect \in Nat
        BY <1>4 DEF FATFS
      <4> QED
        BY ONLY <2>1, <4>2, <4>3
    <3> DEFINE r == fs.fptr % SectorSize
               n == Portion
               more == Bytes(g.dsect, r, n)
    <3> HIDE DEF r, n
    <3>2. more \in [1 .. n -> Nat \X Nat]
      BY <3>1 DEF Bytes, r, n
    <3>3. more \in Seq(Nat \X Nat)
      <4> HIDE DEF more
      <4> QED
        BY <3>1, <3>2, SeqDef DEF n
    <3> HIDE DEF more
    <3>4. got' = got \o more
      BY <1>7 DEF more, r, n
    <3> QED
      BY <1>1, <3>3, <3>4, ConcatProperties DEF TypeOK
  <2>6. TypeOK'
    BY <1>1, <1>7, <2>2, <2>3, <2>5 DEF TypeOK, Stay, GoTo, findVars, seekVars
  <2>7. MountInv'
    BY <1>1, <1>7, <2>4, DescribesKept DEF FileInv, MountInv, Stay, GoTo
  <2>8. fs'.fptr + btr' <= fs'.fsize /\ fs'.fptr <= fs'.fsize
    <3>1. fs.fsize \in Nat
      BY <1>1, FatFsTypes
    <3> QED
      BY <1>1, <1>7, <2>1, <2>3, <3>1
  <2>9. ExtentInv'
    BY <1>1, <1>7, <2>3, <2>8 DEF ExtentInv, Stay, GoTo, Usable
  <2> QED
    BY <2>6, <2>7, <2>9 DEF FileInv
<1> QED
  BY <1>2, <1>3, <1>5, <1>6, <1>7

-----------------------------------------------------------------------------
(* Positioning.                                                            *)
LEMMA ClusterSizeType ==
  ASSUME IsDisk(disk), Describes
  PROVE  /\ fs.csize \in Nat \ {0} /\ ClusterSize \in Nat \ {0}
         /\ ClusterSize = fs.csize * SectorSize
<1>1. fs.csize \in Nat \ {0}
  BY VolumeFacts, BpbFacts DEF Describes
<1>2. fs.csize * SectorSize \in Nat \ {0}
  BY <1>1, VolumeAssumption
<1> QED
  BY <1>1, <1>2 DEF ClusterSize

LEMMA SeekFacts ==
  ASSUME FileInv, pc = "seek", Usable
  PROVE  /\ TypeOK /\ IsDisk(disk) /\ Describes /\ fatFs = TRUE /\ fs.flag
         /\ fs \in FATFS /\ fs.fptr \in Nat /\ fs.fsize \in Nat
         /\ fs.fptr <= fs.fsize
         /\ call.op = "seek" /\ Target \in 0 .. fs.fsize
         /\ ClusterSize \in Nat \ {0}
<1>1. /\ TypeOK /\ IsDisk(disk) /\ Describes /\ fatFs = TRUE /\ fs.flag
      /\ fs \in FATFS /\ fs.fptr <= fs.fsize /\ call.op = "seek"
  BY CardIsDisk DEF FileInv, TypeOK, MountInv, ExtentInv, Usable
<1>2. fs.fptr \in Nat /\ fs.fsize \in Nat
  BY <1>1, FatFsTypes
<1>3. call.arg \in Nat
  BY <1>1, CallTypes DEF TypeOK, Idle
<1> QED
  BY <1>1, <1>2, <1>3, ClusterSizeType DEF Target

LEMMA SeekToStartKeeps ==
  ASSUME FileInv, SeekToStart
  PROVE  FileInv'
<1>1. TypeOK /\ fs \in FATFS /\ fs.fsize \in Nat
  BY SeekFacts DEF SeekToStart
<1>2. fs' \in FATFS /\ fs'.fptr = 0 /\ fs'.fsize = fs.fsize
  BY <1>1 DEF SeekToStart, FATFS
<1>3. SameVolume
  BY <1>1 DEF SeekToStart, SameVolume, FATFS
<1> QED
  BY <1>1, <1>2, <1>3, ReturnKeeps DEF SeekToStart, TypeOK, FResults

(* The search begins at the cluster of the byte before the position, which *)
(* is not behind the one of the byte before the target, or at the first.   *)
LEMMA SearchStart ==
  ASSUME NEW n \in Nat \ {0}, NEW a \in Nat, NEW t \in Nat,
         t \div n >= a \div n
  PROVE  /\ a - (a % n) \in Nat /\ a - (a % n) <= t
         /\ a - (a % n) = (a \div n) * n
         /\ (a - (a % n)) % n = 0 /\ (a - (a % n)) \div n = a \div n
<1> DEFINE q == a \div n
           r == a % n
           u == t \div n
           v == t % n
           m == q * n
<1>1. q \in Nat /\ r \in 0 .. n - 1 /\ a = m + r
  BY DivideBy
<1>2. u \in Nat /\ v \in 0 .. n - 1 /\ t = u * n + v
  BY DivideBy
<1>3. m <= u * n /\ m \in Nat
  BY <1>1, <1>2, ProductOrder
<1>4. a - r = m
  <2> HIDE DEF m, q, r
  <2> QED
    BY <1>1, <1>3
<1>5. m <= t
  <2> DEFINE w == u * n
  <2>1. w \in Nat
    BY <1>2
  <2> HIDE DEF w, m, u, v
  <2> QED
    BY <1>2, <1>3, <2>1 DEF w
<1>6. m \div n = q /\ m % n = 0
  <2> HIDE DEF q
  <2>1. (q * n + 0) \div n = q /\ (q * n + 0) % n = 0
    <3>1. q \in Int /\ 0 \in 0 .. n - 1
      BY <1>1
    <3> QED
      BY ONLY <3>1, n \in Nat \ {0}, DivUnique
  <2>2. q * n + 0 = m
    BY <1>3
  <2> QED
    BY <2>1, <2>2
<1> HIDE DEF m, q, r
<1> QED
  BY <1>3, <1>4, <1>5, <1>6 DEF m, q, r

LEMMA SearchKeeps ==
  ASSUME FileInv, pc = "seek", Usable, Target > 0,
         NEW start \in Nat, NEW cluster \in Nat, start <= Target - 1,
         Search(start, cluster)
  PROVE  /\ FileInv' /\ SameVolume
         /\ fs'.fptr = start /\ fs'.curr_clust = cluster /\ clst' = cluster
         /\ fs'.org_clust = fs.org_clust /\ pc' = "follow"
<1>1. /\ TypeOK /\ Describes /\ fatFs = TRUE /\ fs.flag
      /\ fs \in FATFS /\ fs.fptr \in Nat /\ fs.fsize \in Nat
      /\ call.op = "seek" /\ Target \in 0 .. fs.fsize
  BY SeekFacts
<1>2. /\ fs' \in FATFS /\ fs'.fptr = start /\ fs'.curr_clust = cluster
      /\ fs'.fsize = fs.fsize /\ fs'.flag = fs.flag
      /\ fs'.org_clust = fs.org_clust
  BY <1>1 DEF Search, FATFS
<1>3. SameVolume
  BY <1>1 DEF Search, SameVolume, FATFS
<1>4. /\ ofs' \in Nat /\ ofs' > 0 /\ start + ofs' = Target
      /\ start + ofs' <= fs.fsize /\ start <= fs.fsize
  BY <1>1 DEF Search
<1>5. TypeOK'
  BY <1>1, <1>2, <1>4 DEF Search, GoTo, TypeOK, findVars, Places
<1>6. MountInv'
  BY <1>1, <1>3, DescribesKept DEF Search, GoTo, MountInv
<1>7. ExtentInv'
  BY <1>1, <1>2, <1>4 DEF Search, GoTo, ExtentInv, Usable
<1> QED
  BY <1>2, <1>3, <1>5, <1>6, <1>7 DEF FileInv, Search, GoTo

LEMMA SeekForwardStart ==
  ASSUME FileInv, SeekForward
  PROVE  LET start == (fs.fptr - 1) - ((fs.fptr - 1) % ClusterSize)
         IN  /\ start \in Nat /\ start <= Target - 1
             /\ start % ClusterSize = 0
             /\ start \div ClusterSize = (fs.fptr - 1) \div ClusterSize
<1>1. /\ fs.fptr \in Nat /\ Target \in Nat /\ Target > 0 /\ fs.fptr > 0
      /\ ClusterSize \in Nat \ {0}
      /\ (Target - 1) \div ClusterSize >= (fs.fptr - 1) \div ClusterSize
  BY SeekFacts DEF SeekForward, InLaterCluster
<1> DEFINE a == fs.fptr - 1
           t == Target - 1
<1>2. a \in Nat /\ t \in Nat /\ t \div ClusterSize >= a \div ClusterSize
  BY <1>1
<1> HIDE DEF a, t
<1> QED
  BY <1>1, <1>2, SearchStart DEF a, t

LEMMA SeekForwardKeeps ==
  ASSUME FileInv, SeekForward
  PROVE  FileInv'
<1>1. /\ pc = "seek" /\ Usable /\ Target > 0 /\ fs.curr_clust \in Nat
  BY SeekFacts, FatFsTypes DEF SeekForward
<1> QED
  BY <1>1, SeekForwardStart, SearchKeeps DEF SeekForward

LEMMA SeekFromStartKeeps ==
  ASSUME FileInv, SeekFromStart
  PROVE  FileInv'
<1>1. /\ pc = "seek" /\ Usable /\ Target > 0 /\ fs.org_clust \in Nat
      /\ Target \in Nat
  BY SeekFacts, FatFsTypes DEF SeekFromStart
<1> QED
  BY <1>1, SearchKeeps DEF SeekFromStart

LEMMA FollowChainKeeps ==
  ASSUME FileInv, FollowChain
  PROVE  FileInv'
<1>1. /\ TypeOK /\ IsDisk(disk) /\ Describes /\ fatFs = TRUE /\ fs.flag
      /\ fs \in FATFS /\ fs.fptr + ofs <= fs.fsize /\ call.op = "seek"
      /\ pc = "follow" /\ ofs > ClusterSize
      /\ UNCHANGED <<card, fatFs, opened, got>>
  BY FileFacts DEF FollowChain
<1>2. PICK next \in GetFat(clst) :
        /\ failed' = (failed \/ next.fails)
        /\ \/ /\ next.link <= 1 \/ next.link >= fs.max_clust
              /\ fs' = Closed(fs)
              /\ Return("DISK_ERR")
           \/ /\ 1 < next.link /\ next.link < fs.max_clust
              /\ clst' = next.link
              /\ fs' = [fs EXCEPT !.curr_clust = next.link,
                                  !.fptr = @ + ClusterSize]
              /\ ofs' = ofs - ClusterSize
              /\ Stay
              /\ UNCHANGED <<findVars, bsect, btr, ifptr>>
  BY DEF FollowChain
<1>3. next.link \in Nat /\ next.fails \in BOOLEAN
  BY <1>1, GetFatIs DEF TypeOK
<1>4. failed' \in BOOLEAN
  BY <1>1, <1>2, <1>3 DEF TypeOK
<1>5. CASE fs' = Closed(fs) /\ Return("DISK_ERR")
  BY <1>1, <1>4, <1>5, ClosedKeeps DEF FResults
<1>6. CASE /\ clst' = next.link
           /\ fs' = [fs EXCEPT !.curr_clust = next.link,
                               !.fptr = @ + ClusterSize]
           /\ ofs' = ofs - ClusterSize
           /\ Stay
           /\ UNCHANGED <<findVars, bsect, btr, ifptr>>
  <2>1. /\ fs.fptr \in Nat /\ fs.fsize \in Nat /\ ofs \in Nat
        /\ ClusterSize \in Nat
    BY <1>1, FatFsTypes, ClusterSizeType DEF TypeOK
  <2>2. fs.fptr + ClusterSize \in Nat /\ ofs' \in Nat /\ ofs' > 0
    BY <1>1, <1>6, <2>1
  <2>3. /\ fs' \in FATFS /\ fs'.fptr = fs.fptr + ClusterSize
        /\ fs'.fsize = fs.fsize /\ fs'.flag = fs.flag
    BY <1>1, <1>3, <1>6, <2>2 DEF FATFS
  <2>4. SameVolume
    BY <1>1, <1>6 DEF SameVolume, FATFS
  <2>5. TypeOK'
    BY <1>1, <1>3, <1>4, <1>6, <2>2, <2>3 DEF TypeOK, Stay, GoTo, findVars
  <2>6. MountInv'
    BY <1>1, <1>6, <2>4, DescribesKept DEF FileInv, MountInv, Stay, GoTo
  <2>7. fs'.fptr + ofs' <= fs'.fsize /\ fs'.fptr <= fs'.fsize
    BY <1>1, <1>6, <2>1, <2>2, <2>3
  <2>8. ExtentInv'
    BY <1>1, <1>6, <2>2, <2>3, <2>7 DEF ExtentInv, Stay, GoTo, Usable
  <2> QED
    BY <2>5, <2>6, <2>8 DEF FileInv
<1> QED
  BY <1>2, <1>5, <1>6

LEMMA SeekDoneKeeps ==
  ASSUME FileInv, SeekDone
  PROVE  FileInv'
<1> DEFINE f == [fs EXCEPT !.fptr = @ + ofs]
           n == ofs \div SectorSize
           s == Clust2Sect(clst)
<1>1. /\ TypeOK /\ IsDisk(disk) /\ Describes /\ fatFs = TRUE /\ fs.flag
      /\ fs \in FATFS /\ fs.fptr + ofs <= fs.fsize /\ call.op = "seek"
      /\ pc = "follow" /\ fs.fptr \in Nat /\ ofs \in Nat
      /\ UNCHANGED <<card, fatFs, opened, got, failed>>
  BY FileFacts, FatFsTypes DEF SeekDone, TypeOK
<1>2. fs.fptr + ofs \in Nat
  BY <1>1
<1>3. /\ f \in FATFS /\ f.fptr = fs.fptr + ofs /\ f.fsize = fs.fsize
      /\ f.fatbase = fs.fatbase /\ f.csize = fs.csize
      /\ f.n_rootdir = fs.n_rootdir /\ f.max_clust = fs.max_clust
      /\ f.dirbase = fs.dirbase /\ f.database = fs.database
      /\ f.fs_type = fs.fs_type
  BY <1>1, <1>2 DEF FATFS
<1>4. s \in Nat /\ n \in Nat
  BY <1>1, Clust2SectIs, VolumeAssumption, DivideBy DEF TypeOK
<1> DEFINE sect == s + n
           num == n + 1
<1>5. sect \in Nat /\ num \in Nat
  BY <1>4
<1>6. \/ s = 0 /\ fs' = Closed(f) /\ Return("DISK_ERR")
      \/ /\ s # 0
         /\ fs' = IF ofs % SectorSize = 0 THEN [f EXCEPT !.csect = n]
                  ELSE [f EXCEPT !.csect = num, !.dsect = sect]
         /\ Return("OK")
  BY DEF SeekDone
<1> HIDE DEF f, n, s, sect, num
<1>7. CASE fs' = Closed(f) /\ Return("DISK_ERR")
  BY <1>1, <1>3, <1>7, ClosedKeeps DEF FResults, TypeOK
<1>8. CASE /\ fs' = IF ofs % SectorSize = 0 THEN [f EXCEPT !.csect = n]
                    ELSE [f EXCEPT !.csect = num, !.dsect = sect]
           /\ Return("OK")
  <2>1. /\ fs' \in FATFS /\ fs'.fptr = fs.fptr + ofs /\ fs'.fsize = fs.fsize
    BY <1>3, <1>4, <1>5, <1>8 DEF FATFS
  <2>2. SameVolume
    BY <1>1, <1>3, <1>8 DEF SameVolume, FATFS
  <2> QED
    BY <1>1, <1>8, <2>1, <2>2, ReturnKeeps DEF FResults, TypeOK
<1> QED
  BY <1>6, <1>7, <1>8

-----------------------------------------------------------------------------
(* Every step keeps it.                                                    *)
LEMMA StutterKeeps ==
  ASSUME FileInv, UNCHANGED vars
  PROVE  FileInv'
<1>1. TypeOK'
  BY DEF FileInv, TypeOK, vars, handle, locals, findVars, seekVars
<1>2. SameVolume
  BY DEF vars, handle, SameVolume
<1>3. MountInv'
  <2>1. disk' = disk
    BY DEF vars, disk
  <2> QED
    BY <1>2, <2>1, DescribesKept DEF FileInv, MountInv, vars, handle, locals
<1>4. ExtentInv'
  BY DEF FileInv, ExtentInv, vars, handle, locals, seekVars, Usable
<1> QED
  BY <1>1, <1>3, <1>4 DEF FileInv

LEMMA NextKeeps ==
  ASSUME FileInv, NoMisleadingCard, [Next]_vars
  PROVE  FileInv'
<1>1. CASE UNCHANGED vars
  BY <1>1, StutterKeeps
<1>2. CASE \E c \in Calls : Call(c)
  BY <1>2, CallKeeps
<1>3. CASE MountStep \/ Unmount
  BY <1>3, DriveNotReadyKeeps, CheckFirstSectorKeeps, ReadTableKeeps,
     ReadBpbKeeps, UnmountKeeps DEF MountStep
<1>4. CASE OpenStep
  BY <1>4, BeginOpenUnmountedKeeps, BeginOpenKeeps, FollowSegmentKeeps,
     EntryUnreadableKeeps, EndOfTableKeeps, NextEntryKeeps,
     FollowDirectoryKeeps, OpenFoundKeeps DEF OpenStep
<1>5. CASE ReadStep
  BY <1>5, UnusableKeeps, BeginReadKeeps, ReadChunkKeeps, ReadDoneKeeps
     DEF ReadStep
<1>6. CASE SeekStep
  BY <1>6, UnusableKeeps, SeekToStartKeeps, SeekForwardKeeps,
     SeekFromStartKeeps, FollowChainKeeps, SeekDoneKeeps DEF SeekStep
<1> QED
  BY <1>1, <1>2, <1>3, <1>4, <1>5, <1>6 DEF Next, Step

(* From the first pf_mount on, whatever is called and whatever fails, the  *)
(* FATFS object describes the card's volume, and the calls in progress     *)
(* stay inside the file, the chain and the path.                           *)
THEOREM FileInvHolds ==
  ASSUME NoMisleadingCard
  PROVE  Spec => []FileInv
<1>1. FileInv /\ [Next]_vars => FileInv'
  BY NextKeeps
<1> QED
  BY <1>1, InitHolds, PTL DEF Spec

(* pff.c keeps its variables in their ranges; in particular the number of  *)
(* bytes still to be read or to be skipped never becomes negative, and the *)
(* position stays inside the file.                                         *)
THEOREM TypeCorrect ==
  ASSUME NoMisleadingCard
  PROVE  Spec => []TypeOK
<1>1. FileInv => TypeOK
  BY DEF FileInv
<1> QED
  BY <1>1, FileInvHolds, PTL

(* On cards whose first sector does not mislead it, pf_mount mounts the    *)
(* card's own volume or none, whichever transfers of it fail.              *)
THEOREM RightVolume ==
  ASSUME NoMisleadingCard
  PROVE  Spec => []MountsTheVolume
<1>1. FileInv => MountsTheVolume
  BY DEF FileInv, MountInv, Describes, MountsTheVolume
<1> QED
  BY <1>1, FileInvHolds, PTL

-----------------------------------------------------------------------------
(* The place in the chain.                                                 *)

(* The byte before a position, in its sector and its cluster.              *)
LEMMA ByteBefore ==
  ASSUME NEW n \in Nat \ {0}, NEW a \in Nat \ {0}
  PROVE  /\ (a - 1) \div n \in Nat /\ a \div n \in Nat
         /\ a % n # 0 => (a - 1) \div n = a \div n
         /\ a % n = 0 => a \div n = (a - 1) \div n + 1
<1> DEFINE p == a - 1
<1>1. p \in Nat /\ a = p + 1
  OBVIOUS
<1> HIDE DEF p
<1>2. p \div n \in Nat /\ (p + 1) \div n \in Nat
  BY <1>1, DivideBy
<1>3. /\ (p + 1) % n # 0 => (p + 1) \div n = p \div n
      /\ (p + 1) % n = 0 => (p + 1) \div n = p \div n + 1
  BY <1>1, DivNext
<1> QED
  BY <1>1, <1>2, <1>3 DEF p

LEMMA PlaceTypes ==
  ASSUME IsDisk(disk), Describes, fs \in FATFS
  PROVE  LET m == fs.fptr \div SectorSize
         IN  /\ fs.fptr \in Nat /\ fs.org_clust \in Nat
             /\ fs.curr_clust \in Nat /\ fs.csize \in Nat \ {0}
             /\ m \in Nat /\ m \div fs.csize \in Nat
             /\ m % fs.csize \in 0 .. fs.csize - 1
             /\ fs.fptr > 0 =>
                  /\ LastSector \in Nat /\ LastSector \div fs.csize \in Nat
                  /\ ~AtSector => LastSector = m
                  /\ AtSector => m = LastSector + 1
<1> DEFINE m == fs.fptr \div SectorSize
<1>1. /\ fs.fptr \in Nat /\ fs.org_clust \in Nat /\ fs.curr_clust \in Nat
      /\ fs.csize \in Nat \ {0}
  BY FatFsTypes, ClusterSizeType
<1>2. m \in Nat
  BY <1>1, VolumeAssumption, DivideBy
<1> HIDE DEF m
<1>3. m \div fs.csize \in Nat /\ m % fs.csize \in 0 .. fs.csize - 1
  BY <1>1, <1>2, DivideBy
<1>4. ASSUME fs.fptr > 0
      PROVE  /\ LastSector \in Nat
             /\ ~AtSector => LastSector = m
             /\ AtSector => m = LastSector + 1
  <2> DEFINE a == fs.fptr
  <2>1. a \in Nat \ {0} /\ SectorSize \in Nat \ {0}
    BY <1>1, <1>4, VolumeAssumption
  <2> HIDE DEF a
  <2>2. /\ (a - 1) \div SectorSize \in Nat
        /\ a % SectorSize # 0 => (a - 1) \div SectorSize = a \div SectorSize
        /\ a % SectorSize = 0 => a \div SectorSize = (a - 1) \div SectorSize + 1
    BY <2>1, ByteBefore
  <2> QED
    BY <2>2 DEF LastSector, AtSector, m, a
<1>5. LastSector \in Nat => LastSector \div fs.csize \in Nat
  BY <1>1, DivideBy
<1> QED
  BY <1>1, <1>2, <1>3, <1>4, <1>5 DEF m

(* Between clusters, the next sector is in the cluster of the last one.    *)
LEMMA NextSectorPlace ==
  ASSUME IsDisk(disk), Describes, fs \in FATFS, fs.fptr > 0, AtSector
  PROVE  LET m == fs.fptr \div SectorSize
         IN  /\ ~AtCluster => /\ m \div fs.csize = LastSector \div fs.csize
                              /\ m % fs.csize = (LastSector % fs.csize) + 1
             /\ AtCluster => m \div fs.csize = LastSector \div fs.csize + 1
<1> DEFINE m == fs.fptr \div SectorSize
           last == LastSector
<1>1. m = last + 1 /\ last \in Nat /\ fs.csize \in Nat \ {0}
  BY PlaceTypes
<1>2. AtCluster <=> m % fs.csize = 0
  BY DEF AtCluster
<1> HIDE DEF m, last
<1>3. /\ m % fs.csize # 0 => /\ m \div fs.csize = last \div fs.csize
                             /\ m % fs.csize = (last % fs.csize) + 1
      /\ m % fs.csize = 0 => m \div fs.csize = last \div fs.csize + 1
  BY <1>1, DivNext
<1> QED
  BY <1>2, <1>3 DEF m, last

(* The cluster that pf_read goes on with is the one of the next byte, if   *)
(* no transfer fails; if it is a cluster, it is that one in any case.      *)
LEMMA NextClusterIs ==
  ASSUME IsDisk(disk), Describes, fs \in FATFS, AtPosition,
         NEW next \in NextCluster
  PROVE  LET at == ClusterAt(disk, fs.org_clust,
                             (fs.fptr \div SectorSize) \div fs.csize)
         IN  /\ IsCluster(disk, next.link) => next.link = at
             /\ ~next.fails => next.link = at
<1> DEFINE m == fs.fptr \div SectorSize
           k == m \div fs.csize
           j == LastSector \div fs.csize
           c == fs.org_clust
           at == ClusterAt(disk, c, k)
<1>1. /\ fs.fptr \in Nat /\ c \in Nat /\ fs.curr_clust \in Nat
      /\ m \in Nat /\ k \in Nat /\ fs.csize \in Nat \ {0}
      /\ fs.fptr > 0 => /\ j \in Nat
                        /\ ~AtSector => LastSector = m
  BY PlaceTypes
<1>2. CASE fs.fptr = 0
  <2>1. m = 0 /\ k = 0
    BY <1>1, <1>2, VolumeAssumption
  <2>2. AtCluster
    BY <1>1, <1>2, <2>1, VolumeAssumption DEF AtCluster, AtSector
  <2>3. at = c
    BY <1>1, <2>1, ClusterAtFirst
  <2> QED
    BY <1>2, <2>2, <2>3 DEF NextCluster
<1>3. CASE fs.fptr > 0
  <2>1. fs.curr_clust = ClusterAt(disk, c, j) /\ IsCluster(disk, fs.curr_clust)
    BY <1>3 DEF AtPosition
  <2>2. CASE ~AtCluster
    <3>1. k = j
      <4>1. CASE AtSector
        BY <1>3, <2>2, <4>1, NextSectorPlace
      <4>2. CASE ~AtSector
        BY <1>1, <1>3, <4>2
      <4> QED
        BY <4>1, <4>2
    <3> QED
      BY <2>1, <2>2, <3>1 DEF NextCluster
  <2>3. CASE AtCluster
    <3>1. k = j + 1
      BY <1>3, <2>3, NextSectorPlace DEF AtCluster
    <3> HIDE DEF j, k, c
    <3>2. at = Entry(disk, fs.curr_clust)
      BY <1>1, <1>3, <2>1, <3>1, ClusterAtNext DEF NextInChain
    <3>3. next \in GetFat(fs.curr_clust)
      BY <1>1, <1>3, <2>3 DEF NextCluster
    <3>4. /\ next.link \in Nat
          /\ next.link > 1 => next.link = Entry(disk, fs.curr_clust)
          /\ ~next.fails => next.link = Entry(disk, fs.curr_clust)
      BY <1>1, <2>1, <3>3, GetFatIs
    <3>5. IsCluster(disk, next.link) => next.link > 1
      BY <3>4 DEF IsCluster
    <3> QED
      BY <3>2, <3>4, <3>5 DEF c, k
  <2> QED
    BY <2>2, <2>3
<1> QED
  BY <1>1, <1>2, <1>3

(* When the cluster is there, pf_read knows the sector of the next byte.   *)
LEMMA NextSectorIs ==
  ASSUME IsDisk(disk), Describes, fs \in FATFS, AtPosition,
         NEW next \in NextCluster,
         ~(AtSector /\ Clust2Sect(next.link) = 0)
  PROVE  LET m == fs.fptr \div SectorSize
             g == InSector(InCluster(fs, next.link))
         IN  /\ next.link = ClusterAt(disk, fs.org_clust, m \div fs.csize)
             /\ IsCluster(disk, next.link)
             /\ g.curr_clust = next.link
             /\ g.csect = (m % fs.csize) + 1
             /\ g.dsect = SectorInChain(disk, fs.org_clust, m)
<1> DEFINE m == fs.fptr \div SectorSize
           f == InCluster(fs, next.link)
           g == InSector(f)
           c == fs.org_clust
           cs == fs.csize
           at == ClusterAt(disk, c, m \div cs)
<1>1. next.link \in Nat
  BY NextClusterType
<1>2. /\ g.curr_clust = IF AtCluster THEN next.link ELSE fs.curr_clust
      /\ f.csect = IF AtCluster THEN 0 ELSE fs.csect
      /\ g.csect = IF AtSector THEN f.csect + 1 ELSE f.csect
      /\ g.dsect = IF AtSector THEN Clust2Sect(g.curr_clust) + f.csect
                               ELSE fs.dsect
  BY <1>1, InSectorType
<1>3. /\ fs.fptr \in Nat /\ m \in Nat /\ cs \in Nat \ {0}
      /\ m % cs \in 0 .. cs - 1
      /\ fs.fptr > 0 => (~AtSector => LastSector = m)
  BY PlaceTypes
<1>4. IsCluster(disk, next.link) => next.link = at
  BY NextClusterIs
<1>5. ~AtCluster => next.link = fs.curr_clust /\ fs.fptr > 0
  BY <1>3, VolumeAssumption DEF NextCluster, AtCluster, AtSector
<1>6. g.curr_clust = next.link
  BY <1>2, <1>5
<1>7. cs = Bpb(disk).csize
  BY DEF Describes
<1>8. CASE AtSector
  <2>1. IsCluster(disk, next.link)
    BY <1>1, <1>8, Clust2SectIs
  <2>2. f.csect = m % cs
    <3>1. CASE AtCluster
      BY <1>2, <3>1 DEF AtCluster
    <3>2. CASE ~AtCluster
      BY <1>2, <1>5, <1>8, <3>2, NextSectorPlace DEF AtPosition
    <3> QED
      BY <3>1, <3>2
  <2>3. Clust2Sect(next.link) = FirstSector(disk) + DataStart(Bpb(disk))
                                  + (at - 2) * Bpb(disk).csize
    BY <1>1, <1>4, <2>1, Clust2SectIs
  <2>4. g.dsect = SectorInChain(disk, c, m)
    <3> DEFINE first == FirstSector(disk) + DataStart(Bpb(disk))
               r == m % Bpb(disk).csize
               d == (at - 2) * Bpb(disk).csize
    <3>1. SectorInChain(disk, c, m) = first + r + d
      BY <1>7 DEF SectorInChain
    <3>2. g.dsect = first + d + r
      BY <1>2, <1>6, <1>7, <1>8, <2>2, <2>3
    <3>3. first \in Int /\ r \in Int /\ d \in Int
      <4>1. first \in Int
        BY VolumeFacts, BpbFacts DEF Describes
      <4>2. r \in Int
        BY <1>3, <1>7
      <4>3. at \in Int /\ Bpb(disk).csize \in Int
        BY <1>1, <1>3, <1>4, <1>7, <2>1
      <4>4. at - 2 \in Int
        BY <4>3
      <4> QED
        BY <4>1, <4>2, <4>3, <4>4
    <3> HIDE DEF first, r, d
    <3> QED
      BY <3>1, <3>2, <3>3
  <2> QED
    BY <1>2, <1>4, <1>6, <1>8, <2>1, <2>2, <2>4
<1>9. CASE ~AtSector
  <2>1. ~AtCluster /\ fs.fptr > 0 /\ LastSector = m /\ fs.fptr % SectorSize # 0
    BY <1>3, <1>5, <1>9 DEF AtCluster, AtSector
  <2>2. /\ fs.curr_clust = at /\ IsCluster(disk, fs.curr_clust)
        /\ fs.csect = (m % cs) + 1 /\ fs.dsect = SectorInChain(disk, c, m)
    BY <2>1 DEF AtPosition
  <2> QED
    BY <1>2, <1>5, <1>6, <1>9, <2>1, <2>2
<1> QED
  BY <1>8, <1>9

(* The place belongs to the position after some bytes of that sector.      *)
LEMMA PlaceAfterBytes ==
  ASSUME IsDisk(disk), Describes, fs \in FATFS, SameVolume,
         NEW n \in Nat \ {0}, n <= SectorSize - (fs.fptr % SectorSize),
         fs'.fptr = fs.fptr + n, fs'.org_clust = fs.org_clust,
         LET m == fs.fptr \div SectorSize
         IN  /\ fs'.curr_clust = ClusterAt(disk, fs.org_clust, m \div fs.csize)
             /\ IsCluster(disk, fs'.curr_clust)
             /\ fs'.csect = (m % fs.csize) + 1
             /\ fs'.dsect = SectorInChain(disk, fs.org_clust, m)
  PROVE  AtPosition'
<1> DEFINE m == fs.fptr \div SectorSize
           r == fs.fptr % SectorSize
           S == SectorSize
           t == r + n - 1
<1>1. fs.fptr \in Nat /\ S \in Nat \ {0}
  BY PlaceTypes, VolumeAssumption
<1>2. m \in Nat /\ r \in 0 .. S - 1 /\ fs.fptr = m * S + r
  BY <1>1, DivideBy
<1>3. LastSector' = m
  <2>1. LastSector' = (fs'.fptr - 1) \div S
    BY DEF LastSector
  <2> DEFINE w == m * S
  <2>2. w \in Nat
    BY <1>1, <1>2
  <2>3. t \in 0 .. S - 1
    BY <1>1, <1>2
  <2>4. fs'.fptr - 1 = w + t
    <3> HIDE DEF m, r, S, w
    <3> QED
      BY <1>2, <2>2 DEF w
  <2> HIDE DEF t, m, S
  <2>5. (m * S + t) \div S = m
    <3>1. S \in Nat \ {0} /\ m \in Int /\ t \in 0 .. S - 1
      BY <1>1, <1>2, <2>3
    <3> QED
      BY ONLY <3>1, DivUnique
  <2> QED
    BY <2>1, <2>4, <2>5
<1>4. disk' = disk /\ fs'.csize = fs.csize
  BY DEF SameVolume, disk
<1> QED
  BY <1>3, <1>4 DEF AtPosition

(* Nothing of the place is changed.                                        *)
LEMMA PlaceKept ==
  ASSUME SameVolume, AtPosition,
         fs'.fptr = fs.fptr, fs'.org_clust = fs.org_clust,
         fs'.curr_clust = fs.curr_clust, fs'.csect = fs.csect,
         fs'.dsect = fs.dsect
  PROVE  AtPosition'
<1>1. disk' = disk /\ fs'.csize = fs.csize /\ LastSector' = LastSector
  BY DEF SameVolume, disk, LastSector
<1> QED
  BY <1>1 DEF AtPosition

(* The end of a search: the target is in the cluster that begins at the    *)
(* position, u sectors behind its beginning.                               *)
EndsAt(S, cs, C, p, n) ==
  /\ p \div C \in Nat
  /\ ((p + n - 1) \div S) \div cs = p \div C
  /\ ((p + n - 1) \div S) % cs = (n - 1) \div S
  /\ (p + n) % S = n % S

LEMMA TargetPlace ==
  ASSUME NEW S \in Nat \ {0}, NEW cs \in Nat \ {0},
         NEW C \in Nat \ {0}, C = cs * S,
         NEW p \in Nat, p % C = 0,
         NEW n \in Nat \ {0}, n <= C
  PROVE  EndsAt(S, cs, C, p, n)
<1> DEFINE q == p \div C
           u == (n - 1) \div S
           v == (n - 1) % S
           w == q * cs
<1>1. C \in Nat \ {0}
  OBVIOUS
<1>2. q \in Nat /\ p = q * C + 0
  <2>1. q \in Nat /\ p = q * C + (p % C)
    BY <1>1, DivideBy
  <2> QED
    BY <2>1
<1>3. p = w * S /\ w \in Nat
  BY <1>2
<1>4. u \in Nat /\ v \in 0 .. S - 1 /\ n - 1 = u * S + v
  <2> DEFINE b == n - 1
  <2>1. b \in Nat
    OBVIOUS
  <2> HIDE DEF b
  <2>2. b \div S \in Nat /\ b % S \in 0 .. S - 1
        /\ b = (b \div S) * S + (b % S)
    BY <2>1, DivideBy
  <2> QED
    BY <2>2 DEF b
<1>5. u <= cs - 1
  <2>1. SUFFICES ASSUME u >= cs PROVE FALSE
    BY <1>4
  <2>2. cs * S <= u * S
    BY <1>4, <2>1, ProductOrder
  <2> DEFINE us == u * S
             css == cs * S
  <2>3. us \in Nat /\ css \in Nat
    BY <1>4
  <2>4. n - 1 = us + v /\ n <= css /\ css <= us
    BY <1>4, <2>2
  <2> HIDE DEF us, css, u, v
  <2> QED
    BY <1>4, <2>3, <2>4
<1> HIDE DEF q, u, v
<1>6. (p + n - 1) \div S = w + u
  <2> DEFINE x == w + u
             y == p + n - 1
  <2>1. x \in Nat
    BY <1>3, <1>4
  <2>2. y = x * S + v
    <3>1. x * S = w * S + u * S
      BY <1>3, <1>4
    <3> DEFINE a == w * S
               b == u * S
    <3>2. a \in Nat /\ b \in Nat /\ v \in Nat /\ n \in Nat
      BY <1>3, <1>4
    <3>3. p = a /\ n - 1 = b + v /\ x * S = a + b
      BY <1>3, <1>4, <3>1
    <3> HIDE DEF a, b, x
    <3> QED
      BY ONLY <3>2, <3>3
  <2> HIDE DEF x, y
  <2>3. y \div S = x
    BY <1>4, <2>1, <2>2, DivUnique
  <2> QED
    BY <2>3 DEF x, y
<1>7. (w + u) \div cs = q /\ (w + u) % cs = u
  <2>1. u \in 0 .. cs - 1
    BY <1>4, <1>5
  <2> QED
    BY <1>2, <2>1, DivUnique
<1>8. (p + n) % S = n % S
  <2> DEFINE a == n \div S
             b == n % S
             x == w + a
             y == p + n
  <2>1. a \in Nat /\ b \in 0 .. S - 1 /\ n = a * S + b
    BY DivideBy
  <2>2. x \in Nat
    BY <1>3, <2>1
  <2>3. y = x * S + b
    <3>1. x * S = w * S + a * S
      BY <1>3, <2>1, SMTT(30)
    <3> DEFINE c == w * S
               d == a * S
    <3>2. c \in Nat /\ d \in Nat
      BY <1>3, <2>1
    <3>3. p = c /\ n = d + b /\ x * S = c + d
      BY <1>3, <2>1, <3>1
    <3> HIDE DEF a, b, c, d, x
    <3> QED
      BY <2>1, <3>2, <3>3
  <2> HIDE DEF x, y, a, b
  <2>4. y % S = b
    BY <2>1, <2>2, <2>3, DivUnique
  <2> QED
    BY <2>4 DEF y, b
<1> QED
  BY <1>2, <1>6, <1>7, <1>8 DEF q, u, EndsAt

LEMMA PlaceOfNoFile ==
  ASSUME ~Usable', pc' # "follow"
  PROVE  PositionInv'
BY DEF PositionInv

LEMMA PlaceOfSameFile ==
  ASSUME PositionInv, UNCHANGED <<card, fatFs, fs>>,
         pc # "follow", pc' # "follow"
  PROVE  PositionInv'
<1>1. SameVolume
  BY DEF SameVolume
<1>2. Usable' <=> Usable
  BY DEF Usable
<1>3. Usable' => AtPosition'
  BY <1>1, <1>2, PlaceKept DEF PositionInv
<1> QED
  BY <1>3 DEF PositionInv

LEMMA MountPlace ==
  ASSUME FileInv, MountStep \/ Unmount
  PROVE  PositionInv'
<1>1. pc' # "follow" /\ ~Usable'
  <2>1. CASE DriveNotReady \/ CheckFirstSector \/ Unmount
    BY <2>1 DEF DriveNotReady, CheckFirstSector, Unmount, Return, VolumeAt,
                GoTo, Usable
  <2>2. CASE ReadTable
    BY <2>2 DEF FileInv, MountInv, ReadTable, Return, VolumeAt, GoTo, handle,
                Usable
  <2>3. CASE ReadBpb
    <3>1. pc' = "idle"
      BY <2>3 DEF ReadBpb, Return
    <3>2. ~fatFs' \/ fs'.flag = FALSE
      BY <2>3 DEF FileInv, MountInv, ReadBpb, TypeOK, FATFS, Geometry
    <3> QED
      BY <3>1, <3>2 DEF Usable
  <2> QED
    BY <2>1, <2>2, <2>3 DEF MountStep
<1> QED
  BY <1>1, PlaceOfNoFile

LEMMA OpenPlace ==
  ASSUME FileInv, OpenStep
  PROVE  PositionInv'
<1>1. TypeOK /\ fs \in FATFS
  BY DEF FileInv, TypeOK
<1>2. CASE BeginOpenUnmounted
  BY <1>2, PlaceOfNoFile DEF BeginOpenUnmounted, Return, handle, Usable
<1>3. CASE BeginOpen
  <2>1. fs'.flag = FALSE /\ pc' # "follow"
    BY <1>1, <1>3 DEF BeginOpen, FATFS, GoTo, Return
  <2> QED
    BY <2>1, PlaceOfNoFile DEF Usable
<1>4. CASE FollowSegment \/ EntryUnreadable \/ EndOfTable \/ NextEntry
             \/ FollowDirectory
  <2>1. pc \in {"segment", "find"} /\ fs' = fs /\ pc' # "follow"
    BY <1>4 DEF FollowSegment, EntryUnreadable, EndOfTable, NextEntry,
                FollowDirectory, handle, Return, GoTo, Stay
  <2>2. ~Usable'
    BY <2>1, SearchFacts DEF Usable
  <2> QED
    BY <2>1, <2>2, PlaceOfNoFile
<1>5. CASE OpenFound
  <2>1. pc' = "idle"
    BY <1>5 DEF OpenFound, Return
  <2>2. ~fs.flag
    BY <1>5, SearchFacts DEF OpenFound
  <2>3. CASE UNCHANGED handle
    BY <2>1, <2>2, <2>3, PlaceOfNoFile DEF handle, Usable
  <2>4. CASE fs' = [fs EXCEPT !.org_clust = Seen.clust, !.fsize = Seen.size,
                             !.fptr = 0, !.flag = TRUE]
    <3>1. fs'.fptr = 0
      BY <1>1, <2>4 DEF FATFS
    <3> QED
      BY <2>1, <3>1 DEF PositionInv, AtPosition
  <2> QED
    BY <1>5, <2>3, <2>4 DEF OpenFound
<1> QED
  BY <1>2, <1>3, <1>4, <1>5 DEF OpenStep

LEMMA ReadPlace ==
  ASSUME FileInv, PositionInv, ReadStep
  PROVE  PositionInv'
<1>1. CASE BeginReadUnusable \/ BeginRead \/ ReadDone
  BY <1>1, PlaceOfSameFile DEF BeginReadUnusable, BeginRead, ReadDone, handle,
                               Return, GoTo
<1>2. CASE ReadChunk
  <2>1. /\ TypeOK /\ IsDisk(disk) /\ Describes /\ fatFs = TRUE /\ fs.flag
        /\ fs \in FATFS /\ pc = "chunk" /\ btr > 0
        /\ AtPosition /\ UNCHANGED <<card, fatFs, opened>>
    BY <1>2, FileFacts DEF ReadChunk, PositionInv
  <2>2. PICK next \in NextCluster :
         LET noLink == AtCluster /\ next.link <= 1
             noSector == AtSector /\ Clust2Sect(next.link) = 0
             f == InCluster(fs, next.link)
             g == InSector(f)
         IN  \/ /\ fs' = Closed(IF noLink THEN fs ELSE f)
                /\ Return("DISK_ERR")
             \/ /\ fs' = Closed(g)
                /\ Return("DISK_ERR")
             \/ /\ ~noSector
                /\ fs' = [g EXCEPT !.fptr = @ + Portion]
                /\ Stay
    BY <1>2 DEF ReadChunk
  <2> DEFINE noSector == AtSector /\ Clust2Sect(next.link) = 0
             f == InCluster(fs, next.link)
             g == InSector(f)
  <2>3. next.link \in Nat
    BY <2>1, NextClusterType
  <2>4. /\ f \in FATFS /\ g \in FATFS
        /\ g.fptr = fs.fptr /\ g.org_clust = fs.org_clust
        /\ g.fatbase = fs.fatbase /\ g.csize = fs.csize
        /\ g.n_rootdir = fs.n_rootdir /\ g.max_clust = fs.max_clust
        /\ g.dirbase = fs.dirbase /\ g.database = fs.database
        /\ g.fs_type = fs.fs_type
    BY <2>1, <2>3, InSectorType
  <2>5. CASE (\E h \in {fs, f, g} : fs' = Closed(h)) /\ Return("DISK_ERR")
    <3>1. fs'.flag = FALSE
      BY <2>1, <2>4, <2>5 DEF Closed, FATFS
    <3> QED
      BY <2>5, <3>1, PlaceOfNoFile DEF Return, Usable
  <2>6. CASE /\ ~noSector
             /\ fs' = [g EXCEPT !.fptr = @ + Portion]
             /\ Stay
    <3> DEFINE m == fs.fptr \div SectorSize
    <3>1. /\ next.link = ClusterAt(disk, fs.org_clust, m \div fs.csize)
          /\ IsCluster(disk, next.link)
          /\ g.curr_clust = next.link
          /\ g.csect = (m % fs.csize) + 1
          /\ g.dsect = SectorInChain(disk, fs.org_clust, m)
      BY <2>1, <2>6, NextSectorIs
    <3> HIDE DEF f, g, noSector, m
    <3>2. /\ fs'.fptr = g.fptr + Portion /\ fs'.org_clust = g.org_clust
          /\ fs'.curr_clust = g.curr_clust /\ fs'.csect = g.csect
          /\ fs'.dsect = g.dsect
      BY <2>4, <2>6 DEF FATFS
    <3>3. SameVolume
      BY <2>1, <2>4, <2>6 DEF SameVolume, FATFS
    <3>4. /\ Portion \in Nat \ {0}
          /\ Portion <= SectorSize - (fs.fptr % SectorSize)
      <4>1. fs.fptr \in Nat /\ btr \in Nat \ {0}
        BY <2>1, FatFsTypes DEF TypeOK
      <4> QED
        BY <4>1, PortionIs
    <3>5. AtPosition'
      <4> DEFINE n == Portion
      <4>1. /\ n \in Nat \ {0} /\ n <= SectorSize - (fs.fptr % SectorSize)
            /\ fs'.fptr = fs.fptr + n /\ fs'.org_clust = fs.org_clust
        BY <2>4, <3>2, <3>4
      <4>2. LET k == fs.fptr \div SectorSize
            IN  /\ fs'.curr_clust = ClusterAt(disk, fs.org_clust, k \div fs.csize)
                /\ IsCluster(disk, fs'.curr_clust)
                /\ fs'.csect = (k % fs.csize) + 1
                /\ fs'.dsect = SectorInChain(disk, fs.org_clust, k)
        BY <3>1, <3>2 DEF m
      <4> HIDE DEF n
      <4> QED
        BY <2>1, <3>3, <4>1, <4>2, PlaceAfterBytes
    <3> QED
      BY <2>1, <2>6, <3>5 DEF PositionInv, Stay, GoTo
  <2> QED
    BY <2>2, <2>5, <2>6
<1> QED
  BY <1>1, <1>2 DEF ReadStep

LEMMA ForwardPlace ==
  ASSUME FileInv, PositionInv, SeekForward
  PROVE  fs.curr_clust = ClusterAt(disk, fs.org_clust,
           ((fs.fptr - 1) - ((fs.fptr - 1) % ClusterSize)) \div ClusterSize)
<1>1. /\ IsDisk(disk) /\ Describes /\ fs \in FATFS /\ fs.fptr \in Nat
      /\ fs.fptr > 0 /\ AtPosition
  BY SeekFacts DEF SeekForward, InLaterCluster, PositionInv
<1>2. /\ fs.csize \in Nat \ {0} /\ SectorSize \in Nat \ {0}
      /\ ClusterSize = fs.csize * SectorSize
  BY <1>1, ClusterSizeType, VolumeAssumption
<1> DEFINE a == fs.fptr - 1
<1>3. a \in Nat
  BY <1>1
<1>4. LastSector \div fs.csize = a \div ClusterSize
  <2>1. LastSector = a \div SectorSize
    BY DEF LastSector
  <2> HIDE DEF a
  <2> QED
    BY <1>2, <1>3, <2>1, DivDiv
<1>5. (a - (a % ClusterSize)) \div ClusterSize = a \div ClusterSize
  BY SeekForwardStart
<1> QED
  BY <1>1, <1>4, <1>5 DEF AtPosition

LEMMA SearchPlace ==
  ASSUME SameVolume, pc' = "follow", clst' = fs'.curr_clust,
         NEW start \in Nat, start % ClusterSize = 0, fs'.fptr = start,
         fs'.org_clust = fs.org_clust,
         fs'.curr_clust = ClusterAt(disk, fs.org_clust, start \div ClusterSize)
  PROVE  PositionInv'
<1>1. disk' = disk /\ ClusterSize' = ClusterSize
  BY DEF SameVolume, disk, ClusterSize
<1> QED
  BY <1>1 DEF PositionInv

(* One cluster further along the chain.                                    *)
LEMMA FollowPlace ==
  ASSUME FileInv, PositionInv, FollowChain,
         NEW next \in GetFat(clst), 1 < next.link, next.link < fs.max_clust
  PROVE  /\ next.link = ClusterAt(disk, fs.org_clust,
                                  (fs.fptr + ClusterSize) \div ClusterSize)
         /\ (fs.fptr + ClusterSize) % ClusterSize = 0
<1>1. /\ IsDisk(disk) /\ Describes /\ fs \in FATFS /\ fs.fptr \in Nat
      /\ fs.org_clust \in Nat /\ clst \in Nat /\ ClusterSize \in Nat \ {0}
  BY FileFacts, FatFsTypes, ClusterSizeType DEF FollowChain, TypeOK
<1>2. /\ fs.fptr % ClusterSize = 0
      /\ clst = ClusterAt(disk, fs.org_clust, fs.fptr \div ClusterSize)
  BY DEF FollowChain, PositionInv
<1> DEFINE C == ClusterSize
           q == fs.fptr \div C
<1>3. q \in Nat /\ fs.fptr = q * C
  <2>1. q \in Nat /\ fs.fptr = q * C + (fs.fptr % C)
    BY <1>1, DivideBy
  <2> DEFINE w == q * C
  <2>2. w \in Int
    BY <1>1, <2>1
  <2> HIDE DEF q, w
  <2>3. fs.fptr = w
    BY <1>2, <2>1, <2>2 DEF w
  <2> QED
    BY <2>1, <2>3 DEF w
<1> HIDE DEF q
<1>4. fs.fptr + C = (q + 1) * C + 0
  BY <1>1, <1>3
<1>5. (fs.fptr + C) \div C = q + 1 /\ (fs.fptr + C) % C = 0
  <2> DEFINE n == q + 1
  <2>1. n \in Int /\ 0 \in 0 .. C - 1 /\ C \in Nat \ {0}
    BY <1>1, <1>3
  <2> HIDE DEF n, C
  <2>2. (n * C + 0) \div C = n /\ (n * C + 0) % C = 0
    BY ONLY <2>1, DivUnique
  <2> QED
    BY <1>4, <2>2 DEF n
<1>6. IsCluster(disk, clst) /\ next.link = Entry(disk, clst)
  BY <1>1, GetFatIs
<1>7. ClusterAt(disk, fs.org_clust, q + 1) = Entry(disk, clst)
  BY <1>1, <1>2, <1>3, <1>6, ClusterAtNext DEF NextInChain, q
<1> QED
  BY <1>5, <1>6, <1>7

LEMMA SeekPlace ==
  ASSUME FileInv, PositionInv, SeekStep
  PROVE  PositionInv'
<1>1. CASE BeginSeekUnusable
  BY <1>1, PlaceOfSameFile DEF BeginSeekUnusable, handle, Return
<1>2. CASE SeekToStart
  <2>1. fs'.fptr = 0 /\ pc' = "idle"
    BY <1>2, SeekFacts DEF SeekToStart, FATFS, Return
  <2> QED
    BY <2>1 DEF PositionInv, AtPosition
<1>3. CASE SeekForward
  <2> DEFINE start == (fs.fptr - 1) - ((fs.fptr - 1) % ClusterSize)
  <2>1. /\ start \in Nat /\ start <= Target - 1 /\ start % ClusterSize = 0
    BY <1>3, SeekForwardStart
  <2>2. fs.curr_clust = ClusterAt(disk, fs.org_clust, start \div ClusterSize)
    BY <1>3, ForwardPlace
  <2>3. /\ pc = "seek" /\ Usable /\ Target > 0
        /\ Search(start, fs.curr_clust) /\ fs.curr_clust \in Nat
    BY <1>3, SeekFacts, FatFsTypes DEF SeekForward
  <2> HIDE DEF start
  <2>4. /\ SameVolume /\ fs'.fptr = start /\ fs'.curr_clust = fs.curr_clust
        /\ clst' = fs.curr_clust /\ fs'.org_clust = fs.org_clust
        /\ pc' = "follow"
    BY <2>1, <2>3, SearchKeeps
  <2> QED
    BY <2>1, <2>2, <2>4, SearchPlace
<1>4. CASE SeekFromStart
  <2>1. /\ pc = "seek" /\ Usable /\ Target > 0 /\ Target \in Nat
        /\ Search(0, fs.org_clust) /\ fs.org_clust \in Nat
        /\ IsDisk(disk) /\ ClusterSize \in Nat \ {0}
    BY <1>4, SeekFacts, FatFsTypes DEF SeekFromStart
  <2>2. /\ SameVolume /\ fs'.fptr = 0 /\ fs'.curr_clust = fs.org_clust
        /\ clst' = fs.org_clust /\ fs'.org_clust = fs.org_clust
        /\ pc' = "follow"
    BY <2>1, SearchKeeps
  <2>3. 0 % ClusterSize = 0 /\ 0 \div ClusterSize = 0
    BY <2>1
  <2>4. fs.org_clust = ClusterAt(disk, fs.org_clust, 0)
    BY <2>1, ClusterAtFirst
  <2> QED
    BY <2>2, <2>3, <2>4, SearchPlace
<1>5. CASE FollowChain
  <2>1. PICK next \in GetFat(clst) :
          \/ fs' = Closed(fs) /\ Return("DISK_ERR")
          \/ /\ 1 < next.link /\ next.link < fs.max_clust
             /\ clst' = next.link
             /\ fs' = [fs EXCEPT !.curr_clust = next.link,
                                 !.fptr = @ + ClusterSize]
             /\ Stay
    BY <1>5 DEF FollowChain
  <2>2. /\ fs \in FATFS /\ pc = "follow" /\ card' = card
        /\ ClusterSize \in Nat \ {0} /\ fs.fptr \in Nat
    BY <1>5, FileFacts, FatFsTypes, ClusterSizeType DEF FollowChain
  <2>3. CASE fs' = Closed(fs) /\ Return("DISK_ERR")
    <3>1. fs'.flag = FALSE /\ pc' = "idle"
      BY <2>2, <2>3 DEF Closed, FATFS, Return
    <3> QED
      BY <3>1, PlaceOfNoFile DEF Usable
  <2>4. CASE /\ 1 < next.link /\ next.link < fs.max_clust
             /\ clst' = next.link
             /\ fs' = [fs EXCEPT !.curr_clust = next.link,
                                 !.fptr = @ + ClusterSize]
             /\ Stay
    <3>1. /\ next.link = ClusterAt(disk, fs.org_clust,
                                   (fs.fptr + ClusterSize) \div ClusterSize)
          /\ (fs.fptr + ClusterSize) % ClusterSize = 0
      BY <1>5, <2>4, FollowPlace
    <3>2. SameVolume
      BY <2>2, <2>4 DEF SameVolume, FATFS
    <3>3. /\ fs'.curr_clust = next.link /\ fs'.fptr = fs.fptr + ClusterSize
          /\ fs'.org_clust = fs.org_clust /\ pc' = "follow"
          /\ fs.fptr + ClusterSize \in Nat
      BY <2>2, <2>4 DEF FATFS, Stay, GoTo
    <3> QED
      BY <2>4, <3>1, <3>2, <3>3, SearchPlace
  <2> QED
    BY <2>1, <2>3, <2>4
<1>6. CASE SeekDone
  <2> DEFINE f == [fs EXCEPT !.fptr = @ + ofs]
             n == ofs \div SectorSize
             s == Clust2Sect(clst)
  <2>1. /\ TypeOK /\ IsDisk(disk) /\ Describes /\ fs \in FATFS
        /\ pc = "follow" /\ fs.fptr \in Nat /\ ofs \in Nat \ {0}
        /\ fs.csize \in Nat \ {0} /\ ClusterSize \in Nat \ {0}
        /\ ClusterSize = fs.csize * SectorSize /\ ofs <= ClusterSize
        /\ fs.org_clust \in Nat /\ clst \in Nat
        /\ UNCHANGED <<card, fatFs, opened, got, failed>>
    BY <1>6, FileFacts, FatFsTypes, ClusterSizeType, SMTT(30) DEF SeekDone, TypeOK
  <2>2. /\ fs.fptr % ClusterSize = 0 /\ clst = fs.curr_clust
        /\ clst = ClusterAt(disk, fs.org_clust, fs.fptr \div ClusterSize)
    BY <2>1 DEF PositionInv
  <2>3. /\ pc' = "idle"
        /\ \/ fs' = Closed(f)
           \/ /\ s # 0
              /\ fs' = IF ofs % SectorSize = 0 THEN [f EXCEPT !.csect = n]
                       ELSE [f EXCEPT !.csect = n + 1, !.dsect = s + n]
    BY <1>6 DEF SeekDone, Return
  <2>4. CASE fs' = Closed(f)
    <3>1. fs'.flag = FALSE
      BY <2>1, <2>4 DEF Closed, FATFS
    <3> QED
      BY <2>3, <3>1, PlaceOfNoFile DEF Usable
  <2>5. CASE /\ s # 0
             /\ fs' = IF ofs % SectorSize = 0 THEN [f EXCEPT !.csect = n]
                      ELSE [f EXCEPT !.csect = n + 1, !.dsect = s + n]
    <3>1. SameVolume
      BY <2>1, <2>5 DEF SameVolume, FATFS
    <3>2. /\ fs'.fptr = fs.fptr + ofs /\ fs'.org_clust = fs.org_clust
          /\ fs'.curr_clust = fs.curr_clust
          /\ fs'.csect = IF ofs % SectorSize = 0 THEN n ELSE n + 1
          /\ ofs % SectorSize # 0 => fs'.dsect = s + n
      BY <2>1, <2>5 DEF FATFS
    <3> DEFINE q == fs.fptr \div ClusterSize
               last == (fs.fptr + ofs - 1) \div SectorSize
    <3>3. /\ q \in Nat /\ last \div fs.csize = q
          /\ last % fs.csize = (ofs - 1) \div SectorSize
          /\ (fs.fptr + ofs) % SectorSize = ofs % SectorSize
      <4>1. EndsAt(SectorSize, fs.csize, ClusterSize, fs.fptr, ofs)
        BY <2>1, <2>2, VolumeAssumption, TargetPlace
      <4> QED
        BY <4>1 DEF EndsAt
    <3>4. /\ (ofs - 1) \div SectorSize \in Nat
          /\ ofs % SectorSize # 0 => (ofs - 1) \div SectorSize = n
          /\ ofs % SectorSize = 0 => n = (ofs - 1) \div SectorSize + 1
      BY <2>1, VolumeAssumption, ByteBefore
    <3>5. /\ fs'.csect = (last % fs.csize) + 1
          /\ (fs.fptr + ofs) % SectorSize # 0 =>
               fs'.dsect = s + (last % fs.csize)
      <4> HIDE DEF last, q, s, n
      <4> QED
        BY <3>2, <3>3, <3>4
    <3>6. LastSector' = last
      <4>1. LastSector' = (fs'.fptr - 1) \div SectorSize
        BY DEF LastSector
      <4>2. fs'.fptr - 1 = fs.fptr + ofs - 1
        BY <2>1, <3>2
      <4> QED
        BY <4>1, <4>2
    <3>7. /\ IsCluster(disk, clst)
          /\ s = FirstSector(disk) + DataStart(Bpb(disk))
                   + (clst - 2) * Bpb(disk).csize
      BY <2>1, <2>5, Clust2SectIs
    <3>8. s + (last % fs.csize) = SectorInChain(disk, fs.org_clust, last)
      <4>1. fs.csize = Bpb(disk).csize
        BY <2>1 DEF Describes
      <4> DEFINE first == FirstSector(disk) + DataStart(Bpb(disk))
                 r == last % fs.csize
                 d == (clst - 2) * Bpb(disk).csize
      <4>2. SectorInChain(disk, fs.org_clust, last) = first + r + d
        BY <2>2, <3>3, <4>1 DEF SectorInChain
      <4>3. first \in Int
        BY <2>1, VolumeFacts, BpbFacts DEF Describes
      <4>4. r \in Int
        BY <3>3, <3>4
      <4>5. d \in Int
        <5>1. clst - 2 \in Int /\ Bpb(disk).csize \in Int
          BY <2>1, <4>1
        <5> QED
          BY <5>1
      <4> HIDE DEF first, r, d
      <4> QED
        BY <3>7, <4>2, <4>3, <4>4, <4>5 DEF first, r, d
    <3>9. disk' = disk /\ fs'.csize = fs.csize
      BY <3>1 DEF SameVolume, disk
    <3>10. AtPosition'
      <4> HIDE DEF last, q, s, n
      <4>1. clst = ClusterAt(disk, fs.org_clust, last \div fs.csize)
        BY <2>2, <3>3 DEF q
      <4> QED
        BY <2>2, <3>2, <3>5, <3>6, <3>7, <3>8, <3>9, <4>1 DEF AtPosition
    <3> QED
      BY <2>3, <3>10 DEF PositionInv
  <2> QED
    BY <2>3, <2>4, <2>5
<1> QED
  BY <1>1, <1>2, <1>3, <1>4, <1>5, <1>6 DEF SeekStep

LEMMA PositionNext == FileInv /\ PositionInv /\ [Next]_vars => PositionInv'
<1> SUFFICES ASSUME FileInv, PositionInv, [Next]_vars PROVE PositionInv'
  OBVIOUS
<1>1. CASE UNCHANGED vars
  <2>1. SameVolume /\ ClusterSize' = ClusterSize /\ disk' = disk
    BY <1>1 DEF vars, handle, SameVolume, ClusterSize, disk
  <2>2. AtPosition => AtPosition'
    BY <1>1, <2>1, PlaceKept DEF vars, handle
  <2> QED
    BY <1>1, <2>1, <2>2 DEF vars, handle, locals, seekVars, PositionInv, Usable
<1>2. CASE \E c \in Calls : Call(c)
  <2>1. PICK c \in Calls : Call(c)
    BY <1>2
  <2> QED
    BY <2>1, CallTypes, PlaceOfSameFile DEF Call, handle
<1>3. CASE Step
  BY <1>3, MountPlace, OpenPlace, ReadPlace, SeekPlace DEF Step
<1> QED
  BY <1>1, <1>2, <1>3 DEF Next

LEMMA PositionHolds ==
  ASSUME NoMisleadingCard
  PROVE  Spec => [](FileInv /\ PositionInv)
<1>1. Init => PositionInv
  BY DEF Init, PositionInv, Usable
<1>2. FileInv /\ [Next]_vars => FileInv'
  BY NextKeeps
<1> QED
  BY <1>1, <1>2, InitHolds, PositionNext, PTL DEF Spec

(* Between calls, and whatever came before - reads that end anywhere,      *)
(* seeks forward and back, failed transfers, other files and other volumes *)
(* - the cluster, the sector and the number of sectors begun that pf_read  *)
(* and pf_lseek remember are those of the open file's position.            *)
THEOREM PositionKept ==
  ASSUME NoMisleadingCard
  PROVE  Spec => []ChainPosition
<1>1. PositionInv => ChainPosition
  BY DEF PositionInv, AtPosition, LastSector, ChainPosition
<1> QED
  BY <1>1, PositionHolds, PTL
=============================================================================
