------------------------ MODULE PetitFatFile_proofs ------------------------
(***************************************************************************)
(* Petit FatFs implements files of bytes: a refinement of ByteFile, for    *)
(* every card, every size of sector, cluster, table and name, and any      *)
(* sequence of calls and failures.                                         *)
(***************************************************************************)
EXTENDS PetitFat_proofs

-----------------------------------------------------------------------------
(* The invariant.                                                          *)

(* A call in progress, and what it has left alone so far.                  *)
CallInv ==
  /\ pc = "idle" <=> call = Idle
  /\ pc # "idle" => answer = "none"
  /\ pc \notin {"idle", "chunk"} => got = <<>>
  /\ pc \notin {"segment", "find"} => dj = NoDir
  /\ failed => pc \in {"idle", "table", "bpb"}
  /\ pc \in {"table", "bpb"} => call.op = "mount"
  /\ pc = "table" /\ ~failed => ~disk[0].fat

(* Where a path leads to, as far as its first n names.                     *)
Names == Paths[call.arg].names

Reached(n) == Resolved(disk, SubSeq(Names, 1, n))

(* The path behind them.                                                   *)
Behind(n) ==
  FlattenSeq([m \in 1 .. Len(Names) - n |-> <<"/">> \o Names[n + m]])

(* A name in the form of directories.                                      *)
DirForm(text) == CreateName(text \o <<"nul">>, Len(text) + 1)

(* The directory that is searched for name n + 1.                          *)
SearchIn(n) ==
  /\ Reached(n).kind = "dir"
  /\ dj.sclust = Reached(n).clust

SegmentAt(n) == SearchIn(n) /\ path = Names[n + 1] \o Behind(n + 1)

(* A DIR object at an entry of its directory.                              *)
EntryPlace(d) ==
  /\ DirHas(disk, d.sclust, d.index)
  /\ d.sect = DirSector(disk, d.sclust, d.index)
  /\ d.clust = IF d.sclust = 0 THEN 0
               ELSE ClusterAt(disk, d.sclust,
                              (d.index \div DirSize) \div fs.csize)

(* None of the entries before this one has the name.                       *)
NoneBefore(text) ==
  \A j \in 0 .. dj.index - 1 :
    /\ DirHas(disk, dj.sclust, j)
    /\ DirEntry(disk, dj.sclust, j).kind # "end"
    /\ j \notin Named(disk, dj.sclust, text)

EntryAt(text) == EntryPlace(dj) /\ NoneBefore(text)

FindAt(n) ==
  /\ SearchIn(n)
  /\ dj.fn = DirForm(Names[n + 1])
  /\ dj.last <=> n + 1 = Len(Names)
  /\ ~dj.last => path = Names[n + 2] \o Behind(n + 2)
  /\ EntryAt(Names[n + 1])

SearchInv ==
  /\ pc = "segment" => \E n \in 0 .. Len(Names) - 1 : SegmentAt(n)
  /\ pc = "find" => \E n \in 0 .. Len(Names) - 1 : FindAt(n)

(* The open file is the one that was opened.                               *)
OpenedInv ==
  Usable => /\ opened \in DOMAIN Paths
            /\ IsFile(disk, Paths[opened].names)
            /\ LET e == Resolved(disk, Paths[opened].names)
               IN  fs.org_clust = e.clust /\ fs.fsize = e.size

(* The n-th byte of the open file.                                         *)
ByteOf(n) ==
  <<SectorInChain(disk, fs.org_clust, (n - 1) \div SectorSize),
    (n - 1) % SectorSize>>

(* What was read are the bytes before the position, and what is left to    *)
(* read or to go ends where the call is to end.                            *)
DataInv ==
  /\ pc = "chunk" =>
       LET at == fs.fptr - Len(got)
       IN  /\ at \in Nat
           /\ fs.fptr + btr = at + File!Least(call.arg, fs.fsize - at)
           /\ got = [n \in 1 .. Len(got) |-> ByteOf(at + n)]
  /\ pc = "follow" => fs.fptr + ofs = Target

RefInv == CallInv /\ SearchInv /\ OpenedInv /\ DataInv

-----------------------------------------------------------------------------
(* Sequences.                                                              *)

LEMMA ConcatIs ==
  ASSUME NEW S, NEW s \in Seq(S), NEW t \in Seq(S), NEW m, NEW n,
         m = Len(s), n = Len(t)
  PROVE  /\ m \in Nat /\ n \in Nat
         /\ s \o t \in Seq(S) /\ Len(s \o t) = m + n
         /\ \A i \in 1 .. m : (s \o t)[i] = s[i]
         /\ \A i \in 1 .. n : (s \o t)[m + i] = t[i]
<1>1. m \in Nat /\ n \in Nat
  OBVIOUS
<1>2. /\ s \o t \in Seq(S) /\ Len(s \o t) = m + n
      /\ \A i \in 1 .. m + n : (s \o t)[i] = IF i <= m THEN s[i] ELSE t[i - m]
  BY ConcatProperties
<1>3. ASSUME NEW i \in 1 .. m PROVE (s \o t)[i] = s[i]
  <2>1. i \in 1 .. m + n /\ i <= m
    BY <1>1
  <2> QED
    BY <1>2, <2>1
<1>4. ASSUME NEW i \in 1 .. n PROVE (s \o t)[m + i] = t[i]
  <2> DEFINE j == m + i
  <2>1. j \in 1 .. m + n /\ ~(j <= m) /\ j - m = i
    BY <1>1
  <2> HIDE DEF j
  <2>2. (s \o t)[j] = t[j - m]
    BY <1>2, <2>1
  <2> QED
    BY <2>1, <2>2 DEF j
<1> QED
  BY <1>1, <1>2, <1>3, <1>4

LEMMA SingleIs ==
  ASSUME NEW S, NEW c \in S
  PROVE  <<c>> \in Seq(S) /\ Len(<<c>>) = 1 /\ <<c>>[1] = c
OBVIOUS

-----------------------------------------------------------------------------
(* Names.                                                                  *)

LEMMA MaxIs ==
  ASSUME NEW m \in Nat, NEW S \in SUBSET (0 .. m), S # {}
  PROVE  Max(S) \in S /\ \A n \in S : n <= Max(S)
<1> DEFINE T == {k \in Nat : k <= m /\ m - k \in S}
<1>1. PICK n \in S : TRUE
  OBVIOUS
<1>2. n \in 0 .. m /\ m - n \in Nat /\ m - (m - n) = n
  OBVIOUS
<1>3. m - n \in T
  BY <1>2
<1>4. PICK k \in T : \A j \in T : k <= j
  <2>1. T \in SUBSET Nat /\ T # {}
    BY <1>3
  <2> HIDE DEF T
  <2> QED
    BY <2>1, LeastOfSet
<1> DEFINE x == m - k
<1>5. x \in S /\ k \in Nat /\ x \in Nat
  BY <1>4
<1>6. ASSUME NEW y \in S PROVE x >= y
  <2>1. y \in 0 .. m /\ m - y \in Nat /\ m - (m - y) = y
    OBVIOUS
  <2>2. m - y \in T
    BY <2>1
  <2>3. k <= m - y
    BY <1>4, <2>2
  <2> QED
    BY <1>5, <2>1, <2>3
<1> HIDE DEF x, T
<1>7. \E z \in S : \A y \in S : z >= y
  BY <1>5, <1>6
<1>8. Max(S) \in S /\ \A y \in S : Max(S) >= y
  BY <1>7 DEF Max
<1>9. ASSUME NEW y \in S PROVE y <= Max(S)
  <2>1. y \in Nat /\ Max(S) \in Nat /\ Max(S) >= y
    <3>1. Max(S) \in 0 .. m /\ y \in 0 .. m
      BY <1>8
    <3> QED
      BY <1>8, <3>1
  <2> DEFINE z == Max(S)
  <2>2. z \in Nat /\ z >= y
    BY <2>1
  <2> HIDE DEF z
  <2>3. y <= z
    BY <2>1, <2>2
  <2> QED
    BY <2>3 DEF z
<1> QED
  BY <1>8, <1>9

(* Where the blanks at the end begin.                                      *)
BlankFrom(s, m) ==
  /\ m \in 0 .. Len(s)
  /\ m # 0 => s[m] # " "
  /\ \A n \in m + 1 .. Len(s) : s[n] = " "

LEMMA BlankFromUnique ==
  ASSUME NEW s, Len(s) \in Nat, NEW m, NEW n,
         BlankFrom(s, m), BlankFrom(s, n)
  PROVE  m = n
<1>1. PICK k \in Nat : k = Len(s)
  OBVIOUS
<1>2. m \in 0 .. k /\ n \in 0 .. k
  BY <1>1 DEF BlankFrom
<1>3. ASSUME m < n PROVE FALSE
  <2>1. n \in m + 1 .. k /\ n # 0
    BY <1>2, <1>3
  <2> QED
    BY <1>1, <2>1 DEF BlankFrom
<1>4. ASSUME n < m PROVE FALSE
  <2>1. m \in n + 1 .. k /\ m # 0
    BY <1>2, <1>4
  <2> QED
    BY <1>1, <2>1 DEF BlankFrom
<1> QED
  BY <1>2, <1>3, <1>4

LEMMA TrimmedIs ==
  ASSUME NEW s \in Seq(Char)
  PROVE  \E m : BlankFrom(s, m) /\ Trimmed(s) = SubSeq(s, 1, m)
<1>1. PICK k \in Nat : k = Len(s) /\ DOMAIN s = 1 .. k
  OBVIOUS
<1> DEFINE S == {0} \cup {n \in 1 .. k : s[n] # " "}
<1>2. S \in SUBSET (0 .. k) /\ S # {}
  <2>1. 0 \in S /\ 0 \in 0 .. k
    BY SMT
  <2>2. ASSUME NEW n \in 1 .. k PROVE n \in 0 .. k
    BY SMT
  <2>3. S \subseteq 0 .. k
    BY <2>1, <2>2, Zenon
  <2> QED
    BY <2>1, <2>3, Zenon
<1>3. PICK m : m \in S /\ m = Max(S) /\ \A n \in S : n <= m
  <2> HIDE DEF S
  <2> QED
    BY <1>2, MaxIs
<1>4. Trimmed(s) = SubSeq(s, 1, m)
  BY <1>1, <1>3 DEF Trimmed
<1>5. m \in 0 .. k
  BY <1>2, <1>3
<1>6. m # 0 => s[m] # " "
  BY <1>3, Zenon
<1>7. ASSUME NEW n \in m + 1 .. k PROVE s[n] = " "
  <2>1. n \in 1 .. k /\ ~(n <= m)
    <3>1. m \in Nat
      BY ONLY <1>5, k \in Nat, SMT
    <3> HIDE DEF S
    <3> QED
      BY ONLY <3>1, n \in m + 1 .. k, k \in Nat, SMT
  <2>2. n \notin S
    BY <1>3, <2>1, Zenon
  <2> QED
    BY <2>1, <2>2, Zenon
<1> QED
  BY <1>1, <1>4, <1>5, <1>6, <1>7 DEF BlankFrom

LEMMA TrimmedOf ==
  ASSUME NEW s \in Seq(Char), NEW m, BlankFrom(s, m)
  PROVE  Trimmed(s) = SubSeq(s, 1, m)
<1>1. Len(s) \in Nat
  OBVIOUS
<1> QED
  BY <1>1, TrimmedIs, BlankFromUnique

LEMMA CapitalKeeps ==
  ASSUME NEW char
  PROVE  /\ Capital(char) = " " <=> char = " "
         /\ Capital(char) = "." <=> char = "."
<1>1. DOMAIN Letters = {"a", "b", "d", "f", "h"}
  BY DEF Letters
<1>2. CASE char \in {"a", "b", "d", "f", "h"}
  <2>1. Capital(char) = Letters[char]
    BY <1>1, <1>2 DEF Capital
  <2>2. Letters[char] \in {"A", "B", "D", "F", "H"}
    BY <1>2 DEF Letters
  <2> QED
    BY <1>2, <2>1, <2>2
<1>3. CASE char \notin {"a", "b", "d", "f", "h"}
  BY <1>1, <1>3 DEF Capital
<1> QED
  BY <1>2, <1>3

(* What create_name makes of a name with its dot, or its end, at p.        *)
NameForm(text, p) ==
  [n \in 1 .. NameLen |->
    IF n <= BaseLen
      THEN IF n < p THEN Capital(text[n]) ELSE " "
      ELSE IF p + (n - BaseLen) <= Len(text)
           THEN Capital(text[p + (n - BaseLen)]) ELSE " "]

Dotted(text, p, k) ==
  /\ k \in Nat /\ k = Len(text) /\ DOMAIN text = 1 .. k
  /\ p \in Nat /\ 2 <= p /\ p <= k + 1 /\ p <= BaseLen + 1
  /\ k - p <= NameLen - BaseLen
  /\ p <= k => text[p] = "."
  /\ \A i \in 1 .. k : /\ text[i] \in Char
                       /\ text[i] # " " /\ text[i] # "/"
                       /\ text[i] # "nul"
                       /\ i # p => text[i] # "."

LEMMA DotFacts ==
  ASSUME NEW text \in Seq(Char), NEW p, DotAt(text, p)
  PROVE  \E k : Dotted(text, p, k)
<1>1. PICK k \in Nat : k = Len(text) /\ DOMAIN text = 1 .. k
  OBVIOUS
<1>2. p \in Nat /\ 2 <= p /\ p <= k + 1 /\ p <= BaseLen + 1
  <2>1. p \in 2 .. BaseLen + 1 /\ p <= k + 1
    BY <1>1 DEF DotAt
  <2> QED
    BY <2>1, VolumeAssumption
<1>3. k - p <= NameLen - BaseLen /\ (p <= k => text[p] = ".")
  BY <1>1 DEF DotAt
<1>4. ASSUME NEW i \in 1 .. k
      PROVE  /\ text[i] \in Char
             /\ text[i] # " " /\ text[i] # "/" /\ text[i] # "nul"
             /\ i # p => text[i] # "."
  <2>1. text[i] \in Char
    BY <1>1
  <2>2. CASE i = p
    <3>1. text[i] = "."
      BY <1>2, <1>3, <2>2
    <3> QED
      BY <2>1, <2>2, <3>1
  <2>3. CASE i # p
    <3>1. i \in DOMAIN text \ {p}
      BY <1>1, <2>3
    <3>2. text[i] \notin {" ", ".", "/"}
      BY <3>1 DEF DotAt
    <3>3. "nul" \notin Char
      BY CharAssumption
    <3> QED
      BY <2>1, <3>2, <3>3
  <2> QED
    BY <2>2, <2>3
<1> QED
  BY <1>1, <1>2, <1>3, <1>4 DEF Dotted

LEMMA DotsAre ==
  ASSUME NEW text \in Seq(Char), NEW p, DotAt(text, p),
         NEW long, \A i \in 1 .. Len(text) : long[i] = text[i],
         NEW k \in 1 .. Len(text) + 1
  PROVE  Dots(long, k) = IF p < k THEN {p} ELSE {}
<1>0. PICK m : Dotted(text, p, m)
  BY DotFacts
<1>1. /\ m \in Nat /\ m = Len(text)
      /\ p \in Nat /\ 2 <= p /\ p <= m + 1
      /\ p <= m => text[p] = "."
      /\ \A i \in 1 .. m : i # p => text[i] # "."
  BY <1>0 DEF Dotted
<1>2. ASSUME NEW j \in 1 .. k - 1 PROVE long[j] = "." <=> j = p
  BY <1>1
<1>3. Dots(long, k) = {j \in 1 .. k - 1 : j = p}
  BY <1>2 DEF Dots
<1>4. p < k <=> p \in 1 .. k - 1
  BY <1>1
<1> QED
  BY <1>3, <1>4

LEMMA CreateNameIs ==
  ASSUME NEW text \in Seq(Char), NEW p, DotAt(text, p),
         NEW long, \A i \in 1 .. Len(text) : long[i] = text[i]
  PROVE  CreateName(long, Len(text) + 1) = NameForm(text, p)
<1>0. PICK m : Dotted(text, p, m)
  BY DotFacts
<1>1. /\ m \in Nat /\ m = Len(text)
      /\ p \in Nat /\ 2 <= p /\ p <= m + 1 /\ p <= BaseLen + 1
  BY <1>0 DEF Dotted
<1> DEFINE si == m + 1
           dot == Min(Dots(long, si) \cup {si})
           from(n) == IF n <= BaseLen THEN n ELSE dot + n - BaseLen
           upTo(n) == IF n <= BaseLen THEN dot ELSE si
<1>2. Dots(long, si) = IF p < si THEN {p} ELSE {}
  <2>1. si \in 1 .. Len(text) + 1
    BY <1>1
  <2> QED
    BY <2>1, DotsAre
<1>3. dot = p
  <2> DEFINE S == Dots(long, si) \cup {si}
  <2>1. S \in SUBSET Nat /\ S # {} /\ p \in S /\ \A x \in S : x = p \/ p < x
    BY <1>1, <1>2
  <2> HIDE DEF S
  <2>2. PICK x \in S : x = Min(S) /\ x <= p
    BY <2>1, MinIs
  <2>3. x \in Nat /\ (x = p \/ p < x)
    BY <2>1
  <2>4. x = p
    BY <1>1, <2>2, <2>3
  <2> QED
    BY <2>2, <2>4 DEF S
<1>4. CreateName(long, si) = [n \in 1 .. NameLen |->
        IF from(n) < upTo(n) THEN ToUpper(long[from(n)]) ELSE " "]
  BY DEF CreateName
<1> HIDE DEF dot
<1>5. ASSUME NEW n \in 1 .. NameLen
      PROVE  (IF from(n) < upTo(n) THEN ToUpper(long[from(n)]) ELSE " ")
               = NameForm(text, p)[n]
  <2>1. NameForm(text, p)[n] =
          IF n <= BaseLen
            THEN IF n < p THEN Capital(text[n]) ELSE " "
            ELSE IF p + (n - BaseLen) <= m
                 THEN Capital(text[p + (n - BaseLen)]) ELSE " "
    BY <1>1 DEF NameForm
  <2>2. n \in Nat \ {0} /\ BaseLen \in Nat
    BY VolumeAssumption
  <2>3. CASE n <= BaseLen
    <3>1. n < p => n \in 1 .. m
      BY <1>1, <2>2
    <3> QED
      BY <1>1, <1>3, <2>1, <2>2, <2>3, <3>1 DEF ToUpper
  <2>4. CASE ~(n <= BaseLen)
    <3> DEFINE i == p + (n - BaseLen)
    <3>1. i \in Nat \ {0} /\ from(n) = i /\ upTo(n) = m + 1
      BY <1>1, <1>3, <2>2, <2>4
    <3> HIDE DEF i
    <3>2. i <= m <=> i < m + 1
      BY <1>1, <3>1
    <3>3. i <= m => long[i] = text[i]
      BY <1>1, <3>1
    <3> QED
      BY <2>1, <2>4, <3>1, <3>2, <3>3 DEF ToUpper, i
  <2> QED
    BY <2>3, <2>4
<1>6. CreateName(long, si) = NameForm(text, p)
  <2>1. NameForm(text, p) = [n \in 1 .. NameLen |-> NameForm(text, p)[n]]
    BY DEF NameForm
  <2> QED
    BY <1>4, <1>5, <2>1
<1> QED
  BY <1>1, <1>6

LEMMA DirFormIs ==
  ASSUME NEW text \in Seq(Char), NEW p, DotAt(text, p)
  PROVE  DirForm(text) = NameForm(text, p)
<1>1. \A i \in 1 .. Len(text) : (text \o <<"nul">>)[i] = text[i]
  OBVIOUS
<1> QED
  BY <1>1, CreateNameIs DEF DirForm

(* A name ends at the character behind it.                                 *)
LEMMA FirstBreakIs ==
  ASSUME NEW text \in Seq(Char), NEW p, DotAt(text, p),
         NEW long, \A i \in 1 .. Len(text) : long[i] = text[i],
         long[Len(text) + 1] \in {"nul", "/"},
         NEW si \in Nat \ {0}, FirstBreak(long, si)
  PROVE  si = Len(text) + 1
<1>0. PICK m : Dotted(text, p, m)
  BY DotFacts
<1>1. /\ m \in Nat /\ p \in Nat /\ 2 <= p /\ p <= m + 1
      /\ p <= BaseLen + 1 /\ m - p <= NameLen - BaseLen
  BY <1>0 DEF Dotted
<1>7. m = Len(text)
  BY <1>0 DEF Dotted
<1>8. ASSUME NEW i \in 1 .. m
      PROVE  /\ text[i] # " " /\ text[i] # "/" /\ text[i] # "nul"
             /\ i # p => text[i] # "."
  BY <1>0 DEF Dotted
<1>2. Breaks(long, m + 1)
  BY <1>7 DEF Breaks, IsEnd
<1>3. ASSUME NEW k \in 1 .. m PROVE ~Breaks(long, k)
  <2>1. long[k] = text[k]
    BY <1>7
  <2>2. ~IsEnd(long[k]) /\ long[k] # "/"
    BY <1>8, <2>1 DEF IsEnd
  <2>3. Dots(long, k) = IF p < k THEN {p} ELSE {}
    <3>1. k \in 1 .. m + 1
      BY ONLY <1>1, k \in 1 .. m, SMT
    <3> QED
      BY <1>7, <3>1, DotsAre
  <2>4. CASE long[k] = "."
    <3>1. k = p
      BY <1>8, <2>1, <2>4
    <3>2. Dots(long, k) = {}
      <4>1. ~(p < k)
        BY ONLY <1>1, <3>1, SMT
      <4> QED
        BY <2>3, <4>1, Zenon
    <3> QED
      BY <2>2, <2>4, <3>2 DEF Breaks
  <2>5. CASE long[k] # "."
    <3>1. ~(Room(long, k) <= 0)
      <4>1. CASE p < k
        <5>1. Dots(long, k) = {p}
          BY <2>3, <4>1
        <5>2. Min({p}) = p
          <6> DEFINE S == {p}
          <6>1. S \in SUBSET Nat /\ S # {}
            BY <1>1
          <6>2. Min(S) \in S
            <7> HIDE DEF S
            <7> QED
              BY <6>1, MinIs
          <6> QED
            BY <6>2
        <5>3. Room(long, k) = NameLen - BaseLen - (k - 1 - p)
          BY <5>1, <5>2 DEF Room
        <5>4. NameLen \in Nat /\ BaseLen \in Nat
          BY VolumeAssumption
        <5>5. m \in Nat /\ p \in Nat /\ m - p <= NameLen - BaseLen /\ k <= m
          BY ONLY <1>1, k \in 1 .. m, SMT
        <5> QED
          BY ONLY <4>1, <5>3, <5>4, <5>5, k \in 1 .. m, SMT
      <4>2. CASE ~(p < k)
        <5>1. Room(long, k) = BaseLen - (k - 1)
          BY <2>3, <4>2 DEF Room
        <5>2. BaseLen \in Nat
          BY VolumeAssumption
        <5>3. k < p
          <6>1. k # p
            <7>1. p <= m => text[p] = "."
              BY <1>0 DEF Dotted
            <7>2. k = p => p <= m
              BY ONLY k \in 1 .. m, <1>1, SMT
            <7> QED
              BY <2>1, <2>5, <7>1, <7>2, Zenon
          <6> QED
            BY <1>1, <4>2, <6>1
        <5>4. m \in Nat /\ p \in Nat /\ p <= BaseLen + 1
          BY <1>1
        <5> QED
          BY ONLY <5>1, <5>2, <5>3, <5>4, k \in 1 .. m, SMT
      <4> QED
        BY <4>1, <4>2
    <3> QED
      BY <2>2, <2>5, <3>1 DEF Breaks
  <2> QED
    BY <2>4, <2>5
<1>4. Breaks(long, si) /\ \A k \in 1 .. si - 1 : ~Breaks(long, k)
  BY DEF FirstBreak
<1>5. ~(si <= m)
  <2>1. si <= m => si \in 1 .. m
    BY <1>1
  <2> QED
    BY <1>3, <1>4, <2>1
<1>6. ~(m + 1 < si)
  <2>1. m + 1 < si => m + 1 \in 1 .. si - 1
    BY <1>1
  <2> QED
    BY <1>2, <1>4, <2>1
<1>9. si = m + 1
  BY <1>1, <1>5, <1>6
<1> QED
  BY <1>7, <1>9

(* The parts of a name in a directory: b characters, and e behind the dot. *)
Parts(name, b, e) ==
  /\ b \in Nat /\ b <= BaseLen
  /\ e \in Nat /\ e <= NameLen - BaseLen
  /\ b # 0 => name[b] # " "
  /\ e # 0 => name[BaseLen + e] # " "
  /\ \A n \in 1 .. BaseLen : b < n => name[n] = " "
  /\ \A i \in 1 .. NameLen - BaseLen : e < i => name[BaseLen + i] = " "

BasePart(name) == SubSeq(name, 1, BaseLen)
ExtPart(name) == SubSeq(name, BaseLen + 1, NameLen)

LEMMA PartFacts ==
  ASSUME NEW name \in [1 .. NameLen -> Char]
  PROVE  /\ BasePart(name) \in Seq(Char) /\ Len(BasePart(name)) = BaseLen
         /\ \A i \in 1 .. BaseLen : BasePart(name)[i] = name[i]
         /\ ExtPart(name) \in Seq(Char)
         /\ Len(ExtPart(name)) = NameLen - BaseLen
         /\ \A i \in 1 .. NameLen - BaseLen :
              ExtPart(name)[i] = name[BaseLen + i]
<1>1. BaseLen \in Nat /\ NameLen \in Nat /\ BaseLen < NameLen
  BY VolumeAssumption
<1>2. name \in Seq(Char) /\ Len(name) = NameLen
  BY <1>1
<1>3. \A i \in 1 .. BaseLen : name[i] \in Char
  BY <1>1
<1>4. \A i \in BaseLen + 1 .. NameLen : name[i] \in Char
  BY <1>1
<1>5. /\ BasePart(name) \in Seq(Char) /\ Len(BasePart(name)) = BaseLen
      /\ \A i \in 1 .. BaseLen : BasePart(name)[i] = name[i]
  BY <1>1, <1>2, <1>3, SubSeqProperties DEF BasePart
<1>6. /\ ExtPart(name) \in Seq(Char)
      /\ Len(ExtPart(name)) = NameLen - BaseLen
      /\ \A i \in 1 .. NameLen - BaseLen :
           ExtPart(name)[i] = name[BaseLen + i]
  BY <1>1, <1>2, <1>4, SubSeqProperties DEF ExtPart
<1> QED
  BY <1>5, <1>6

LEMMA PartsAre ==
  ASSUME NEW name \in [1 .. NameLen -> Char], NEW b, NEW e
  PROVE  Parts(name, b, e) <=>
           BlankFrom(BasePart(name), b) /\ BlankFrom(ExtPart(name), e)
<1>1. BaseLen \in Nat /\ NameLen \in Nat /\ BaseLen < NameLen
  BY VolumeAssumption
<1> DEFINE B == BasePart(name)
           E == ExtPart(name)
           w == NameLen - BaseLen
<1>2. /\ Len(B) = BaseLen /\ \A i \in 1 .. BaseLen : B[i] = name[i]
      /\ Len(E) = w /\ \A i \in 1 .. w : E[i] = name[BaseLen + i]
  BY PartFacts
<1>3. w \in Nat
  BY <1>1
<1> HIDE DEF B, E, w
<1>4. BlankFrom(B, b) <=> /\ b \in Nat /\ b <= BaseLen
                          /\ b # 0 => name[b] # " "
                          /\ \A n \in 1 .. BaseLen : b < n => name[n] = " "
  <2>1. b \in 0 .. Len(B) <=> b \in Nat /\ b <= BaseLen
    BY <1>1, <1>2
  <2>2. SUFFICES ASSUME b \in Nat, b <= BaseLen
                 PROVE  BlankFrom(B, b) <=>
                          /\ b # 0 => name[b] # " "
                          /\ \A n \in 1 .. BaseLen : b < n => name[n] = " "
    BY <2>1 DEF BlankFrom
  <2>3. b # 0 => B[b] = name[b]
    BY <1>1, <1>2, <2>2
  <2>4. ASSUME NEW n PROVE n \in b + 1 .. Len(B) <=> n \in 1 .. BaseLen /\ b < n
    BY <1>1, <1>2, <2>2
  <2> QED
    BY <1>2, <2>1, <2>2, <2>3, <2>4, Zenon DEF BlankFrom
<1>5. BlankFrom(E, e) <=> /\ e \in Nat /\ e <= w
                          /\ e # 0 => name[BaseLen + e] # " "
                          /\ \A i \in 1 .. w : e < i => name[BaseLen + i] = " "
  <2>1. e \in 0 .. Len(E) <=> e \in Nat /\ e <= w
    BY <1>3, <1>2
  <2>2. SUFFICES ASSUME e \in Nat, e <= w
                 PROVE  BlankFrom(E, e) <=>
                          /\ e # 0 => name[BaseLen + e] # " "
                          /\ \A i \in 1 .. w : e < i => name[BaseLen + i] = " "
    BY <2>1 DEF BlankFrom
  <2>3. e # 0 => E[e] = name[BaseLen + e]
    BY <1>3, <1>2, <2>2
  <2>4. ASSUME NEW n PROVE n \in e + 1 .. Len(E) <=> n \in 1 .. w /\ e < n
    BY <1>3, <1>2, <2>2
  <2> QED
    BY <1>2, <2>1, <2>2, <2>3, <2>4, Zenon DEF BlankFrom
<1> QED
  BY <1>4, <1>5, Zenon DEF Parts, B, E, w

(* Spelling, character by character.                                       *)
WithDot(text, name, b, e, k) ==
  /\ k = b + 1 + e
  /\ \A i \in 1 .. b : Capital(text[i]) = name[i]
  /\ Capital(text[b + 1]) = "."
  /\ \A i \in 1 .. e : Capital(text[b + 1 + i]) = name[BaseLen + i]

WithoutDot(text, name, b, e, k) ==
  /\ k = b /\ e = 0
  /\ \A i \in 1 .. b : Capital(text[i]) = name[i]

LEMMA SpellsIs ==
  ASSUME NEW text \in Seq(Char), NEW name \in [1 .. NameLen -> Char],
         NEW b, NEW e, Parts(name, b, e), NEW k, k = Len(text)
  PROVE  Spells(text, name) <=> \/ WithDot(text, name, b, e, k)
                                \/ WithoutDot(text, name, b, e, k)
<1> DEFINE capitals == [i \in 1 .. Len(text) |-> Capital(text[i])]
           base == SubSeq(BasePart(name), 1, b)
           ext == SubSeq(ExtPart(name), 1, e)
<1>1. Trimmed(BasePart(name)) = base /\ Trimmed(ExtPart(name)) = ext
  BY PartsAre, PartFacts, TrimmedOf
<1>2. Spells(text, name) <=> \/ capitals = base \o <<".">> \o ext
                             \/ capitals = base /\ ext = <<>>
  BY <1>1 DEF Spells, BasePart, ExtPart
<1>3. /\ b \in Nat /\ b <= BaseLen /\ e \in Nat /\ e <= NameLen - BaseLen
      /\ BaseLen \in Nat /\ NameLen \in Nat /\ BaseLen < NameLen /\ k \in Nat
  <2>1. k \in Nat
    OBVIOUS
  <2>2. BaseLen \in Nat /\ NameLen \in Nat /\ BaseLen < NameLen
    BY VolumeAssumption
  <2>3. b \in Nat /\ b <= BaseLen /\ e \in Nat /\ e <= NameLen - BaseLen
    BY DEF Parts
  <2> QED
    BY <2>1, <2>2, <2>3
<1>4. /\ base \in Seq(Char) /\ Len(base) = b
      /\ \A i \in 1 .. b : base[i] = name[i]
  <2>1. \A i \in 1 .. b : i \in 1 .. BaseLen
    BY <1>3
  <2>2. \A i \in 1 .. b : BasePart(name)[i] = name[i] /\ name[i] \in Char
    BY <1>3, <2>1, PartFacts
  <2>3. b <= Len(BasePart(name))
    BY <1>3, PartFacts
  <2> QED
    BY <1>3, <2>2, <2>3, PartFacts, SubSeqProperties
<1>5. /\ ext \in Seq(Char) /\ Len(ext) = e
      /\ \A i \in 1 .. e : ext[i] = name[BaseLen + i]
  <2>1. \A i \in 1 .. e : i \in 1 .. NameLen - BaseLen /\ BaseLen + i \in 1 .. NameLen
    BY <1>3
  <2>2. \A i \in 1 .. e : ExtPart(name)[i] = name[BaseLen + i] /\ name[BaseLen + i] \in Char
    BY <1>3, <2>1, PartFacts
  <2>3. e <= Len(ExtPart(name))
    BY <1>3, PartFacts
  <2> QED
    BY <1>3, <2>2, <2>3, PartFacts, SubSeqProperties
<1>6. /\ capitals \in Seq(Char) /\ Len(capitals) = k
      /\ \A i \in 1 .. k : capitals[i] = Capital(text[i])
  <2>1. \A i \in 1 .. Len(text) : Capital(text[i]) \in Char
    <3>1. \A i \in 1 .. Len(text) : text[i] \in Char
      OBVIOUS
    <3> QED
      BY <3>1, CharAssumption
  <2> QED
    BY <1>3, <2>1
<1> HIDE DEF capitals, base, ext
<1>7. capitals = base \o <<".">> \o ext <=> WithDot(text, name, b, e, k)
  <2> DEFINE long == base \o <<".">> \o ext
  <2>1. /\ long \in Seq(Char) /\ Len(long) = b + 1 + e
        /\ \A i \in 1 .. b : long[i] = name[i]
        /\ long[b + 1] = "."
        /\ \A i \in 1 .. e : long[b + 1 + i] = name[BaseLen + i]
    <3> DEFINE dot == <<".">>
               front == base \o dot
    <3>1. /\ dot \in Seq(Char) /\ Len(dot) = 1 /\ dot[1] = "."
      BY CharAssumption, SingleIs
    <3> HIDE DEF dot
    <3>2. /\ front \in Seq(Char) /\ Len(front) = b + 1
          /\ \A i \in 1 .. b : front[i] = base[i]
          /\ front[b + 1] = dot[1]
      <4>1. 1 \in 1 .. 1
        OBVIOUS
      <4> QED
        <5> DEFINE one == 1
        <5>1. one = Len(dot) /\ b = Len(base)
          BY <1>4, <3>1
        <5> HIDE DEF one
        <5>2. /\ front \in Seq(Char) /\ Len(front) = b + one
              /\ \A i \in 1 .. b : front[i] = base[i]
              /\ \A i \in 1 .. one : front[b + i] = dot[i]
          <6>1. base \in Seq(Char) /\ dot \in Seq(Char)
            BY <1>4, <3>1
          <6> QED
            BY <5>1, <6>1, ConcatIs
        <5> QED
          BY <4>1, <5>2 DEF one
    <3> HIDE DEF front
    <3>3. /\ front \o ext \in Seq(Char) /\ Len(front \o ext) = b + 1 + e
          /\ \A i \in 1 .. b + 1 : (front \o ext)[i] = front[i]
          /\ \A i \in 1 .. e : (front \o ext)[b + 1 + i] = ext[i]
      <4> DEFINE m == b + 1
      <4>1. m = Len(front) /\ e = Len(ext)
        BY <1>5, <3>2
      <4> HIDE DEF m
      <4>2. /\ front \o ext \in Seq(Char) /\ Len(front \o ext) = m + e
            /\ \A i \in 1 .. m : (front \o ext)[i] = front[i]
            /\ \A i \in 1 .. e : (front \o ext)[m + i] = ext[i]
        BY <1>5, <3>2, <4>1, ConcatIs
      <4> QED
        BY <4>2 DEF m
    <3>4. /\ \A i \in 1 .. b : i \in 1 .. b + 1
          /\ b + 1 \in 1 .. b + 1
      BY <1>3
    <3> QED
      BY <1>4, <1>5, <3>1, <3>2, <3>3, <3>4 DEF front, dot
  <2> HIDE DEF long
  <2>2. ASSUME capitals = long PROVE WithDot(text, name, b, e, k)
    <3>1. k = b + 1 + e
      BY <1>6, <2>1, <2>2
    <3>2. /\ \A i \in 1 .. b : i \in 1 .. k
          /\ b + 1 \in 1 .. k
          /\ \A i \in 1 .. e : b + 1 + i \in 1 .. k
      BY <1>3, <3>1
    <3> QED
      BY <1>6, <2>1, <2>2, <3>1, <3>2 DEF WithDot
  <2>3. ASSUME WithDot(text, name, b, e, k) PROVE capitals = long
    <3>1. k = b + 1 + e
      BY <2>3 DEF WithDot
    <3>2. ASSUME NEW i \in 1 .. k PROVE capitals[i] = long[i]
      <4>1. CASE i <= b
        <5>1. i \in 1 .. b
          BY <1>3, <4>1
        <5> QED
          BY <1>6, <2>1, <2>3, <5>1 DEF WithDot
      <4>2. CASE i = b + 1
        BY <1>6, <2>1, <2>3, <4>2 DEF WithDot
      <4>3. CASE b + 1 < i
        <5> DEFINE j == i - (b + 1)
        <5>1. j \in 1 .. e /\ b + 1 + j = i
          BY <1>3, <3>1, <4>3
        <5> HIDE DEF j
        <5>2. Capital(text[b + 1 + j]) = name[BaseLen + j]
          BY <2>3, <5>1 DEF WithDot
        <5>3. long[b + 1 + j] = name[BaseLen + j]
          BY <2>1, <5>1
        <5> QED
          BY <1>6, <5>1, <5>2, <5>3
      <4> QED
        BY <1>3, <4>1, <4>2, <4>3
    <3> QED
      BY <1>6, <2>1, <3>1, <3>2
  <2> QED
    BY <2>2, <2>3 DEF long
<1>8. capitals = base /\ ext = <<>> <=> WithoutDot(text, name, b, e, k)
  <2>1. ext = <<>> <=> e = 0
    BY <1>3, <1>5
  <2>2. capitals = base <=> k = b /\ \A i \in 1 .. b : capitals[i] = base[i]
    BY <1>3, <1>4, <1>6
  <2>3. k = b => \A i \in 1 .. b : /\ capitals[i] = Capital(text[i])
                                   /\ base[i] = name[i]
    BY <1>4, <1>6
  <2> QED
    BY <2>1, <2>2, <2>3, Zenon DEF WithoutDot
<1> QED
  BY <1>2, <1>7, <1>8

(* A name in a path spells the one that create_name makes of it.           *)
LEMMA SpellsForm ==
  ASSUME NEW text \in Seq(Char), NEW p, DotAt(text, p),
         NEW name \in [1 .. NameLen -> Char], Undotted(name)
  PROVE  Spells(text, name) <=> name = NameForm(text, p)
<1>1. PICK k : Dotted(text, p, k)
  BY DotFacts
<1>2. /\ k \in Nat /\ p \in Nat /\ 2 <= p /\ p <= k + 1
      /\ p <= BaseLen + 1 /\ k - p <= NameLen - BaseLen
  BY <1>1 DEF Dotted
<1>3. k = Len(text)
  BY <1>1 DEF Dotted
<1>4. /\ p <= k => Capital(text[p]) = "."
      /\ \A i \in 1 .. k : /\ Capital(text[i]) # " "
                           /\ i # p => Capital(text[i]) # "."
  <2>1. /\ p <= k => text[p] = "."
        /\ \A i \in 1 .. k : text[i] # " " /\ (i # p => text[i] # ".")
    BY <1>1, Zenon DEF Dotted
  <2>2. ASSUME NEW i \in 1 .. k
        PROVE  Capital(text[i]) # " " /\ (i # p => Capital(text[i]) # ".")
    <3>1. text[i] # " " /\ (i # p => text[i] # ".")
      BY <2>1, Zenon
    <3> QED
      BY ONLY <3>1, CapitalKeeps
  <2>3. p <= k => Capital(text[p]) = "."
    BY <2>1, CapitalKeeps
  <2> QED
    BY <2>2, <2>3
<1>5. PICK b, e : Parts(name, b, e)
  <2>1. /\ \E b : BlankFrom(BasePart(name), b)
        /\ \E e : BlankFrom(ExtPart(name), e)
    BY PartFacts, TrimmedIs
  <2> QED
    BY <2>1, PartsAre
<1>6. b \in Nat /\ b <= BaseLen /\ e \in Nat /\ e <= NameLen - BaseLen
  BY <1>5 DEF Parts
<1>14. /\ b # 0 => name[b] # " "
       /\ e # 0 => name[BaseLen + e] # " "
       /\ \A n \in 1 .. BaseLen : b < n => name[n] = " "
       /\ \A i \in 1 .. NameLen - BaseLen : e < i => name[BaseLen + i] = " "
  BY <1>5 DEF Parts
<1>7. BaseLen \in Nat /\ NameLen \in Nat /\ BaseLen < NameLen
  BY VolumeAssumption
<1>8. Spells(text, name) <=> \/ WithDot(text, name, b, e, k)
                             \/ WithoutDot(text, name, b, e, k)
  BY <1>3, <1>5, SpellsIs
<1> DEFINE form == NameForm(text, p)
<1>9. /\ form = [n \in 1 .. NameLen |-> form[n]]
      /\ \A n \in 1 .. BaseLen :
           form[n] = IF n < p THEN Capital(text[n]) ELSE " "
      /\ \A i \in 1 .. NameLen - BaseLen :
           form[BaseLen + i] = IF p + i <= k THEN Capital(text[p + i])
                                             ELSE " "
  <2>1. form = [n \in 1 .. NameLen |-> form[n]]
    BY DEF NameForm
  <2>2. ASSUME NEW n \in 1 .. BaseLen
        PROVE  form[n] = IF n < p THEN Capital(text[n]) ELSE " "
    <3>1. n \in 1 .. NameLen /\ n <= BaseLen
      BY <1>7
    <3> QED
      BY <3>1 DEF NameForm
  <2>3. ASSUME NEW i \in 1 .. NameLen - BaseLen
        PROVE  form[BaseLen + i] = IF p + i <= k THEN Capital(text[p + i])
                                                 ELSE " "
    <3> DEFINE n == BaseLen + i
    <3>1. n \in 1 .. NameLen /\ ~(n <= BaseLen) /\ n - BaseLen = i
      BY <1>7
    <3> HIDE DEF n
    <3>2. form[n] = IF p + (n - BaseLen) <= k
                    THEN Capital(text[p + (n - BaseLen)]) ELSE " "
      BY <1>3, <3>1 DEF NameForm
    <3> QED
      BY <3>1, <3>2 DEF n
  <2> QED
    BY <2>1, <2>2, <2>3
<1> HIDE DEF form
(* Two names are the same if their characters are.                         *)
<1>10. name = form <=> /\ \A n \in 1 .. BaseLen : name[n] = form[n]
                       /\ \A i \in 1 .. NameLen - BaseLen :
                            name[BaseLen + i] = form[BaseLen + i]
  <2>1. SUFFICES ASSUME \A n \in 1 .. BaseLen : name[n] = form[n],
                        \A i \in 1 .. NameLen - BaseLen :
                          name[BaseLen + i] = form[BaseLen + i]
                 PROVE  name = form
    OBVIOUS
  <2>2. ASSUME NEW n \in 1 .. NameLen PROVE name[n] = form[n]
    <3>1. CASE n <= BaseLen
      <4>1. n \in 1 .. BaseLen
        BY <1>7, <3>1
      <4> QED
        BY <2>1, <4>1
    <3>2. CASE ~(n <= BaseLen)
      <4>1. n - BaseLen \in 1 .. NameLen - BaseLen /\ BaseLen + (n - BaseLen) = n
        BY <1>7, <3>2
      <4>2. name[BaseLen + (n - BaseLen)] = form[BaseLen + (n - BaseLen)]
        BY <2>1, <4>1
      <4> QED
        BY <4>1, <4>2
    <3> QED
      BY <3>1, <3>2
  <2>3. name = [n \in 1 .. NameLen |-> name[n]]
    OBVIOUS
  <2> QED
    BY <1>9, <2>2, <2>3
<1>11. ASSUME WithDot(text, name, b, e, k) PROVE name = form
  <2>0. k = b + 1 + e
    BY <1>11 DEF WithDot
  <2>1. /\ Capital(text[b + 1]) = "."
        /\ \A i \in 1 .. b : Capital(text[i]) = name[i]
        /\ \A i \in 1 .. e : Capital(text[b + 1 + i]) = name[BaseLen + i]
    BY <1>11 DEF WithDot
  <2>2. p = b + 1
    <3>1. b + 1 \in 1 .. k
      BY <1>6, <2>0
    <3> QED
      BY <1>4, <2>1, <3>1
  <2>3. ASSUME NEW n \in 1 .. BaseLen PROVE name[n] = form[n]
    <3>1. CASE n < p
      <4>1. n \in 1 .. b
        BY <1>6, <2>2, <3>1
      <4> QED
        BY <1>9, <2>1, <3>1, <4>1
    <3>2. CASE ~(n < p)
      <4>1. b < n
        BY <1>6, <2>2, <3>2
      <4> QED
        BY <1>9, <1>14, <3>2, <4>1
    <3> QED
      BY <3>1, <3>2
  <2>4. ASSUME NEW i \in 1 .. NameLen - BaseLen
        PROVE  name[BaseLen + i] = form[BaseLen + i]
    <3>1. CASE p + i <= k
      <4>1. i \in 1 .. e
        BY <1>6, <2>0, <2>2, <3>1
      <4> QED
        BY <1>9, <2>1, <2>2, <3>1, <4>1
    <3>2. CASE ~(p + i <= k)
      <4>1. e < i
        BY <1>6, <2>0, <2>2, <3>2
      <4> QED
        BY <1>9, <1>14, <3>2, <4>1
    <3> QED
      BY <3>1, <3>2
  <2> QED
    BY <1>10, <2>3, <2>4
<1>12. ASSUME WithoutDot(text, name, b, e, k) PROVE name = form
  <2>0. k = b /\ e = 0
    BY <1>12 DEF WithoutDot
  <2>1. \A i \in 1 .. b : Capital(text[i]) = name[i]
    BY <1>12 DEF WithoutDot
  <2>2. p = b + 1
    <3>1. SUFFICES ASSUME p <= k PROVE FALSE
      BY <1>2, <2>0
    <3>2. p \in 1 .. b /\ 1 \in 1 .. b /\ 1 # p
      BY <1>2, <2>0, <3>1
    <3>3. name[p] = "." /\ name[1] # "."
      BY <1>4, <2>0, <2>1, <3>1, <3>2
    <3>4. p \in DOMAIN name
      <4>1. p \in 1 .. NameLen
        BY <1>6, <1>7, <3>2
      <4> QED
        BY <4>1
    <3> QED
      BY <3>3, <3>4 DEF Undotted
  <2>3. ASSUME NEW n \in 1 .. BaseLen PROVE name[n] = form[n]
    <3>1. CASE n < p
      <4>1. n \in 1 .. b
        BY <1>6, <2>2, <3>1
      <4> QED
        BY <1>9, <2>1, <3>1, <4>1
    <3>2. CASE ~(n < p)
      <4>1. b < n
        BY <1>6, <2>2, <3>2
      <4> QED
        BY <1>9, <1>14, <3>2, <4>1
    <3> QED
      BY <3>1, <3>2
  <2>4. ASSUME NEW i \in 1 .. NameLen - BaseLen
        PROVE  name[BaseLen + i] = form[BaseLen + i]
    <3>1. ~(p + i <= k) /\ e < i
      BY <1>2, <1>6, <2>0, <2>2
    <3> QED
      BY <1>9, <1>14, <3>1
  <2> QED
    BY <1>10, <2>3, <2>4
<1>13. ASSUME name = form
       PROVE  \/ WithDot(text, name, b, e, k)
              \/ WithoutDot(text, name, b, e, k)
  <2>1. /\ \A n \in 1 .. BaseLen :
             name[n] = IF n < p THEN Capital(text[n]) ELSE " "
        /\ \A i \in 1 .. NameLen - BaseLen :
             name[BaseLen + i] = IF p + i <= k THEN Capital(text[p + i])
                                               ELSE " "
    BY <1>9, <1>13
  <2>2. b = p - 1
    <3> DEFINE q == p - 1
    <3>1. q \in 1 .. BaseLen /\ q \in 1 .. k /\ q < p
      BY <1>2, <1>7
    <3> HIDE DEF q
    <3>2. name[q] # " "
      BY <1>4, <2>1, <3>1
    <3>3. ~(b < q)
      BY <1>14, <3>1, <3>2
    <3>4. ~(q < b)
      <4>1. SUFFICES ASSUME q < b PROVE FALSE
        OBVIOUS
      <4>2. b \in 1 .. BaseLen /\ b # 0 /\ ~(b < p)
        BY <1>2, <1>6, <3>1, <4>1 DEF q
      <4> QED
        BY <1>14, <2>1, <4>2
    <3> QED
      BY <1>6, <3>1, <3>3, <3>4 DEF q
  <2>3. ASSUME NEW i \in 1 .. b PROVE Capital(text[i]) = name[i]
    <3>1. i \in 1 .. BaseLen /\ i < p
      BY <1>2, <1>6, <1>7, <2>2
    <3> QED
      BY <2>1, <3>1
  <2>4. CASE p <= k
    <3> DEFINE q == k - p
    <3>1. q \in Nat /\ q <= NameLen - BaseLen
      BY <1>2, <2>4
    <3> HIDE DEF q
    <3>2. q # 0 => name[BaseLen + q] # " "
      <4>1. SUFFICES ASSUME q # 0 PROVE name[BaseLen + q] # " "
        OBVIOUS
      <4>2. /\ q \in 1 .. NameLen - BaseLen /\ p + q = k /\ p + q <= k
            /\ k \in 1 .. k
        BY <1>2, <1>7, <3>1, <4>1 DEF q
      <4>3. name[BaseLen + q] = Capital(text[k])
        BY <2>1, <4>2
      <4> QED
        BY <1>4, <4>2, <4>3
    <3>3. ~(e < q)
      <4>1. SUFFICES ASSUME e < q PROVE FALSE
        OBVIOUS
      <4>2. q \in 1 .. NameLen - BaseLen /\ q # 0
        BY <1>6, <1>7, <3>1, <4>1
      <4> QED
        BY <1>14, <3>2, <4>1, <4>2
    <3>4. ~(q < e)
      <4>1. SUFFICES ASSUME q < e PROVE FALSE
        OBVIOUS
      <4>2. e \in 1 .. NameLen - BaseLen /\ e # 0 /\ ~(p + e <= k)
        BY <1>2, <1>6, <1>7, <3>1, <4>1 DEF q
      <4> QED
        BY <1>14, <2>1, <4>2
    <3>5. e = k - p
      BY <1>6, <3>1, <3>3, <3>4 DEF q
    <3>6. k = b + 1 + e /\ b + 1 = p
      BY <1>2, <2>2, <3>5
    <3>7. ASSUME NEW i \in 1 .. e
          PROVE  Capital(text[b + 1 + i]) = name[BaseLen + i]
      <4>1. i \in 1 .. NameLen - BaseLen /\ p + i <= k
        BY <1>2, <1>6, <1>7, <3>5
      <4> QED
        BY <2>1, <3>6, <4>1
    <3> QED
      BY <1>4, <2>3, <2>4, <3>6, <3>7 DEF WithDot
  <2>5. CASE ~(p <= k)
    <3>1. k = b
      BY <1>2, <2>2, <2>5
    <3>2. e = 0
      <4>1. SUFFICES ASSUME e # 0 PROVE FALSE
        OBVIOUS
      <4>2. e \in 1 .. NameLen - BaseLen /\ ~(p + e <= k)
        BY <1>2, <1>6, <1>7, <2>5, <4>1
      <4> QED
        BY <1>14, <2>1, <4>1, <4>2
    <3> QED
      BY <2>3, <3>1, <3>2 DEF WithoutDot
  <2> QED
    BY <2>4, <2>5
<1> QED
  BY <1>8, <1>11, <1>12, <1>13 DEF form

-----------------------------------------------------------------------------
(* What a path leads to.                                                   *)
Targets == Entries \cup {NoEntry, RootEntry}

NextPlace(e, text) ==
  LET found == Named(disk, e.clust, text)
  IN  IF e.kind # "dir" \/ found = {} THEN NoEntry
      ELSE DirEntry(disk, e.clust, Min(found))

LEMMA NamedType ==
  ASSUME NEW c, NEW text
  PROVE  Named(disk, c, text) \in SUBSET (0 .. IndexRange - 1)
BY DEF Named, Listed

LEMMA DirEntryType ==
  ASSUME IsDisk(disk), NEW c, NEW i \in Nat
  PROVE  DirEntry(disk, c, i) \in Entries
<1>1. i % DirSize \in 0 .. DirSize - 1
  BY VolumeAssumption, DivideBy
<1> QED
  BY <1>1, EntryInType DEF DirEntry

LEMMA NextPlaceType ==
  ASSUME IsDisk(disk), NEW e, NEW text
  PROVE  NextPlace(e, text) \in Targets
<1> DEFINE found == Named(disk, e.clust, text)
<1>1. CASE e.kind # "dir" \/ found = {}
  BY <1>1 DEF NextPlace, Targets
<1>2. CASE ~(e.kind # "dir" \/ found = {})
  <2>1. found \in SUBSET (0 .. IndexRange - 1)
    BY NamedType
  <2>2. NextPlace(e, text) = DirEntry(disk, e.clust, Min(found))
    BY <1>2 DEF NextPlace
  <2> HIDE DEF found
  <2>3. found \in SUBSET Nat /\ found # {}
    <3>1. IndexRange \in Nat
      BY VolumeAssumption
    <3> QED
      BY <1>2, <2>1, <3>1
  <2>4. Min(found) \in Nat
    BY <2>3, MinIs
  <2> QED
    BY <2>2, <2>4, DirEntryType DEF Targets
<1> QED
  BY <1>1, <1>2

(* f is the way that names go, up to the k-th.                             *)
Way(f, names, k) ==
  /\ f \in [0 .. k -> Targets]
  /\ f[0] = RootEntry
  /\ \A n \in 0 .. k - 1 : f[n + 1] = NextPlace(f[n], names[n + 1])

LEMMA WayExists ==
  ASSUME IsDisk(disk), NEW names, NEW k \in Nat
  PROVE  \E f : Way(f, names, k)
<1> DEFINE h == [p \in Nat \X Targets |-> NextPlace(p[2], names[p[1] + 1])]
<1>1. h \in [Nat \X Targets -> Targets]
  BY NextPlaceType
<1>2. RootEntry \in Targets
  BY DEF Targets
<1>3. \A n \in Nat : \A e \in Targets :
        h[<<n, e>>] = NextPlace(e, names[n + 1])
  OBVIOUS
<1> HIDE DEF h
<1>4. PICK f : Follows(f, Targets, RootEntry, h, k)
  BY <1>1, <1>2, Recursion
<1>5. /\ f \in [0 .. k -> Targets] /\ f[0] = RootEntry
      /\ \A n \in 0 .. k - 1 : f[n + 1] = h[<<n, f[n]>>]
  BY <1>4 DEF Follows
<1>6. ASSUME NEW n \in 0 .. k - 1
      PROVE  f[n + 1] = NextPlace(f[n], names[n + 1])
  <2>1. n \in Nat /\ n \in 0 .. k
    OBVIOUS
  <2>2. f[n] \in Targets
    BY <1>5, <2>1
  <2> QED
    BY <1>3, <1>5, <2>1, <2>2
<1> QED
  BY <1>5, <1>6 DEF Way

(* The function in the definition of Resolved is the way of the names.     *)
LEMMA ResolvedIs ==
  ASSUME NEW names, NEW k \in Nat, k = Len(names), NEW f, Way(f, names, k)
  PROVE  Resolved(disk, names) = f[k]
<1> DEFINE Is(g) == g = [n \in 0 .. k |->
                IF n = 0 THEN RootEntry
                ELSE LET found == Named(disk, g[n - 1].clust, names[n])
                     IN  IF g[n - 1].kind # "dir" \/ found = {} THEN NoEntry
                         ELSE DirEntry(disk, g[n - 1].clust, Min(found))]
           g == CHOOSE g : Is(g)
<1>1. /\ f \in [0 .. k -> Targets] /\ f[0] = RootEntry
      /\ \A n \in 0 .. k - 1 : f[n + 1] = NextPlace(f[n], names[n + 1])
  BY DEF Way
<1>2. ASSUME NEW n \in 0 .. k
      PROVE  f[n] = IF n = 0 THEN RootEntry
                    ELSE LET found == Named(disk, f[n - 1].clust, names[n])
                         IN  IF f[n - 1].kind # "dir" \/ found = {} THEN NoEntry
                             ELSE DirEntry(disk, f[n - 1].clust, Min(found))
  <2>1. CASE n = 0
    BY <1>1, <2>1
  <2>2. CASE n # 0
    <3>1. n - 1 \in 0 .. k - 1 /\ (n - 1) + 1 = n
      BY <2>2
    <3>2. f[n] = NextPlace(f[n - 1], names[n])
      BY <1>1, <3>1
    <3> QED
      BY <2>2, <3>2 DEF NextPlace
  <2> QED
    BY <2>1, <2>2
<1>3. Is(f)
  <2>1. f = [n \in 0 .. k |-> f[n]]
    BY <1>1
  <2> QED
    BY <1>2, <2>1
<1>4. Is(g)
  <2> HIDE DEF Is
  <2> QED
    BY <1>3
<1>5. Resolved(disk, names) = g[k]
  BY DEF Resolved
<1>6. /\ DOMAIN g = 0 .. k
      /\ \A n \in 0 .. k :
           g[n] = IF n = 0 THEN RootEntry
                  ELSE NextPlace(g[n - 1], names[n])
  BY <1>4 DEF NextPlace
<1> HIDE DEF g, Is
<1> DEFINE N == {n \in Nat : n <= k => g[n] = f[n]}
<1>7. 0 \in N
  BY <1>1, <1>6
<1>8. ASSUME NEW n \in Nat, n \in N PROVE n + 1 \in N
  <2>1. SUFFICES ASSUME n + 1 <= k PROVE g[n + 1] = f[n + 1]
    OBVIOUS
  <2>2. n + 1 \in 0 .. k /\ n + 1 # 0 /\ (n + 1) - 1 = n /\ n <= k
        /\ n \in 0 .. k - 1
    BY <2>1
  <2>3. g[n] = f[n]
    BY <1>8, <2>2
  <2>4. g[n + 1] = NextPlace(g[n], names[n + 1])
    BY <1>6, <2>2
  <2>5. f[n + 1] = NextPlace(f[n], names[n + 1])
    BY <1>1, <2>2
  <2> QED
    BY <2>3, <2>4, <2>5
<1> HIDE DEF N
<1>9. Nat \subseteq N
  BY <1>7, <1>8, SetInduction
<1> QED
  BY <1>5, <1>9 DEF N

Reach(names, n) == Resolved(disk, SubSeq(names, 1, n))

LEMMA ReachIs ==
  ASSUME NEW names \in Seq(Seq(Char)), NEW k \in Nat, k = Len(names), NEW f,
         Way(f, names, k)
  PROVE  \A n \in 0 .. k : Reach(names, n) = f[n]
<1> SUFFICES ASSUME NEW n \in 0 .. k PROVE Reach(names, n) = f[n]
  OBVIOUS
<1> DEFINE first == SubSeq(names, 1, n)
           g == [m \in 0 .. n |-> f[m]]
<1>1. /\ f \in [0 .. k -> Targets] /\ f[0] = RootEntry
      /\ \A m \in 0 .. k - 1 : f[m + 1] = NextPlace(f[m], names[m + 1])
  BY DEF Way
<1>2. Len(first) = n /\ \A m \in 1 .. n : first[m] = names[m]
  <2>1. \A m \in 1 .. n : m \in 1 .. k
    OBVIOUS
  <2>2. \A m \in 1 .. n : names[m] \in Seq(Char)
    BY <2>1
  <2> QED
    BY <2>2, SubSeqProperties
<1>3. Way(g, first, n)
  <2>1. g \in [0 .. n -> Targets]
    <3>1. \A m \in 0 .. n : m \in 0 .. k
      OBVIOUS
    <3> QED
      BY <1>1, <3>1
  <2>2. g[0] = RootEntry
    BY <1>1
  <2>3. ASSUME NEW m \in 0 .. n - 1
        PROVE  g[m + 1] = NextPlace(g[m], first[m + 1])
    <3>1. /\ m \in 0 .. k - 1 /\ m \in 0 .. n /\ m + 1 \in 0 .. n
          /\ m + 1 \in 1 .. n
      OBVIOUS
    <3>2. first[m + 1] = names[m + 1]
      BY <1>2, <3>1
    <3>3. f[m + 1] = NextPlace(f[m], names[m + 1])
      BY <1>1, <3>1
    <3>4. g[m] = f[m] /\ g[m + 1] = f[m + 1]
      BY <3>1
    <3> QED
      BY <3>2, <3>3, <3>4
  <2> QED
    BY <2>1, <2>2, <2>3 DEF Way
<1>4. g[n] = f[n] /\ n \in Nat
  OBVIOUS
<1> HIDE DEF g, first
<1>5. Resolved(disk, first) = g[n]
  BY <1>2, <1>3, <1>4, ResolvedIs
<1> QED
  BY <1>4, <1>5 DEF Reach, first

LEMMA ReachFacts ==
  ASSUME IsDisk(disk), NEW names \in Seq(Seq(Char)), NEW k \in Nat,
         k = Len(names)
  PROVE  /\ Reach(names, 0) = RootEntry
         /\ \A n \in 0 .. k : Reach(names, n) \in Targets
         /\ \A n \in 0 .. k - 1 :
              Reach(names, n + 1) = NextPlace(Reach(names, n), names[n + 1])
         /\ Reach(names, k) = Resolved(disk, names)
<1>1. PICK f : Way(f, names, k)
  BY WayExists
<1>2. \A n \in 0 .. k : Reach(names, n) = f[n]
  BY <1>1, ReachIs
<1>3. Resolved(disk, names) = f[k]
  BY <1>1, ResolvedIs
<1>4. 0 \in 0 .. k /\ k \in 0 .. k
  OBVIOUS
<1>5. \A n \in 0 .. k - 1 : n \in 0 .. k /\ n + 1 \in 0 .. k
  OBVIOUS
<1> QED
  BY <1>1, <1>2, <1>3, <1>4, <1>5 DEF Way

(* A way that has come to an end leads to no file.                         *)
LEMMA NoWayOn ==
  ASSUME IsDisk(disk), NEW names \in Seq(Seq(Char)), NEW k \in Nat,
         k = Len(names), NEW n \in 1 .. k, Reach(names, n).kind # "dir",
         n = k => Reach(names, n).kind # "file"
  PROVE  ~IsFile(disk, names)
<1>1. /\ Reach(names, k) = Resolved(disk, names)
      /\ \A m \in 0 .. k - 1 :
           Reach(names, m + 1) = NextPlace(Reach(names, m), names[m + 1])
  BY ReachFacts
<1>2. CASE n = k
  BY <1>1, <1>2 DEF IsFile
<1>3. CASE n # k
  <2> DEFINE N == {i \in Nat : n + 1 + i <= k =>
                     Reach(names, n + 1 + i) = NoEntry}
  <2>1. 0 \in N
    <3>1. n \in 0 .. k - 1 /\ n + 1 + 0 = n + 1
      BY <1>3
    <3>2. Reach(names, n + 1) = NoEntry
      BY <1>1, <3>1 DEF NextPlace
    <3> QED
      BY <3>1, <3>2
  <2>2. ASSUME NEW i \in Nat, i \in N PROVE i + 1 \in N
    <3>1. SUFFICES ASSUME n + 1 + (i + 1) <= k
                   PROVE  Reach(names, n + 1 + (i + 1)) = NoEntry
      OBVIOUS
    <3> DEFINE m == n + 1 + i
    <3>2. m \in 0 .. k - 1 /\ n + 1 + (i + 1) = m + 1 /\ n + 1 + i <= k
      BY <3>1
    <3>3. Reach(names, m) = NoEntry
      BY <2>2, <3>2
    <3> HIDE DEF m
    <3>4. Reach(names, m + 1) = NoEntry
      BY <1>1, <3>2, <3>3 DEF NextPlace, NoEntry
    <3> QED
      BY <3>2, <3>4
  <2> HIDE DEF N
  <2>3. Nat \subseteq N
    BY <2>1, <2>2, SetInduction
  <2> DEFINE i == k - (n + 1)
  <2>4. i \in Nat /\ n + 1 + i = k
    BY <1>3
  <2> HIDE DEF i
  <2>5. Reach(names, k) = NoEntry
    <3>1. i \in N /\ n + 1 + i <= k
      BY <2>3, <2>4
    <3>2. Reach(names, n + 1 + i) = NoEntry
      BY <3>1 DEF N
    <3> QED
      BY <2>4, <3>2
  <2> QED
    BY <1>1, <2>5 DEF IsFile, NoEntry
<1> QED
  BY <1>2, <1>3

-----------------------------------------------------------------------------
(* Searching a directory.                                                  *)

LEMMA EntryUndotted ==
  ASSUME IsDisk(disk), ProperEntries(disk), NEW s, NEW n \in 0 .. DirSize - 1
  PROVE  Undotted(EntryIn(disk, s, n).name)
<1>1. CASE s \in DOMAIN disk /\ disk[s].kind = "dir"
  <2>1. disk[s].ents \in [1 .. DirSize -> Entries]
    BY <1>1 DEF IsDisk, IsSector
  <2>2. n + 1 \in 1 .. DirSize
    BY VolumeAssumption
  <2> QED
    BY <1>1, <2>1, <2>2 DEF EntryIn, ProperEntries
<1>2. CASE ~(s \in DOMAIN disk /\ disk[s].kind = "dir")
  <2>1. EntryIn(disk, s, n).name = Blank
    BY <1>2 DEF EntryIn, EndMark
  <2> QED
    BY <2>1 DEF Blank, Undotted
<1> QED
  BY <1>1, <1>2

LEMMA ProperIs ==
  ASSUME NEW text, ProperName(text)
  PROVE  \E p : DotAt(text, p)
BY DEF ProperName

LEMMA MatchesIs ==
  ASSUME IsDisk(disk), ProperEntries(disk), dj \in DIR,
         NEW text \in Seq(Char), ProperName(text), dj.fn = DirForm(text)
  PROVE  Matches <=> Seen.kind \notin {"end", "label"} /\ Spells(text, Seen.name)
<1>1. PICK p : DotAt(text, p)
  BY ProperIs
<1>2. dj.index % DirSize \in 0 .. DirSize - 1
  <2>1. dj.index \in Nat /\ DirSize \in Nat \ {0}
    BY DirTypes, VolumeAssumption
  <2> QED
    BY <2>1, DivideBy
<1>3. Undotted(Seen.name)
  BY <1>2, EntryUndotted DEF Seen
<1>4. Seen.name \in [1 .. NameLen -> Char]
  BY SeenType DEF Entries
<1>5. Spells(text, Seen.name) <=> Seen.name = dj.fn
  BY <1>1, <1>3, <1>4, SpellsForm, DirFormIs
<1> QED
  BY <1>5 DEF Matches

LEMMA SeenIs ==
  ASSUME EntryPlace(dj)
  PROVE  Seen = DirEntry(disk, dj.sclust, dj.index)
BY DEF EntryPlace, Seen, DirEntry

(* The entry is the one that is meant.                                     *)
LEMMA FoundHere ==
  ASSUME IsDisk(disk), ProperEntries(disk), dj \in DIR,
         NEW text \in Seq(Char), ProperName(text), dj.fn = DirForm(text),
         EntryAt(text), Matches,
         NEW e, e.kind = "dir", e.clust = dj.sclust
  PROVE  NextPlace(e, text) = Seen
<1> DEFINE d == dj.sclust
           i == dj.index
           found == Named(disk, d, text)
<1>1. i \in 0 .. IndexRange - 1
  BY DirTypes
<1>2. /\ Seen = DirEntry(disk, d, i) /\ DirHas(disk, d, i)
      /\ \A j \in 0 .. i - 1 : /\ DirHas(disk, d, j)
                               /\ DirEntry(disk, d, j).kind # "end"
                               /\ j \notin found
  BY SeenIs DEF EntryAt, EntryPlace, NoneBefore
<1>3. Seen.kind \notin {"end", "label"} /\ Spells(text, Seen.name)
  BY MatchesIs
<1> HIDE DEF d, i, found
<1>4. ASSUME NEW j \in 0 .. i
      PROVE  DirHas(disk, d, j) /\ DirEntry(disk, d, j).kind # "end"
  <2>1. CASE j = i
    BY <1>2, <1>3, <2>1
  <2>2. CASE j # i
    <3>1. j \in 0 .. i - 1
      BY <1>1, <2>2
    <3> QED
      BY <1>2, <3>1
  <2> QED
    BY <2>1, <2>2
<1>5. i \in found
  <2>1. i \in Listed(disk, d)
    BY <1>1, <1>4 DEF Listed
  <2> QED
    BY <1>2, <1>3, <2>1 DEF Named, found
<1>6. found \in SUBSET Nat /\ found # {}
  <2>1. found \in SUBSET (0 .. IndexRange - 1)
    BY NamedType DEF found
  <2>2. IndexRange \in Nat
    BY VolumeAssumption
  <2> QED
    BY <1>5, <2>1, <2>2
<1>7. Min(found) = i
  <2>1. PICK x : x = Min(found) /\ x \in found /\ x <= i
    BY <1>5, <1>6, MinIs
  <2>2. x \in Nat /\ i \in Nat
    BY <1>1, <1>6, <2>1
  <2>3. ~(x < i)
    <3>1. x < i => x \in 0 .. i - 1
      BY <2>2
    <3> QED
      BY <1>2, <2>1, <3>1
  <2> QED
    BY <2>1, <2>2, <2>3
<1> QED
  BY <1>2, <1>6, <1>7 DEF NextPlace, found, d

(* No entry has the name.                                                  *)
LEMMA FoundNowhere ==
  ASSUME IsDisk(disk), ProperEntries(disk), dj \in DIR,
         NEW text \in Seq(Char), ProperName(text), dj.fn = DirForm(text),
         EntryAt(text), ~Matches,
         \/ Seen.kind = "end"
         \/ dj.index + 1 = IndexRange
         \/ ~DirHas(disk, dj.sclust, dj.index + 1),
         NEW e, e.clust = dj.sclust
  PROVE  NextPlace(e, text) = NoEntry
<1> DEFINE d == dj.sclust
           i == dj.index
           found == Named(disk, d, text)
<1>1. i \in 0 .. IndexRange - 1
  BY DirTypes
<1>2. Seen = DirEntry(disk, d, i) /\ \A j \in 0 .. i - 1 : j \notin found
  BY SeenIs DEF EntryAt, NoneBefore
<1>3. ~(Seen.kind \notin {"end", "label"} /\ Spells(text, Seen.name))
  BY MatchesIs
<1>4. \/ Seen.kind = "end"
      \/ i + 1 = IndexRange
      \/ ~DirHas(disk, d, i + 1)
  OBVIOUS
<1>5. e.clust = d
  OBVIOUS
<1> HIDE DEF d, i, found
<1>6. ASSUME NEW j \in found PROVE FALSE
  <2>1. /\ j \in 0 .. IndexRange - 1
        /\ \A m \in 0 .. j : /\ DirHas(disk, d, m)
                             /\ DirEntry(disk, d, m).kind # "end"
        /\ DirEntry(disk, d, j).kind # "label"
        /\ Spells(text, DirEntry(disk, d, j).name)
    BY DEF found, Named, Listed
  <2>2. CASE j < i
    <3>1. j \in 0 .. i - 1
      BY <1>1, <2>1, <2>2
    <3> QED
      BY <1>2, <3>1
  <2>3. CASE j = i
    <3>1. j \in 0 .. j
      BY <2>1
    <3> QED
      BY <1>2, <1>3, <2>1, <2>3, <3>1
  <2>4. CASE i < j
    <3>1. i \in 0 .. j /\ i + 1 \in 0 .. j /\ i + 1 # IndexRange
      BY <1>1, <2>1, <2>4
    <3> QED
      BY <1>2, <1>4, <2>1, <3>1
  <2> QED
    BY <1>1, <2>1, <2>2, <2>3, <2>4
<1>7. found = {}
  BY <1>6
<1> QED
  BY <1>5, <1>7 DEF NextPlace, found

(* A place in a directory, by numbers: i is the entry, m its sector.       *)
LEMMA DirPlace ==
  ASSUME IsDisk(disk), Describes, NEW d \in Nat, NEW i \in Nat,
         NEW m, m = i \div DirSize
  PROVE  LET b == Bpb(disk)
             q == m \div b.csize
             c == ClusterAt(disk, d, q)
         IN  /\ m \in Nat /\ q \in Nat /\ c \in Nat
             /\ m % b.csize \in 0 .. b.csize - 1
             /\ d = 0 => /\ DirHas(disk, d, i) <=> i < fs.n_rootdir
                         /\ DirSector(disk, d, i) = fs.dirbase + m
             /\ d # 0 =>
                  /\ DirHas(disk, d, i) <=> IsCluster(disk, c)
                  /\ IsCluster(disk, c) =>
                       DirSector(disk, d, i) = Clust2Sect(c) + (m % b.csize)
<1> DEFINE b == Bpb(disk)
           q == m \div b.csize
           c == ClusterAt(disk, d, q)
           r == m % b.csize
<1>1. /\ b.csize \in Nat \ {0} /\ DirSize \in Nat \ {0}
      /\ FirstSector(disk) \in Nat /\ DataStart(b) \in Nat
  BY VolumeAssumption, VolumeFacts, BpbFacts DEF Describes
<1>2. m \in Nat
  BY <1>1, DivideBy
<1>3. q \in Nat /\ r \in 0 .. b.csize - 1
  BY <1>1, <1>2, DivideBy
<1>4. c \in Nat
  BY <1>3, ClusterAtType
<1>5. ASSUME d = 0
      PROVE  /\ DirHas(disk, d, i) <=> i < fs.n_rootdir
             /\ DirSector(disk, d, i) = fs.dirbase + m
  BY <1>5 DEF Describes, DirHas, DirSector
<1>6. ASSUME d # 0
      PROVE  /\ DirHas(disk, d, i) <=> IsCluster(disk, c)
             /\ IsCluster(disk, c) => DirSector(disk, d, i) = Clust2Sect(c) + r
  <2>1. DirHas(disk, d, i) <=> IsCluster(disk, c)
    BY <1>6 DEF DirHas, ChainHas
  <2>2. ASSUME IsCluster(disk, c)
        PROVE  DirSector(disk, d, i) = Clust2Sect(c) + r
    <3> DEFINE first == FirstSector(disk) + DataStart(b)
               w == (c - 2) * b.csize
    <3>1. DirSector(disk, d, i) = first + r + w
      BY <1>6 DEF DirSector, SectorInChain
    <3>2. Clust2Sect(c) = first + w
      BY <1>4, <2>2, Clust2SectIs
    <3>3. first \in Int /\ w \in Int /\ r \in Int
      BY <1>1, <1>3, <1>4
    <3> HIDE DEF first, r, w
    <3> QED
      BY <3>1, <3>2, <3>3
  <2> QED
    BY <2>1, <2>2
<1> QED
  BY <1>2, <1>3, <1>4, <1>5, <1>6

(* Is there a next entry, dir_next finds it; a failed transfer is the only *)
(* other reason not to.                                                    *)
LEMMA DirNextIs ==
  ASSUME IsDisk(disk), Describes, fs \in FATFS, dj \in DIR, EntryPlace(dj),
         NEW next \in DirNext
  PROVE  LET e == next.dj
         IN  /\ next.res = "OK" =>
                  /\ ~next.fails
                  /\ e.sclust = dj.sclust /\ e.index = dj.index + 1
                  /\ e.fn = dj.fn /\ e.last = dj.last
                  /\ EntryPlace(e)
             /\ next.res # "OK" /\ ~next.fails =>
                  \/ dj.index + 1 = IndexRange
                  \/ ~DirHas(disk, dj.sclust, dj.index + 1)
<1> DEFINE d == dj.sclust
           i == dj.index
           b == Bpb(disk)
           m == i \div DirSize
           q == m \div b.csize
           c == ClusterAt(disk, d, q)
<1>1. /\ d \in Nat /\ i \in Nat /\ i < IndexRange
      /\ dj.clust \in Nat /\ dj.sect \in Nat
      /\ IndexRange \in Nat \ {0} /\ DirSize \in Nat \ {0}
  <2>1. IndexRange \in Nat \ {0} /\ DirSize \in Nat \ {0}
    BY VolumeAssumption
  <2> QED
    BY <2>1, DirTypes
<1>2. /\ fs.csize = b.csize /\ b.csize \in Nat \ {0}
      /\ fs.n_rootdir = b.rootent /\ b.rootent \in Nat \ {0}
      /\ b.rootent % DirSize = 0
      /\ fs.dirbase \in Nat \ {0}
      /\ fs.max_clust = Clusters(b) + 2 /\ Clusters(b) \in Nat
  BY VolumeFacts, BpbFacts DEF Describes
<1>3. /\ DirHas(disk, d, i) /\ dj.sect = DirSector(disk, d, i)
      /\ dj.clust = IF d = 0 THEN 0 ELSE c
  BY <1>2 DEF EntryPlace
<1>4. /\ m \in Nat /\ q \in Nat /\ c \in Nat /\ m % b.csize \in 0 .. b.csize - 1
      /\ d = 0 => /\ DirHas(disk, d, i) <=> i < fs.n_rootdir
                  /\ DirSector(disk, d, i) = fs.dirbase + m
      /\ d # 0 => /\ DirHas(disk, d, i) <=> IsCluster(disk, c)
                  /\ IsCluster(disk, c) =>
                       DirSector(disk, d, i) = Clust2Sect(c) + (m % b.csize)
  BY <1>1, DirPlace
(* Where the next entry is.                                                *)
<1> DEFINE j == i + 1
           n == j \div DirSize
           p == n \div b.csize
           a == ClusterAt(disk, d, p)
<1>5. j \in Nat
  BY <1>1
<1>6. /\ n \in Nat /\ p \in Nat /\ a \in Nat /\ n % b.csize \in 0 .. b.csize - 1
      /\ d = 0 => /\ DirHas(disk, d, j) <=> j < fs.n_rootdir
                  /\ DirSector(disk, d, j) = fs.dirbase + n
      /\ d # 0 => /\ DirHas(disk, d, j) <=> IsCluster(disk, a)
                  /\ IsCluster(disk, a) =>
                       DirSector(disk, d, j) = Clust2Sect(a) + (n % b.csize)
  <2> HIDE DEF j
  <2> QED
    BY <1>1, <1>5, DirPlace
<1>7. /\ j % DirSize # 0 => n = m
      /\ j % DirSize = 0 => n = m + 1
  BY <1>1, DivNext
<1>8. /\ d = 0 => i < fs.n_rootdir /\ dj.sect = fs.dirbase + m /\ dj.clust = 0
      /\ d # 0 => /\ IsCluster(disk, c) /\ dj.clust = c
                  /\ dj.sect = Clust2Sect(c) + (m % b.csize)
  BY <1>3, <1>4
<1>9. d # 0 => dj.clust # 0 /\ Clust2Sect(c) \in Nat \ {0}
  <2>1. IsCluster(disk, c) => c # 0
    BY <1>4 DEF IsCluster
  <2>2. Clust2Sect(c) \in Nat /\ (IsCluster(disk, c) => Clust2Sect(c) # 0)
    BY <1>4, Clust2SectIs
  <2> QED
    BY <1>8, <2>1, <2>2
<1> HIDE DEF b, c, a
<1>10. dj.sect # 0
  <2>1. CASE d = 0
    BY <1>2, <1>4, <1>8, <2>1
  <2>2. CASE d # 0
    BY <1>2, <1>4, <1>8, <1>9, <2>2
  <2> QED
    BY <2>1, <2>2
<1>11. NextIndex = IF j = IndexRange THEN 0 ELSE j
  <2>1. NextIndex = j % IndexRange
    BY DEF NextIndex
  <2>2. j <= IndexRange
    BY <1>1
  <2> HIDE DEF j
  <2>3. CASE j = IndexRange
    <3>1. j = 1 * IndexRange + 0 /\ 0 \in 0 .. IndexRange - 1
      BY <1>1, <2>3
    <3> QED
      BY <1>1, <2>1, <2>3, <3>1, DivUnique
  <2>4. CASE j # IndexRange
    BY <1>1, <1>5, <2>1, <2>2, <2>4
  <2> QED
    BY <2>3, <2>4
<1>12. SUFFICES ASSUME j # IndexRange
                PROVE  /\ next.res = "OK" =>
                            /\ ~next.fails
                            /\ next.dj.sclust = d /\ next.dj.index = j
                            /\ next.dj.fn = dj.fn /\ next.dj.last = dj.last
                            /\ EntryPlace(next.dj)
                       /\ next.res # "OK" /\ ~next.fails => ~DirHas(disk, d, j)
  <2>1. CASE j = IndexRange
    <3>1. EndOfIndex
      BY <1>11, <2>1 DEF EndOfIndex
    <3>2. next = Moved("NO_FILE", dj)
      BY <3>1 DEF DirNext
    <3>3. next.res = "NO_FILE"
      BY <3>2 DEF Moved
    <3> QED
      BY <2>1, <3>3
  <2> QED
    BY <2>1
<1>13. NextIndex = j /\ ~EndOfIndex
  BY <1>1, <1>10, <1>11, <1>12 DEF EndOfIndex
<1> DEFINE Arrived(e) ==
             /\ e.sclust = d /\ e.index = j
             /\ e.fn = dj.fn /\ e.last = dj.last
             /\ DirHas(disk, d, j)
             /\ e.sect = DirSector(disk, d, j)
             /\ e.clust = IF d = 0 THEN 0 ELSE a
<1>14. ASSUME NEW e, Arrived(e)
       PROVE  /\ e.sclust = d /\ e.index = j
              /\ e.fn = dj.fn /\ e.last = dj.last
              /\ EntryPlace(e)
  BY <1>2, <1>14 DEF EntryPlace, a
<1>15. CASE j % DirSize # 0
  <2>1. next = Moved("OK", [dj EXCEPT !.index = j])
    BY <1>13, <1>15 DEF DirNext
  <2>2. /\ next.res = "OK" /\ next.fails = FALSE
        /\ next.dj = [dj EXCEPT !.index = j]
    BY <2>1 DEF Moved
  <2>3. n = m
    BY <1>7, <1>15
  <2>4. d = 0 => DirHas(disk, d, j) /\ DirSector(disk, d, j) = dj.sect
    <3>1. SUFFICES ASSUME d = 0
                   PROVE  j < fs.n_rootdir
      BY <1>6, <1>8, <2>3
    <3>2. j <= fs.n_rootdir /\ j # fs.n_rootdir
      <4>1. i < fs.n_rootdir /\ fs.n_rootdir \in Nat
        BY <1>2, <1>8, <3>1
      <4> QED
        BY <1>1, <1>2, <1>15, <4>1
    <3> QED
      BY <1>2, <1>5, <3>2
  <2>5. d # 0 => DirHas(disk, d, j) /\ DirSector(disk, d, j) = dj.sect /\ a = c
    <3>1. a = c
      BY <2>3 DEF a, c
    <3> QED
      BY <1>6, <1>8, <2>3, <3>1
  <2>6. /\ next.dj.sclust = d /\ next.dj.index = j /\ next.dj.clust = dj.clust
        /\ next.dj.sect = dj.sect /\ next.dj.fn = dj.fn
        /\ next.dj.last = dj.last
    BY <2>2 DEF DIR
  <2> HIDE DEF d, i, j, m, n, p, q
  <2>7. Arrived(next.dj)
    BY <1>8, <2>4, <2>5, <2>6
  <2> HIDE DEF Arrived
  <2> QED
    BY <1>14, <2>2, <2>7
<1>16. CASE j % DirSize = 0
  <2>1. n = m + 1
    BY <1>7, <1>16
  <2>2. NextSector = [dj EXCEPT !.sect = dj.sect + 1]
    BY DEF NextSector
  <2>3. CASE dj.clust = 0 /\ j >= fs.n_rootdir
    <3>1. next = Moved("NO_FILE", NextSector)
      BY <1>13, <1>16, <2>3 DEF DirNext
    <3>2. next.res = "NO_FILE"
      BY <3>1 DEF Moved
    <3>3. d = 0
      BY <1>9, <2>3
    <3>4. ~DirHas(disk, d, j)
      BY <1>2, <1>5, <1>6, <2>3, <3>3
    <3> QED
      BY <3>2, <3>4
  <2>4. CASE ~(dj.clust = 0 /\ j >= fs.n_rootdir)
             /\ (dj.clust = 0 \/ n % fs.csize # 0)
    <3>1. next = Moved("OK", [NextSector EXCEPT !.index = j])
      BY <1>13, <1>16, <2>4 DEF DirNext
    <3>2. /\ next.res = "OK" /\ next.fails = FALSE
          /\ next.dj = [NextSector EXCEPT !.index = j]
      BY <3>1 DEF Moved
    <3>3. /\ next.dj.sclust = d /\ next.dj.index = j
          /\ next.dj.clust = dj.clust /\ next.dj.sect = dj.sect + 1
          /\ next.dj.fn = dj.fn /\ next.dj.last = dj.last
      BY <2>2, <3>2 DEF DIR
    <3>4. d = 0 => DirHas(disk, d, j) /\ DirSector(disk, d, j) = dj.sect + 1
      <4>1. SUFFICES ASSUME d = 0
                     PROVE  /\ j < fs.n_rootdir
                            /\ fs.dirbase + n = fs.dirbase + m + 1
        BY <1>6, <1>8
      <4>2. fs.dirbase + n = fs.dirbase + m + 1
        BY <1>2, <1>4, <2>1
      <4>3. ~(j >= fs.n_rootdir)
        BY <1>8, <2>4, <4>1
      <4> QED
        BY <1>2, <1>5, <4>2, <4>3
    <3>5. d # 0 => /\ DirHas(disk, d, j) /\ a = c
                   /\ DirSector(disk, d, j) = dj.sect + 1
      <4>1. SUFFICES ASSUME d # 0
                     PROVE  /\ DirHas(disk, d, j) /\ a = c
                            /\ DirSector(disk, d, j) = dj.sect + 1
        OBVIOUS
      <4>2. n % b.csize # 0
        BY <1>2, <1>9, <2>4, <4>1
      <4>3. p = q /\ n % b.csize = (m % b.csize) + 1
        <5> DEFINE M == m
        <5>1. M \in Nat /\ n = M + 1
          BY <1>4, <2>1
        <5> HIDE DEF M, n
        <5>2. /\ (M + 1) \div b.csize = M \div b.csize
              /\ (M + 1) % b.csize = (M % b.csize) + 1
          BY <1>2, <4>2, <5>1, DivNext
        <5> QED
          BY <5>1, <5>2 DEF M
      <4>4. a = c
        BY <4>3 DEF a, c
      <4>5. /\ DirHas(disk, d, j)
            /\ DirSector(disk, d, j) = Clust2Sect(c) + (n % b.csize)
        BY <1>6, <1>8, <4>1, <4>4
      <4>6. dj.sect = Clust2Sect(c) + (m % b.csize)
        BY <1>8, <4>1
      <4>7. Clust2Sect(c) \in Nat /\ m % b.csize \in Nat
        BY <1>2, <1>4, <1>9, <4>1
      <4> DEFINE u == Clust2Sect(c)
                 r == m % b.csize
                 v == n % b.csize
      <4>8. u \in Nat /\ r \in Nat /\ v = r + 1
        BY <4>3, <4>7
      <4>9. dj.sect = u + r /\ DirSector(disk, d, j) = u + v
        BY <4>5, <4>6
      <4> HIDE DEF u, r, v
      <4> QED
        BY <4>4, <4>5, <4>8, <4>9
    <3> HIDE DEF d, i, j, m, n, p, q
    <3>6. Arrived(next.dj)
      BY <1>8, <3>3, <3>4, <3>5
    <3> HIDE DEF Arrived
    <3> QED
      BY <1>14, <3>2, <3>6
  <2>5. CASE dj.clust # 0 /\ n % fs.csize = 0
    <3>1. PICK entry \in GetFat(dj.clust) : next = InNextCluster(entry)
      BY <1>13, <1>16, <2>5 DEF DirNext
    <3>2. d # 0
      BY <1>8, <2>5
    <3>3. /\ entry.link \in Nat /\ entry.fails \in BOOLEAN
          /\ entry.link > 1 => ~entry.fails /\ entry.link = Entry(disk, c)
          /\ ~entry.fails => entry.link = Entry(disk, c)
      BY <1>1, <1>8, <3>1, <3>2, GetFatIs
    <3>4. p = q + 1
      <4> DEFINE M == m
      <4>1. M \in Nat /\ n = M + 1
        BY <1>4, <2>1
      <4>2. n % b.csize = 0
        BY <1>2, <2>5
      <4> HIDE DEF M, n
      <4>3. (M + 1) \div b.csize = M \div b.csize + 1
        BY <1>2, <4>1, <4>2, DivNext
      <4> QED
        BY <4>1, <4>3 DEF M
    <3>5. a = Entry(disk, c)
      <4>1. ClusterAt(disk, d, q + 1) = NextInChain(disk, ClusterAt(disk, d, q))
        BY <1>1, <1>4, ClusterAtNext
      <4> QED
        BY <1>8, <3>2, <3>4, <4>1 DEF a, c, NextInChain
    <3>6. entry.link > 1 /\ entry.link < fs.max_clust <=>
            IsCluster(disk, entry.link)
      BY <1>2, <3>3 DEF IsCluster, b
    <3>7. CASE entry.link <= 1 \/ entry.link >= fs.max_clust
      <4>1. next.res # "OK" /\ next.fails = entry.fails
        BY <3>1, <3>7 DEF InNextCluster
      <4>2. ~IsCluster(disk, entry.link)
        BY <1>2, <3>3, <3>6, <3>7
      <4>3. ~entry.fails => ~DirHas(disk, d, j)
        BY <1>6, <3>2, <3>3, <3>5, <4>2
      <4> QED
        BY <4>1, <4>3
    <3>8. CASE ~(entry.link <= 1 \/ entry.link >= fs.max_clust)
      <4>1. /\ next.res = "OK" /\ next.fails = entry.fails
            /\ next.dj = [dj EXCEPT !.index = j, !.clust = entry.link,
                                    !.sect = Clust2Sect(entry.link)]
        BY <1>13, <3>1, <3>8 DEF InNextCluster
      <4>2. entry.link > 1 /\ entry.link < fs.max_clust
        BY <1>2, <3>3, <3>8
      <4>3. /\ IsCluster(disk, entry.link) /\ ~entry.fails /\ entry.link = a
        BY <3>3, <3>5, <3>6, <4>2
      <4>4. DirHas(disk, d, j) /\ DirSector(disk, d, j) = Clust2Sect(a)
        <5>1. n % b.csize = 0
          BY <1>2, <2>5
        <5>2. Clust2Sect(a) \in Nat
          BY <1>6, Clust2SectIs
        <5>3. /\ DirHas(disk, d, j)
              /\ DirSector(disk, d, j) = Clust2Sect(a) + (n % b.csize)
          BY <1>6, <3>2, <4>3
        <5> DEFINE r == n % b.csize
                   u == Clust2Sect(a)
        <5>4. u \in Nat /\ r = 0 /\ DirSector(disk, d, j) = u + r
          BY <5>1, <5>2, <5>3
        <5> HIDE DEF r, u
        <5>5. DirSector(disk, d, j) = u
          BY <5>4
        <5> QED
          BY <5>3, <5>5 DEF u
      <4>5. /\ next.dj.sclust = d /\ next.dj.index = j
            /\ next.dj.clust = entry.link
            /\ next.dj.sect = Clust2Sect(entry.link)
            /\ next.dj.fn = dj.fn /\ next.dj.last = dj.last
        BY <4>1 DEF DIR
      <4> HIDE DEF d, i, j, m, n, p, q
      <4>6. Arrived(next.dj)
        BY <3>2, <4>3, <4>4, <4>5
      <4> HIDE DEF Arrived
      <4> QED
        BY <1>14, <4>1, <4>3, <4>6
    <3> QED
      BY <3>7, <3>8
  <2> QED
    BY <2>3, <2>4, <2>5
<1> QED
  BY <1>15, <1>16

-----------------------------------------------------------------------------
(* The text of a path.                                                     *)

(* The path behind n of the names, with the slashes between them.          *)
Rest(names, n) ==
  FlattenSeq([m \in 1 .. Len(names) - n |-> <<"/">> \o names[n + m]])

LEMMA BehindIs == \A n : Behind(n) = Rest(Names, n)
BY DEF Behind, Rest

LEMMA SlashedType ==
  ASSUME NEW names \in Seq(Seq(Char)), NEW k, k = Len(names), NEW n \in 0 .. k
  PROVE  /\ k \in Nat
         /\ [m \in 1 .. k - n |-> <<"/">> \o names[n + m]] \in Seq(Seq(Char))
         /\ Len([m \in 1 .. k - n |-> <<"/">> \o names[n + m]]) = k - n
         /\ Rest(names, n) \in Seq(Char)
<1> DEFINE s == [m \in 1 .. k - n |-> <<"/">> \o names[n + m]]
<1>1. k \in Nat /\ k - n \in Nat
  OBVIOUS
<1>2. ASSUME NEW m \in 1 .. k - n PROVE <<"/">> \o names[n + m] \in Seq(Char)
  <2>1. n + m \in 1 .. k
    BY <1>1
  <2>2. names[n + m] \in Seq(Char)
    BY <2>1, ElementOfSeq
  <2>3. "/" \in Char
    BY CharAssumption
  <2> QED
    BY <2>2, <2>3, SingleIs, ConcatProperties
<1>3. s \in [1 .. k - n -> Seq(Char)]
  BY <1>2
<1> HIDE DEF s
<1>4. s \in Seq(Seq(Char))
  <2> DEFINE w == k - n
  <2>1. w \in Nat /\ s \in [1 .. w -> Seq(Char)]
    BY <1>1, <1>3
  <2> HIDE DEF w
  <2> QED
    BY <2>1, SeqDef
<1>5. Len(s) = k - n
  BY <1>1, <1>3, <1>4
<1>6. FlattenSeq(s) \in Seq(Char)
  BY <1>4, FlattenType
<1> QED
  BY <1>1, <1>4, <1>5, <1>6 DEF s, Rest

(* A sequence of sequences from its first member and the others.           *)
LEMMA FlattenFirst ==
  ASSUME NEW T, NEW k \in Nat, NEW s \in Seq(Seq(T)), Len(s) = k + 1,
         NEW t \in Seq(Seq(T)), Len(t) = k, \A m \in 1 .. k : t[m] = s[1 + m]
  PROVE  FlattenSeq(s) = s[1] \o FlattenSeq(t)
<1>1. s[1] \in Seq(T)
  <2>1. 1 \in 1 .. Len(s)
    OBVIOUS
  <2> QED
    BY <2>1, ElementOfSeq
<1>2. <<s[1]>> \in Seq(Seq(T)) /\ Len(<<s[1]>>) = 1 /\ <<s[1]>>[1] = s[1]
  BY <1>1, SingleIs
<1> DEFINE one == <<s[1]>>
           u == one \o t
<1>3. /\ u \in Seq(Seq(T)) /\ Len(u) = 1 + k
      /\ \A i \in 1 .. 1 : u[i] = one[i]
      /\ \A i \in 1 .. k : u[1 + i] = t[i]
  <2>1. one \in Seq(Seq(T)) /\ Len(one) = 1
    BY <1>2
  <2> HIDE DEF one
  <2>2. PICK m : m = Len(one)
    OBVIOUS
  <2>3. /\ u \in Seq(Seq(T)) /\ Len(u) = m + k
        /\ \A i \in 1 .. m : u[i] = one[i]
        /\ \A i \in 1 .. k : u[m + i] = t[i]
    <3> DEFINE ST == Seq(T)
    <3>1. one \in Seq(ST) /\ t \in Seq(ST) /\ m = Len(one) /\ k = Len(t)
      BY <2>1, <2>2
    <3> HIDE DEF ST
    <3>2. /\ one \o t \in Seq(ST) /\ Len(one \o t) = m + k
          /\ \A i \in 1 .. m : (one \o t)[i] = one[i]
          /\ \A i \in 1 .. k : (one \o t)[m + i] = t[i]
      BY ONLY <3>1, ConcatIs
    <3> QED
      BY <3>2 DEF ST
  <2>4. m = 1
    BY <2>1, <2>2
  <2> HIDE DEF u
  <2> QED
    BY <2>3, <2>4
<1>4. u = s
  <2>1. one[1] = s[1]
    BY <1>2
  <2> HIDE DEF one, u
  <2>2. ASSUME NEW i \in 1 .. k + 1 PROVE u[i] = s[i]
    <3>1. CASE i = 1
      <4>1. u[1] = one[1]
        BY <1>3
      <4> QED
        BY <2>1, <3>1, <4>1
    <3>2. CASE i # 1
      <4>1. PICK j \in 1 .. k : i = 1 + j
        <5>1. i - 1 \in 1 .. k /\ i = 1 + (i - 1)
          BY <3>2
        <5> QED
          BY <5>1
      <4> QED
        BY <1>3, <4>1
    <3> QED
      BY <3>1, <3>2
  <2>3. Len(u) = k + 1 /\ Len(s) = k + 1
    BY <1>3
  <2> QED
    BY <1>3, <2>2, <2>3, SeqEqual
<1>5. FlattenSeq(u) = s[1] \o FlattenSeq(t)
  BY <1>1, FlattenCons
<1> QED
  BY <1>4, <1>5

LEMMA RestNext ==
  ASSUME NEW names \in Seq(Seq(Char)), NEW k, k = Len(names),
         NEW n \in 0 .. k - 1
  PROVE  Rest(names, n) = (<<"/">> \o names[n + 1]) \o Rest(names, n + 1)
<1> DEFINE s(i) == [m \in 1 .. k - i |-> <<"/">> \o names[i + m]]
<1>1. k \in Nat /\ n \in 0 .. k /\ n + 1 \in 0 .. k
      /\ k - (n + 1) \in Nat /\ k - n = (k - (n + 1)) + 1
  OBVIOUS
<1>2. s(n) \in Seq(Seq(Char)) /\ Len(s(n)) = k - n
      /\ s(n + 1) \in Seq(Seq(Char)) /\ Len(s(n + 1)) = k - (n + 1)
  BY <1>1, SlashedType
<1>3. \A m \in 1 .. k - (n + 1) : s(n + 1)[m] = s(n)[1 + m]
  <2> TAKE m \in 1 .. k - (n + 1)
  <2>1. 1 + m \in 1 .. k - n /\ n + (1 + m) = (n + 1) + m
    BY <1>1
  <2> QED
    BY <2>1
<1>4. s(n)[1] = <<"/">> \o names[n + 1]
  <2>1. 1 \in 1 .. k - n
    BY <1>1
  <2> QED
    BY <2>1
<1>5. FlattenSeq(s(n)) = Rest(names, n)
      /\ FlattenSeq(s(n + 1)) = Rest(names, n + 1)
  BY DEF Rest
<1> HIDE DEF s
<1>6. FlattenSeq(s(n)) = s(n)[1] \o FlattenSeq(s(n + 1))
  <2> DEFINE w == k - (n + 1)
             a == s(n)
             b == s(n + 1)
  <2>1. w \in Nat /\ a \in Seq(Seq(Char)) /\ b \in Seq(Seq(Char))
    BY <1>1, <1>2
  <2>2. Len(a) = w + 1 /\ Len(b) = w
    BY <1>1, <1>2
  <2>3. \A m \in 1 .. w : b[m] = a[1 + m]
    BY <1>3
  <2> HIDE DEF w, a, b
  <2>4. FlattenSeq(a) = a[1] \o FlattenSeq(b)
    BY <2>1, <2>2, <2>3, FlattenFirst
  <2> QED
    BY <2>4 DEF a, b
<1> QED
  BY <1>4, <1>5, <1>6

LEMMA RestEmpty ==
  ASSUME NEW names, NEW k \in Nat, k = Len(names)
  PROVE  Rest(names, k) = <<>>
<1>1. 1 .. k - k = {}
  OBVIOUS
<1>2. [m \in 1 .. k - k |-> <<"/">> \o names[k + m]] = <<>>
  BY <1>1
<1> QED
  BY <1>2, FlattenEmpty DEF Rest

(* What is behind the first sequence of two.                               *)
LEMMA TailOfConcat ==
  ASSUME NEW T, NEW s \in Seq(T), NEW t \in Seq(T), NEW m, NEW n,
         m = Len(s), n = Len(t)
  PROVE  SubSeq(s \o t, m + 1, m + n) = t
<1> DEFINE u == s \o t
           w == SubSeq(u, m + 1, m + n)
<1>1. /\ m \in Nat /\ n \in Nat /\ u \in Seq(T) /\ Len(u) = m + n
      /\ \A i \in 1 .. n : u[m + i] = t[i]
  BY ONLY ConcatIs, s \in Seq(T), t \in Seq(T), m = Len(s), n = Len(t)
<1> HIDE DEF u
<1>2. \A i \in m + 1 .. m + n : u[i] \in T
  <2> TAKE i \in m + 1 .. m + n
  <2>1. i \in 1 .. Len(u)
    BY <1>1
  <2> QED
    BY <1>1, <2>1, ElementOfSeq
<1>3. /\ w \in Seq(T)
      /\ Len(w) = IF m + 1 <= m + n THEN (m + n) - (m + 1) + 1 ELSE 0
      /\ \A i \in 1 .. (m + n) - (m + 1) + 1 : w[i] = u[(m + 1) + i - 1]
  <2>1. m + 1 \in Int /\ m + n \in Int
    BY <1>1
  <2> QED
    BY <1>2, <2>1, SubSeqProperties
<1> HIDE DEF w
<1>4. Len(w) = n
  <2>1. Len(w) = IF m + 1 <= m + n THEN (m + n) - (m + 1) + 1 ELSE 0
    BY <1>3
  <2>2. m \in Nat /\ n \in Nat
    BY <1>1
  <2> QED
    BY ONLY <2>1, <2>2
<1>5. ASSUME NEW i \in 1 .. n PROVE w[i] = t[i]
  <2>1. m \in Nat /\ n \in Nat
    BY <1>1
  <2>2. i \in 1 .. (m + n) - (m + 1) + 1 /\ (m + 1) + i - 1 = m + i
    BY ONLY <2>1, i \in 1 .. n
  <2>3. w[i] = u[(m + 1) + i - 1]
    BY <1>3, <2>2
  <2> QED
    BY <1>1, <2>2, <2>3
<1>6. w = t
  BY <1>3, <1>4, <1>5, SeqEqual
<1> QED
  BY <1>6 DEF w, u

(* The first name of a path starts with neither a blank nor a slash.       *)
Begins(body) == Len(body) # 0 => body[1] \notin {" ", "/"}

(* Blanks and one slash in front of a path are taken away, no more.        *)
LEMMA LeadGone ==
  ASSUME NEW lead \in Seq(Char), ProperLead(lead), NEW body \in Seq(Char),
         Begins(body)
  PROVE  WithoutLead(lead \o body) = body
<1> DEFINE a == Len(lead)
           k == Len(body)
           text == lead \o body
           long == text \o <<"nul">>
           I == {i \in 1 .. Len(long) : long[i] # " "}
           q == Min(I)
           rest == SubSeq(text, (q - 1) + 1, Len(text))
<1>1. a \in Nat /\ k \in Nat
  OBVIOUS
<1>2. /\ text \in Seq(Char) /\ Len(text) = a + k
      /\ \A i \in 1 .. a : text[i] = lead[i]
      /\ \A i \in 1 .. k : text[a + i] = body[i]
  <2>1. a = Len(lead) /\ k = Len(body)
    OBVIOUS
  <2> HIDE DEF a, k
  <2> QED
    BY ONLY <2>1, ConcatIs, lead \in Seq(Char), body \in Seq(Char)
<1>3. /\ Len(long) = a + k + 1
      /\ \A i \in 1 .. a + k : long[i] = text[i]
      /\ long[a + k + 1] = "nul"
  <2> HIDE DEF text, a, k
  <2> QED
    BY <1>1, <1>2, SMTT(30)
<1>4. WithoutLead(text) = IF rest # <<>> /\ Head(rest) = "/" THEN Tail(rest)
                                                             ELSE rest
  <2>1. a + k + 1 \in I
    <3>1. "nul" # " "
      BY CharAssumption
    <3>2. a + k + 1 \in 1 .. Len(long)
      BY <1>1, <1>3
    <3> QED
      BY <1>3, <3>1, <3>2
  <2>2. SelectInSeq(long, LAMBDA char : char # " ") = q
    BY <2>1 DEF SelectInSeq
  <2> HIDE DEF q
  <2> QED
    BY <2>2 DEF WithoutLead
<1>5. I \in SUBSET Nat
  <2>1. \A i \in 1 .. Len(long) : i \in Nat
    <3>1. Len(long) = a + k + 1
      BY <1>3
    <3> QED
      BY ONLY <1>1, <3>1
  <2> HIDE DEF long
  <2> QED
    BY ONLY <2>1 DEF I
<1>6. \A i \in DOMAIN lead : i \in 1 .. a
  OBVIOUS
<1>7. long[a + 1] # " " /\ (k # 0 => long[a + 1] # "/")
  <2>1. CASE k = 0
    <3>1. a + k + 1 = a + 1
      BY <1>1, <2>1
    <3>2. long[a + 1] = "nul"
      BY <1>3, <3>1
    <3> QED
      BY <3>2, <2>1, CharAssumption
  <2>2. CASE k # 0
    <3>1. 1 \in 1 .. k /\ a + 1 \in 1 .. a + k
      BY <1>1, <2>2
    <3>2. long[a + 1] = text[a + 1] /\ text[a + 1] = body[1]
      BY <1>2, <1>3, <3>1
    <3>3. body[1] \notin {" ", "/"}
      BY <2>2 DEF Begins
    <3> QED
      BY <3>2, <3>3
  <2> QED
    BY <2>1, <2>2
<1>8. \A i \in 1 .. a : long[i] = lead[i]
  <2> TAKE i \in 1 .. a
  <2>1. i \in 1 .. a + k
    BY <1>1
  <2> QED
    BY <1>2, <1>3, <2>1
<1> HIDE DEF long, text
<1>9. CASE \A i \in 1 .. a : lead[i] = " "
  <2>1. q = a + 1
    <3>1. a + 1 \in I
      <4>1. a + 1 \in 1 .. Len(long)
        BY <1>1, <1>3
      <4> QED
        BY <1>7, <4>1
    <3>2. q \in I /\ q <= a + 1
      <4> HIDE DEF I
      <4> QED
        BY <3>1, <1>5, MinIs
    <3>3. q \in 1 .. Len(long) /\ long[q] # " "
      <4> HIDE DEF q
      <4> QED
        BY <3>2
    <3> HIDE DEF q, I, a
    <3>4. q \notin 1 .. a
      BY <1>8, <1>9, <3>3
    <3>5. q \in Nat
      BY <1>5, <3>2
    <3>6. q # 0
      <4>1. Len(long) = a + k + 1 /\ q \in 1 .. Len(long)
        BY <1>3, <3>3
      <4> QED
        BY ONLY <1>1, <4>1
    <3>7. q <= a + 1
      BY <3>2
    <3> QED
      BY ONLY <3>4, <3>5, <3>6, <3>7, <1>1
  <2> HIDE DEF q
  <2>2. rest = SubSeq(text, a + 1, a + k)
    BY <1>1, <1>2, <2>1
  <2> HIDE DEF a, k
  <2>3. SubSeq(text, a + 1, a + k) = body
    BY <1>1, <1>2, TailOfConcat DEF a, k, text
  <2> HIDE DEF rest
  <2>4. body # <<>> => Head(body) # "/"
    <3>1. body # <<>> => Len(body) # 0 /\ Head(body) = body[1]
      BY ONLY body \in Seq(Char)
    <3> QED
      BY <3>1 DEF Begins
  <2> QED
    BY <1>4, <2>2, <2>3, <2>4 DEF text
<1>10. CASE ~(\A i \in 1 .. a : lead[i] = " ")
  <2>1. /\ a # 0 /\ lead[a] = "/"
        /\ \A i \in 1 .. a - 1 : lead[i] = " "
    <3>1. PICK j \in 1 .. a : lead[j] # " "
      BY <1>10
    <3>2. \A i \in 1 .. a : lead[i] = " " \/ (lead[i] = "/" /\ i = a)
      <4>1. DOMAIN lead = 1 .. a
        OBVIOUS
      <4> QED
        BY <4>1, Zenon DEF ProperLead
    <3>3. j = a /\ lead[a] = "/"
      <4> HIDE DEF a
      <4> QED
        BY <3>1, <3>2
    <3>4. \A i \in 1 .. a - 1 : i \in 1 .. a /\ i # a
      BY <1>1
    <3> HIDE DEF a
    <3>5. a # 0
      BY ONLY <1>1, j \in 1 .. a
    <3>6. \A i \in 1 .. a - 1 : lead[i] = " "
      BY <3>2, <3>4
    <3> QED
      BY <3>3, <3>5, <3>6
  <2>a. a \in Nat \ {0}
    BY <1>1, <2>1
  <2>b. a \in 1 .. a
    <3> HIDE DEF a
    <3> QED
      BY ONLY <2>a
  <2>c. Len(long) = a + k + 1
    BY <1>3
  <2>2. q = a
    <3> HIDE DEF a, k
    <3>1. a \in 1 .. Len(long) /\ "/" # " "
      BY ONLY <1>1, <2>a, <2>c
    <3>2. a \in I
      BY <1>8, <2>1, <2>b, <3>1
    <3>3. q \in I /\ q <= a
      <4> HIDE DEF I
      <4> QED
        BY <3>2, <1>5, MinIs
    <3>4. q \in 1 .. Len(long) /\ long[q] # " "
      <4> HIDE DEF q
      <4> QED
        BY <3>3
    <3> HIDE DEF q, I
    <3>5. q \notin 1 .. a - 1
      <4>1. \A i \in 1 .. a - 1 : i \in 1 .. a
        BY <1>1
      <4> QED
        BY <1>8, <2>1, <3>4, <4>1
    <3>6. q \in Nat
      BY <1>5, <3>3
    <3>7. q # 0
      <4>1. Len(long) = a + k + 1 /\ q \in 1 .. Len(long)
        BY <1>3, <3>4
      <4> QED
        BY ONLY <1>1, <4>1
    <3>8. q <= a
      BY <3>3
    <3> QED
      BY ONLY <3>5, <3>6, <3>7, <3>8, <1>1
  <2> HIDE DEF q
  <2>3. rest = SubSeq(text, a, a + k)
    BY <1>1, <1>2, <2>2
  <2>d. Len(text) = a + k
    BY <1>2
  <2>4. a \in 1 .. Len(text) /\ a + k \in a .. Len(text)
    <3> HIDE DEF a, k
    <3> QED
      BY ONLY <1>1, <2>a, <2>d
  <2> HIDE DEF a, k
  <2>5. /\ Head(SubSeq(text, a, a + k)) = text[a]
        /\ Tail(SubSeq(text, a, a + k)) = SubSeq(text, a + 1, a + k)
    BY <1>2, <2>4, HeadTailOfSubSeq
  <2>6. SubSeq(text, a + 1, a + k) = body
    BY <1>1, <1>2, TailOfConcat DEF a, k, text
  <2>7. text[a] = "/"
    BY <1>2, <2>1, <2>b
  <2>8. SubSeq(text, a, a + k) # <<>>
    <3> DEFINE w == SubSeq(text, a, a + k)
    <3>1. \A i \in a .. a + k : text[i] \in Char
      <4>1. \A i \in a .. a + k : i \in 1 .. Len(text)
        BY ONLY <1>1, <2>a, <2>d
      <4> QED
        BY <1>2, <4>1, ElementOfSeq
    <3>2. Len(w) = (a + k) - a + 1
      <4>1. a \in Int /\ a + k \in Int /\ a <= a + k
        BY <1>1
      <4> QED
        BY <3>1, <4>1, SubSeqProperties
    <3>3. Len(w) # 0
      BY <3>2, <1>1
    <3> HIDE DEF w
    <3>4. w # <<>>
      BY <3>3
    <3> QED
      BY <3>4 DEF w
  <2> HIDE DEF rest
  <2> QED
    BY <1>4, <2>3, <2>5, <2>6, <2>7, <2>8 DEF text
<1> QED
  BY <1>9, <1>10

(* A proper name starts with a character of a name.                        *)
LEMMA NameStart ==
  ASSUME NEW text \in Seq(Char), ProperName(text)
  PROVE  /\ Len(text) \in Nat \ {0}
         /\ text[1] \notin {" ", "/", "nul"}
<1>1. PICK p \in 2 .. Len(text) + 1 : DotAt(text, p)
  BY DEF ProperName
<1>2. Len(text) \in Nat
  OBVIOUS
<1>3. Len(text) # 0
  BY ONLY <1>2, p \in 2 .. Len(text) + 1
<1>4. 1 \in DOMAIN text \ {p}
  <2>1. 1 \in 1 .. Len(text) /\ 1 # p
    BY ONLY <1>2, <1>3, p \in 2 .. Len(text) + 1
  <2> QED
    BY <2>1
<1>5. text[1] \notin {" ", "/"}
  BY <1>1, <1>4, Zenon DEF DotAt
<1>6. text[1] \in Char
  <2>1. 1 \in 1 .. Len(text)
    BY ONLY <1>2, <1>3
  <2> QED
    BY ONLY <2>1, text \in Seq(Char), ElementOfSeq
<1>7. text[1] # "nul"
  BY <1>6, CharAssumption
<1> QED
  BY <1>2, <1>3, <1>5, <1>7

(* What pf_open makes of a path: its names with slashes between them.      *)
LEMMA TypedIs ==
  ASSUME NEW i \in DOMAIN Paths, ProperPath(Paths[i]), NEW names, NEW k,
         names = Paths[i].names, k = Len(names)
  PROVE  /\ names \in Seq(Seq(Char)) /\ k \in Nat
         /\ \A n \in 1 .. k : names[n] \in Seq(Char) /\ ProperName(names[n])
         /\ k = 0 => WithoutLead(Typed[i]) = <<>>
         /\ k # 0 => WithoutLead(Typed[i]) = names[1] \o Rest(names, 1)
<1> DEFINE lead == Paths[i].lead
           part == [n \in DOMAIN names |->
                      IF n = 1 THEN names[n] ELSE <<"/">> \o names[n]]
           body == FlattenSeq(part)
<1>1. Paths[i] \in [lead : Seq(Char), names : Seq(Seq(Char))]
  <2>1. i \in 1 .. Len(Paths)
    BY CallerAssumption
  <2> QED
    BY <2>1, CallerAssumption, ElementOfSeq
<1>2. lead \in Seq(Char) /\ names \in Seq(Seq(Char))
  BY <1>1
<1>3. k \in Nat /\ DOMAIN names = 1 .. k
  BY <1>2
<1>4. Typed[i] = lead \o body
  BY DEF Typed
<1>5. \A n \in 1 .. k : names[n] \in Seq(Char) /\ ProperName(names[n])
  <2> TAKE n \in 1 .. k
  <2>1. names[n] \in Seq(Char)
    BY <1>2, <1>3, ElementOfSeq
  <2>2. ProperName(names[n])
    BY <1>3, Zenon DEF ProperPath
  <2> QED
    BY <2>1, <2>2
<1>6. ProperLead(lead)
  BY DEF ProperPath
<1> HIDE DEF lead
<1>7. CASE k = 0
  <2>1. part = <<>>
    <3>1. DOMAIN names = {}
      BY ONLY <1>3, <1>7
    <3> QED
      BY <3>1
  <2>2. body = <<>>
    BY <2>1, FlattenEmpty
  <2> HIDE DEF body
  <2>3. body \in Seq(Char) /\ Begins(body)
    BY <2>2 DEF Begins
  <2>4. WithoutLead(Typed[i]) = body
    BY <1>2, <1>4, <1>6, <2>3, LeadGone
  <2> QED
    BY <1>2, <1>3, <1>5, <1>7, <2>2, <2>4
<1>8. CASE k # 0
  <2> DEFINE w == k - 1
             t == [m \in 1 .. w |-> <<"/">> \o names[1 + m]]
  <2>1. w \in Nat /\ k = w + 1 /\ 1 \in 0 .. k /\ 1 \in 1 .. k
    BY ONLY <1>3, <1>8
  <2>2. t \in Seq(Seq(Char)) /\ Len(t) = w /\ Rest(names, 1) = FlattenSeq(t)
    BY <1>2, <2>1, SlashedType DEF Rest
  <2>3. /\ \A m \in 1 .. w : t[m] = part[1 + m]
        /\ part[1] = names[1]
    <3>1. \A m \in 1 .. w : 1 + m \in 1 .. k /\ 1 + m # 1
      BY ONLY <2>1
    <3>2. \A m \in 1 .. w : part[1 + m] = <<"/">> \o names[1 + m]
      BY <1>3, <3>1
    <3> HIDE DEF w
    <3>3. part[1] = names[1]
      BY <1>3, <2>1
    <3> HIDE DEF part
    <3> QED
      BY <3>2, <3>3
  <2>4. part \in Seq(Seq(Char)) /\ Len(part) = w + 1
    <3>1. ASSUME NEW n \in 1 .. k PROVE part[n] \in Seq(Char)
      <4>1. names[n] \in Seq(Char) /\ "/" \in Char
        BY <1>5, CharAssumption
      <4>2. <<"/">> \o names[n] \in Seq(Char)
        BY ONLY <4>1, SingleIs, ConcatProperties
      <4> QED
        BY <1>3, <4>1, <4>2
    <3>2. part \in [1 .. k -> Seq(Char)]
      BY <1>3, <3>1
    <3> HIDE DEF part, w
    <3>3. part \in Seq(Seq(Char))
      BY ONLY <1>3, <3>2, SeqDef
    <3>4. Len(part) = k
      BY ONLY <1>3, <3>2, <3>3
    <3> QED
      BY <2>1, <3>3, <3>4
  <2> HIDE DEF part, t, w
  <2>5. body = part[1] \o FlattenSeq(t)
    BY ONLY <2>1, <2>2, <2>3, <2>4, FlattenFirst DEF body
  <2>6. body = names[1] \o Rest(names, 1)
    BY <2>2, <2>3, <2>5
  <2>7. body \in Seq(Char) /\ Begins(body)
    <3>1. /\ names[1] \in Seq(Char) /\ Len(names[1]) \in Nat \ {0}
          /\ names[1][1] \notin {" ", "/"}
      BY <1>5, <2>1, NameStart
    <3>2. Rest(names, 1) \in Seq(Char)
      BY <1>2, <2>1, SlashedType
    <3> DEFINE first == names[1]
               other == Rest(names, 1)
    <3>3. first \in Seq(Char) /\ other \in Seq(Char)
          /\ Len(first) \in Nat \ {0} /\ first[1] \notin {" ", "/"}
      BY <3>1, <3>2
    <3>4. body = first \o other
      BY <2>6
    <3> HIDE DEF first, other, body
    <3>5. /\ first \o other \in Seq(Char)
          /\ \A j \in 1 .. Len(first) : (first \o other)[j] = first[j]
      <4>1. PICK a, b : a = Len(first) /\ b = Len(other)
        OBVIOUS
      <4>2. first \in Seq(Char) /\ other \in Seq(Char)
        BY <3>3
      <4>3. /\ first \o other \in Seq(Char)
            /\ \A j \in 1 .. a : (first \o other)[j] = first[j]
        BY ONLY <4>1, <4>2, ConcatIs
      <4> QED
        BY <4>1, <4>3, Zenon
    <3>6. 1 \in 1 .. Len(first)
      <4>1. Len(first) \in Nat \ {0}
        BY <3>3
      <4> QED
        BY ONLY <4>1
    <3>7. (first \o other)[1] = first[1]
      BY <3>5, <3>6
    <3> QED
      BY <3>3, <3>4, <3>5, <3>7 DEF Begins
  <2> HIDE DEF body
  <2>8. WithoutLead(Typed[i]) = body
    BY <1>2, <1>4, <1>6, <2>7, LeadGone
  <2> QED
    BY <1>2, <1>3, <1>5, <1>8, <2>6, <2>8
<1> QED
  BY <1>7, <1>8

-----------------------------------------------------------------------------
(* The search for a file.                                                  *)

LEMMA CardIsProper ==
  ASSUME Proper, card \in DOMAIN Disks
  PROVE  ProperEntries(disk)
BY DEF Proper, disk

LEMMA OpenPathIs ==
  ASSUME TypeOK, Proper, call.op = "open", NEW k, k = Len(Names)
  PROVE  /\ call.arg \in DOMAIN Paths
         /\ Names \in Seq(Seq(Char)) /\ k \in Nat
         /\ \A n \in 1 .. k : Names[n] \in Seq(Char) /\ ProperName(Names[n])
         /\ k = 0 => WithoutLead(Typed[call.arg]) = <<>>
         /\ k # 0 => WithoutLead(Typed[call.arg]) = Names[1] \o Behind(1)
<1> DEFINE i == call.arg
           names == Paths[i].names
<1>1. i \in DOMAIN Paths
  BY CallTypes DEF TypeOK, Idle
<1>2. ProperPath(Paths[i])
  BY <1>1 DEF Proper
<1>3. Behind(1) = Rest(Names, 1) /\ Names = names
  BY BehindIs DEF Names
<1> HIDE DEF i
<1>4. k = Len(names)
  BY <1>3
<1> HIDE DEF names
<1>5. names = Paths[i].names
  BY DEF names
<1>6. /\ names \in Seq(Seq(Char)) /\ k \in Nat
      /\ \A n \in 1 .. k : names[n] \in Seq(Char) /\ ProperName(names[n])
      /\ k = 0 => WithoutLead(Typed[i]) = <<>>
      /\ k # 0 => WithoutLead(Typed[i]) = names[1] \o Rest(names, 1)
  BY ONLY <1>1, <1>2, <1>4, <1>5, TypedIs
<1> QED
  BY <1>1, <1>3, <1>6 DEF i

(* What is known while name n + 1 of a path is looked for.                 *)
Looking(k, n) ==
  /\ IsDisk(disk) /\ Describes /\ ProperEntries(disk)
  /\ fs \in FATFS /\ dj \in DIR /\ path \in Seq(Char)
  /\ k \in Nat /\ k = Len(Names) /\ n \in 0 .. k - 1 /\ n + 1 \in 1 .. k
  /\ Names \in Seq(Seq(Char))
  /\ \A m \in 1 .. k : Names[m] \in Seq(Char) /\ ProperName(Names[m])
  /\ Reached(n) \in Targets
  /\ Reached(n + 1) = NextPlace(Reached(n), Names[n + 1])
  /\ Reached(k) = Resolved(disk, Names)

LEMMA LookingIs ==
  ASSUME FileInv, Proper, pc \in {"segment", "find"},
         NEW n \in 0 .. Len(Names) - 1
  PROVE  \E k : Looking(k, n)
<1>1. PICK k : k = Len(Names)
  OBVIOUS
<1>2. /\ TypeOK /\ IsDisk(disk) /\ Describes /\ call.op = "open"
      /\ fs \in FATFS /\ dj \in DIR /\ path \in Seq(Char)
  BY SearchFacts
<1>3. ProperEntries(disk)
  BY <1>2, CardIsProper DEF TypeOK
<1>4. /\ Names \in Seq(Seq(Char)) /\ k \in Nat
      /\ \A m \in 1 .. k : Names[m] \in Seq(Char) /\ ProperName(Names[m])
  BY ONLY <1>1, <1>2, Proper, OpenPathIs
<1>5. n \in 0 .. k - 1
  BY <1>1
<1>6. n \in 0 .. k /\ n + 1 \in 1 .. k
  BY ONLY <1>4, <1>5
<1>7. \A m : Reached(m) = Reach(Names, m)
  BY DEF Reached, Reach
<1>8. /\ Reach(Names, n) \in Targets
      /\ Reach(Names, n + 1) = NextPlace(Reach(Names, n), Names[n + 1])
      /\ Reach(Names, k) = Resolved(disk, Names)
  <2> DEFINE names == Names
  <2>1. names \in Seq(Seq(Char)) /\ k = Len(names) /\ k \in Nat
    BY <1>1, <1>4
  <2> HIDE DEF names
  <2>2. /\ Reach(names, n) \in Targets
        /\ Reach(names, n + 1) = NextPlace(Reach(names, n), names[n + 1])
        /\ Reach(names, k) = Resolved(disk, names)
    BY <1>2, <1>5, <1>6, <2>1, ReachFacts
  <2> QED
    BY <2>2 DEF names
<1>9. Looking(k, n)
  BY <1>1, <1>2, <1>3, <1>4, <1>5, <1>6, <1>7, <1>8 DEF Looking
<1> QED
  BY <1>9

(* A way that ends before the file leads to none.                          *)
LEMMA NoFileThere ==
  ASSUME NEW k, NEW n, Looking(k, n),
         \/ Reached(n + 1) = NoEntry
         \/ n + 1 # k /\ Reached(n + 1).kind # "dir"
         \/ n + 1 = k /\ Reached(n + 1).kind # "file"
  PROVE  ~IsFile(disk, Names)
<1>1. /\ IsDisk(disk) /\ Names \in Seq(Seq(Char)) /\ k \in Nat
      /\ k = Len(Names) /\ n + 1 \in 1 .. k
      /\ Reached(k) = Resolved(disk, Names)
  BY DEF Looking
<1>2. CASE n + 1 = k /\ Reached(n + 1).kind # "file"
  BY <1>1, <1>2 DEF IsFile
<1>3. CASE /\ Reached(n + 1).kind # "dir"
           /\ n + 1 = k => Reached(n + 1).kind # "file"
  <2> DEFINE m == n + 1
             names == Names
  <2>1. Reached(m) = Reach(names, m)
    BY DEF Reached, Reach
  <2>2. m \in 1 .. k /\ names \in Seq(Seq(Char)) /\ k = Len(names)
    BY <1>1
  <2>3. /\ Reach(names, m).kind # "dir"
        /\ m = k => Reach(names, m).kind # "file"
    BY <1>3, <2>1
  <2> HIDE DEF m, names
  <2>4. ~IsFile(disk, names)
    BY ONLY <1>1, <2>2, <2>3, NoWayOn
  <2> QED
    BY <2>4 DEF names
<1>4. Reached(n + 1) = NoEntry => Reached(n + 1).kind = "none"
  BY DEF NoEntry
<1> QED
  BY <1>2, <1>3, <1>4

(* The first name of the path.                                             *)
LEMMA BeginOpenSearch ==
  ASSUME FileInv, CallInv, Proper, BeginOpen, pc' = "segment"
  PROVE  Len(Names)' \in Nat \ {0} /\ SegmentAt(0)'
<1> DEFINE text == WithoutLead(Typed[call.arg])
           k == Len(Names)
<1>1. /\ pc = "open" /\ call.op = "open" /\ fatFs /\ dj = NoDir
      /\ TypeOK /\ Describes /\ IsDisk(disk)
  <2>1. TypeOK /\ card \in DOMAIN Disks
    BY DEF FileInv, TypeOK
  <2> QED
    BY <2>1, CardIsDisk
       DEF BeginOpen, FileInv, MountInv, ExtentInv, CallInv
<1>2. /\ text # <<>>
      /\ path' = text /\ call' = call /\ dj' = dj /\ card' = card
  BY DEF BeginOpen, GoTo, Return
<1> HIDE DEF text
<1>3. k \in Nat \ {0} /\ text = Names[1] \o Behind(1)
      /\ Names \in Seq(Seq(Char))
  BY <1>1, <1>2, OpenPathIs DEF text
<1>4. Reached(0) = RootEntry
  <2>1. Reached(0) = Reach(Names, 0)
    BY DEF Reached, Reach
  <2> QED
    BY <1>1, <1>3, <2>1, ReachFacts
<1>5. Names' = Names /\ disk' = disk
  BY <1>2 DEF Names, disk
<1>6. Reached(0)' = Reached(0) /\ Behind(1)' = Behind(1)
  BY <1>5 DEF Reached, Behind
<1>7. Reached(0).kind = "dir" /\ Reached(0).clust = 0 /\ dj.sclust = 0
  BY <1>1, <1>4 DEF RootEntry, NoEntry, NoDir
<1>8. path' = Names[0 + 1] \o Behind(0 + 1)
  BY <1>2, <1>3
<1> QED
  BY <1>2, <1>3, <1>5, <1>6, <1>7, <1>8 DEF SegmentAt, SearchIn

(* A text of a name and what is behind it, read by create_name.            *)
NameThenText(long, name, l) ==
  /\ l \in Nat /\ l = Len(name)
  /\ \A i \in 1 .. l : long[i] = name[i]

TextBehind(body, l, text) == SubSeq(body, (l + 1) + 1, Len(body)) = text

LEMMA NamesAssociate ==
  \A x, y, z \in Seq(Char) : x \o (y \o z) = (x \o y) \o z
<1> TAKE x, y, z \in Seq(Char)
<1> QED
  BY ONLY x \in Seq(Char), y \in Seq(Char), z \in Seq(Char),
     ConcatAssociative, SMTT(30)

LEMMA NameAlone ==
  ASSUME NEW name \in Seq(Char), NEW l, l = Len(name)
  PROVE  LET long == (name \o <<>>) \o <<"nul">>
         IN  NameThenText(long, name, l) /\ long[l + 1] = "nul"
<1> DEFINE body == name \o <<>>
           long == body \o <<"nul">>
<1>1. body = name
  BY ConcatEmptySeq
<1>2. /\ l \in Nat
      /\ \A i \in 1 .. l : (name \o <<"nul">>)[i] = name[i]
      /\ (name \o <<"nul">>)[l + 1] = "nul"
  OBVIOUS
<1>3. long = name \o <<"nul">>
  BY <1>1
<1> HIDE DEF long
<1> QED
  BY <1>2, <1>3 DEF NameThenText, long

LEMMA NameAndOthers ==
  ASSUME NEW name \in Seq(Char), NEW l, l = Len(name),
         NEW a \in Seq(Char), NEW b \in Seq(Char),
         NEW body, body = name \o ((<<"/">> \o a) \o b),
         NEW long, long = body \o <<"nul">>
  PROVE  /\ NameThenText(long, name, l) /\ long[l + 1] = "/"
         /\ TextBehind(body, l, a \o b)
<1> DEFINE slash == <<"/">>
           first == name \o slash
           other == a \o b
<1>0. body = name \o ((slash \o a) \o b)
  OBVIOUS
<1>1. slash \in Seq(Char) /\ Len(slash) = 1 /\ slash[1] = "/"
  BY CharAssumption, SingleIs
<1> HIDE DEF slash
<1>2. other \in Seq(Char)
  BY ConcatProperties
<1>3. /\ l \in Nat /\ first \in Seq(Char) /\ Len(first) = l + 1
      /\ \A i \in 1 .. l : first[i] = name[i]
      /\ first[l + 1] = "/"
  <2>1. PICK m, n : m = l /\ n = 1
    OBVIOUS
  <2>2. m = Len(name) /\ n = Len(slash)
    BY <1>1, <2>1
  <2>3. /\ m \in Nat /\ n \in Nat /\ name \o slash \in Seq(Char)
        /\ Len(name \o slash) = m + n
        /\ \A i \in 1 .. m : (name \o slash)[i] = name[i]
        /\ \A i \in 1 .. n : (name \o slash)[m + i] = slash[i]
    <3>1. slash \in Seq(Char)
      BY <1>1
    <3> QED
      BY ONLY <3>1, <2>2, name \in Seq(Char), ConcatIs
  <2>4. 1 \in 1 .. n
    BY <2>1
  <2>5. (name \o slash)[m + 1] = slash[1]
    BY <2>3, <2>4
  <2> HIDE DEF first
  <2> QED
    BY <1>1, <2>1, <2>3, <2>5 DEF first
<1>4. body = first \o other
  <2>1. (slash \o a) \o b = slash \o (a \o b)
    <3>1. slash \in Seq(Char)
      BY <1>1
    <3> QED
      BY ONLY <3>1, a \in Seq(Char), b \in Seq(Char), NamesAssociate, Zenon
  <2>2. name \o (slash \o (a \o b)) = (name \o slash) \o (a \o b)
    <3> DEFINE c == a \o b
    <3>1. slash \in Seq(Char)
      BY <1>1
    <3>2. c \in Seq(Char)
      BY <1>2 DEF other
    <3> HIDE DEF c, slash, first, other
    <3>3. name \o (slash \o c) = (name \o slash) \o c
      BY ONLY <3>1, <3>2, name \in Seq(Char), NamesAssociate, SMTT(30)
    <3> QED
      BY <3>3 DEF c
  <2> QED
    BY <1>0, <2>1, <2>2
<1> HIDE DEF first, other
<1>5. PICK n : n = Len(other)
  OBVIOUS
<1>6. PICK m : m = l + 1
  OBVIOUS
<1>7. /\ m \in Nat /\ n \in Nat /\ body \in Seq(Char) /\ Len(body) = m + n
      /\ \A i \in 1 .. m : body[i] = first[i]
  <2>1. m = Len(first)
    BY <1>3, <1>6
  <2>2. /\ m \in Nat /\ n \in Nat /\ first \o other \in Seq(Char)
        /\ Len(first \o other) = m + n
        /\ \A i \in 1 .. m : (first \o other)[i] = first[i]
    BY ONLY <1>2, <1>3, <1>5, <2>1, ConcatIs
  <2> QED
    BY <1>4, <2>2
<1>8. SubSeq(body, m + 1, m + n) = other
  <2>1. m = Len(first)
    BY <1>3, <1>6
  <2> QED
    BY ONLY <1>2, <1>3, <1>4, <1>5, <2>1, TailOfConcat
<1>9. \A i \in 1 .. m : long[i] = body[i]
  <2>1. \A i \in 1 .. Len(body) : long[i] = body[i]
    BY <1>7
  <2>2. \A i \in 1 .. m : i \in 1 .. Len(body)
    BY <1>7
  <2> QED
    BY <2>1, <2>2
<1>10. \A i \in 1 .. l : long[i] = name[i]
  <2> TAKE i \in 1 .. l
  <2>1. i \in 1 .. m
    BY <1>3, <1>6
  <2> QED
    BY <1>3, <1>7, <1>9, <2>1
<1>11. long[l + 1] = "/"
  <2>1. m \in 1 .. m
    BY <1>3, <1>6
  <2> QED
    BY <1>3, <1>6, <1>7, <1>9, <2>1
<1>12. SubSeq(body, (l + 1) + 1, Len(body)) = other
  BY <1>6, <1>7, <1>8
<1> QED
  BY <1>3, <1>10, <1>11, <1>12 DEF NameThenText, TextBehind, other

(* The directory of name n + 1 has an entry 0, where the search begins, or *)
(* dir_rewind finds no cluster.                                            *)
LEMMA RewoundPlace ==
  ASSUME IsDisk(disk), Describes, fs \in FATFS, NEW d \in DIR
  PROVE  /\ CanRewind(d.sclust) <=> DirHas(disk, d.sclust, 0)
         /\ CanRewind(d.sclust) =>
              /\ EntryPlace(Rewound(d)) /\ Rewound(d).index = 0
              /\ Rewound(d).sclust = d.sclust
              /\ Rewound(d).fn = d.fn /\ Rewound(d).last = d.last
<1> DEFINE c == d.sclust
           b == Bpb(disk)
           r == Rewound(d)
<1>1. c \in Nat
  BY DEF DIR
<1>2. /\ Formatted(b) /\ b.csize \in Nat \ {0} /\ b.rootent \in Nat \ {0}
      /\ Clusters(b) \in Nat
      /\ fs.max_clust = Clusters(b) + 2 /\ fs.csize = b.csize
      /\ fs.n_rootdir = b.rootent
  BY VolumeFacts, BpbFacts DEF Describes
<1>3. /\ 0 \div DirSize = 0 /\ 0 \div b.csize = 0 /\ 0 % b.csize = 0
      /\ DirSize \in Nat \ {0}
  BY <1>2, VolumeAssumption
<1>4. ClusterAt(disk, c, 0) = c
  BY <1>1, ClusterAtFirst
<1>5. /\ r.index = 0 /\ r.sclust = c /\ r.clust = c
      /\ r.fn = d.fn /\ r.last = d.last
      /\ r.sect = IF c # 0 THEN Clust2Sect(c) ELSE fs.dirbase
  BY DEF Rewound, DIR
<1> HIDE DEF c, b, r
<1>6. /\ c = 0 => /\ DirHas(disk, c, 0) <=> 0 < fs.n_rootdir
                  /\ DirSector(disk, c, 0) = fs.dirbase + 0
      /\ c # 0 => /\ DirHas(disk, c, 0) <=> IsCluster(disk, c)
                  /\ IsCluster(disk, c) =>
                       DirSector(disk, c, 0) = Clust2Sect(c) + 0
  <2>1. PICK i : i = 0
    OBVIOUS
  <2> DEFINE m == i \div DirSize
             q == m \div Bpb(disk).csize
             e == ClusterAt(disk, c, q)
  <2>2. i \in Nat /\ m = 0 /\ q = 0 /\ m % b.csize = 0
    BY <1>3, <2>1 DEF b
  <2>3. /\ c = 0 => /\ DirHas(disk, c, i) <=> i < fs.n_rootdir
                    /\ DirSector(disk, c, i) = fs.dirbase + m
        /\ c # 0 => /\ DirHas(disk, c, i) <=> IsCluster(disk, e)
                    /\ IsCluster(disk, e) =>
                         DirSector(disk, c, i)
                           = Clust2Sect(e) + (m % Bpb(disk).csize)
    BY ONLY <1>1, <2>2, IsDisk(disk), Describes, DirPlace
  <2> HIDE DEF m
  <2> QED
    BY <1>4, <2>1, <2>2, <2>3 DEF b
<1>7. fs.dirbase \in Nat /\ Clust2Sect(c) \in Nat
  BY <1>1, Clust2SectIs DEF FATFS
<1>8. c = 0 => CanRewind(c) /\ DirHas(disk, c, 0)
  BY <1>2, <1>6 DEF CanRewind
<1>9. c # 0 => (CanRewind(c) <=> IsCluster(disk, c))
  BY <1>1, <1>2 DEF CanRewind, IsCluster, b
<1>10. CanRewind(c) <=> DirHas(disk, c, 0)
  BY <1>6, <1>8, <1>9
<1>11. ASSUME CanRewind(c) PROVE EntryPlace(r)
  <2>1. r.sect = DirSector(disk, c, 0)
    BY <1>5, <1>6, <1>7, <1>8, <1>9, <1>11
  <2>2. (0 \div DirSize) \div fs.csize = 0
    BY <1>2, <1>3
  <2> QED
    BY <1>4, <1>5, <1>10, <1>11, <2>1, <2>2 DEF EntryPlace
<1> QED
  BY <1>5, <1>10, <1>11 DEF c, r

(* create_name takes the whole name, and leaves what is behind it.         *)
LEMMA SegmentRead ==
  ASSUME NEW k, NEW n, Looking(k, n), SegmentAt(n),
         NEW si \in DOMAIN (path \o <<"nul">>),
         FirstBreak(path \o <<"nul">>, si)
  PROVE  LET long == path \o <<"nul">>
         IN  /\ CreateName(long, si) = DirForm(Names[n + 1])
             /\ IsEnd(long[si]) <=> n + 1 = k
             /\ n + 1 # k => SubSeq(path, si + 1, Len(path))
                               = Names[n + 2] \o Behind(n + 2)
<1> DEFINE long == path \o <<"nul">>
           name == Names[n + 1]
           names == Names
<1>1. /\ path \in Seq(Char) /\ k \in Nat /\ n \in 0 .. k - 1 /\ n + 1 \in 1 .. k
      /\ names \in Seq(Seq(Char)) /\ k = Len(names)
      /\ \A m \in 1 .. k : names[m] \in Seq(Char) /\ ProperName(names[m])
  BY DEF Looking
<1>2. name \in Seq(Char) /\ ProperName(name)
  BY <1>1
<1>3. path = name \o Rest(names, n + 1)
  BY BehindIs DEF SegmentAt
<1>4. si \in Nat \ {0}
  BY <1>1
<1>5. PICK l : l = Len(name)
  OBVIOUS
<1>6. PICK p : DotAt(name, p)
  BY <1>2, ProperIs
<1> HIDE DEF long, name, names
<1>7. CASE n + 1 = k
  <2>1. path = name \o <<>>
    <3>1. Rest(names, k) = <<>>
      BY ONLY <1>1, RestEmpty
    <3> QED
      BY <1>3, <1>7, <3>1
  <2>2. NameThenText(long, name, l) /\ long[l + 1] = "nul"
    BY <1>2, <1>5, <2>1, NameAlone DEF long
  <2>3. si = Len(name) + 1 /\ CreateName(long, Len(name) + 1) = NameForm(name, p)
    <3>1. \A i \in 1 .. Len(name) : long[i] = name[i]
      BY <1>5, <2>2 DEF NameThenText
    <3>2. long[Len(name) + 1] \in {"nul", "/"}
      BY <1>5, <2>2
    <3>3. FirstBreak(long, si)
      BY DEF long
    <3> QED
      BY ONLY <1>2, <1>4, <1>6, <3>1, <3>2, <3>3, FirstBreakIs, CreateNameIs
  <2>4. DirForm(name) = NameForm(name, p)
    BY <1>2, <1>6, DirFormIs
  <2>5. IsEnd(long[si])
    BY <1>5, <2>2, <2>3 DEF IsEnd
  <2> QED
    BY <1>7, <2>3, <2>4, <2>5 DEF long, name
<1>8. CASE n + 1 # k
  <2>1. n + 1 \in 0 .. k - 1 /\ n + 2 \in 1 .. k /\ n + 2 \in 0 .. k
        /\ (n + 1) + 1 = n + 2
    BY ONLY <1>1, <1>8
  <2> DEFINE a == names[n + 2]
             b == Rest(names, n + 2)
  <2>2. a \in Seq(Char) /\ b \in Seq(Char)
    BY <1>1, <2>1, SlashedType
  <2>3. path = name \o ((<<"/">> \o a) \o b)
    <3>1. Rest(names, n + 1) = (<<"/">> \o names[(n + 1) + 1])
                                 \o Rest(names, (n + 1) + 1)
      BY ONLY <1>1, <2>1, RestNext
    <3> QED
      BY <1>3, <2>1, <3>1
  <2> HIDE DEF a, b
  <2>4. /\ NameThenText(long, name, l) /\ long[l + 1] = "/"
        /\ SubSeq(path, (l + 1) + 1, Len(path)) = a \o b
    <3>1. name \in Seq(Char) /\ long = path \o <<"nul">>
      BY <1>2 DEF long
    <3>2. NameThenText(long, name, l)
      BY ONLY <1>5, <2>2, <2>3, <3>1, NameAndOthers
    <3>3. long[l + 1] = "/"
      BY ONLY <1>5, <2>2, <2>3, <3>1, NameAndOthers
    <3>4. SubSeq(path, (l + 1) + 1, Len(path)) = a \o b
      <4>1. TextBehind(path, l, a \o b)
        BY ONLY <1>5, <2>2, <2>3, <3>1, NameAndOthers
      <4> QED
        BY <4>1 DEF TextBehind
    <3> QED
      BY <3>2, <3>3, <3>4
  <2>5. si = Len(name) + 1 /\ CreateName(long, Len(name) + 1) = NameForm(name, p)
    <3>1. \A i \in 1 .. Len(name) : long[i] = name[i]
      BY <1>5, <2>4 DEF NameThenText
    <3>2. long[Len(name) + 1] \in {"nul", "/"}
      BY <1>5, <2>4
    <3>3. FirstBreak(long, si)
      BY DEF long
    <3> QED
      BY ONLY <1>2, <1>4, <1>6, <3>1, <3>2, <3>3, FirstBreakIs, CreateNameIs
  <2>6. DirForm(name) = NameForm(name, p)
    BY <1>2, <1>6, DirFormIs
  <2>7. ~IsEnd(long[si])
    <3>1. "/" # "nul" /\ "/" # " "
      BY CharAssumption
    <3> QED
      BY <1>5, <2>4, <2>5, <3>1 DEF IsEnd
  <2>8. b = Behind(n + 2)
    BY BehindIs DEF b, names
  <2>9. SubSeq(path, si + 1, Len(path)) = a \o b
    BY <1>5, <2>4, <2>5
  <2> QED
    BY <1>8, <2>5, <2>6, <2>7, <2>8, <2>9 DEF long, name, a, names
<1> QED
  BY <1>7, <1>8

(* What the search goes by stays the same while it runs.                   *)
LEMMA SearchKept ==
  ASSUME card' = card, call' = call
  PROVE  /\ Names' = Names /\ disk' = disk
         /\ \A n : Reached(n)' = Reached(n) /\ Behind(n)' = Behind(n)
         /\ \A text : DirForm(text)' = DirForm(text)
<1>1. Names' = Names /\ disk' = disk
  BY DEF Names, disk
<1> QED
  BY <1>1 DEF Reached, Behind, DirForm, CreateName, Dots, ToUpper

(* A DIR object that has moved is still at an entry.                       *)
LEMMA PlaceMoved ==
  ASSUME card' = card, fs'.csize = fs.csize, NEW d, dj' = d, EntryPlace(d)
  PROVE  EntryPlace(dj)'
BY DEF EntryPlace, disk

LEMMA FollowSegmentSearch ==
  ASSUME FileInv, Proper, NEW n \in 0 .. Len(Names) - 1, SegmentAt(n),
         FollowSegment, pc' = "find"
  PROVE  FindAt(n)'
<1> DEFINE long == path \o <<"nul">>
<1>1. pc = "segment" /\ card' = card /\ fs' = fs /\ call' = call
  <2>1. pc = "segment" /\ card' = card /\ UNCHANGED handle
    BY DEF FollowSegment
  <2>2. call' = call
    BY DEF FollowSegment, Return, GoTo
  <2> QED
    BY <2>1, <2>2 DEF handle
<1>2. PICK k : Looking(k, n)
  BY <1>1, LookingIs
<1>3. /\ CanRewind(dj.sclust)
      /\ \E si \in DOMAIN long :
           /\ FirstBreak(long, si)
           /\ dj' = Rewound([dj EXCEPT !.fn = CreateName(long, si),
                                      !.last = IsEnd(long[si])])
           /\ path' = SubSeq(path, si + 1, Len(path))
  BY DEF FollowSegment, Return
<1>4. PICK si \in DOMAIN long :
        /\ FirstBreak(long, si)
        /\ dj' = Rewound([dj EXCEPT !.fn = CreateName(long, si),
                                   !.last = IsEnd(long[si])])
        /\ path' = SubSeq(path, si + 1, Len(path))
  BY <1>3
<1> DEFINE d == [dj EXCEPT !.fn = CreateName(long, si),
                           !.last = IsEnd(long[si])]
           r == Rewound(d)
<1>5. /\ IsDisk(disk) /\ Describes /\ fs \in FATFS /\ dj \in DIR
      /\ path \in Seq(Char) /\ k = Len(Names)
  BY <1>2 DEF Looking
<1>6. /\ CreateName(long, si) = DirForm(Names[n + 1])
      /\ IsEnd(long[si]) <=> n + 1 = k
      /\ n + 1 # k => SubSeq(path, si + 1, Len(path))
                        = Names[n + 2] \o Behind(n + 2)
  BY ONLY <1>2, <1>4, SegmentAt(n), SegmentRead
<1>7. CreateName(long, si) \in [1 .. NameLen -> Char]
  BY <1>5, CreateNameType
<1>8. /\ d \in DIR /\ d.sclust = dj.sclust
      /\ d.fn = CreateName(long, si) /\ d.last = IsEnd(long[si])
  <2> DEFINE f == CreateName(long, si)
             e == IsEnd(long[si])
  <2>1. e \in BOOLEAN /\ f \in [1 .. NameLen -> Char]
    BY <1>7 DEF IsEnd
  <2> HIDE DEF f, e
  <2> QED
    BY <1>5, <2>1 DEF DIR, f, e
<1> HIDE DEF d, long
<1>9. /\ EntryPlace(r) /\ r.index = 0 /\ r.sclust = dj.sclust
      /\ r.fn = DirForm(Names[n + 1]) /\ (r.last <=> n + 1 = k)
  <2>1. CanRewind(d.sclust)
    BY <1>3, <1>8
  <2>2. /\ EntryPlace(r) /\ r.index = 0 /\ r.sclust = d.sclust
        /\ r.fn = d.fn /\ r.last = d.last
    BY <1>5, <1>8, <2>1, RewoundPlace
  <2> HIDE DEF r
  <2>3. d.last <=> n + 1 = k
    BY <1>6, <1>8
  <2> QED
    BY <1>6, <1>8, <2>2, <2>3
<1>10. dj' = r
  BY <1>4 DEF d
<1> HIDE DEF r
<1>11. EntryPlace(dj)'
  BY <1>1, <1>9, <1>10, PlaceMoved
<1>12. /\ Names' = Names /\ Reached(n)' = Reached(n)
       /\ Behind(n + 2)' = Behind(n + 2)
       /\ DirForm(Names[n + 1])' = DirForm(Names[n + 1])
  <2>1. CreateName(Names[n + 1] \o <<"nul">>, Len(Names[n + 1]) + 1)'
          = CreateName(Names[n + 1] \o <<"nul">>, Len(Names[n + 1]) + 1)
    BY <1>1, SearchKept DEF CreateName, Dots, ToUpper
  <2> QED
    BY <1>1, <2>1, SearchKept DEF DirForm
<1>13. SearchIn(n)'
  BY <1>9, <1>10, <1>12 DEF SegmentAt, SearchIn
<1>14. NoneBefore(Names[n + 1])'
  <2>1. dj'.index = 0
    BY <1>9, <1>10
  <2> QED
    BY <2>1 DEF NoneBefore
<1>15. (dj.fn = DirForm(Names[n + 1]))'
  BY <1>9, <1>10, <1>12
<1>16. (dj.last <=> n + 1 = Len(Names))'
  BY <1>5, <1>9, <1>10, <1>12
<1>17. (~dj.last => path = Names[n + 2] \o Behind(n + 2))'
  BY <1>4, <1>6, <1>9, <1>10, <1>12
<1> QED
  BY <1>11, <1>13, <1>14, <1>15, <1>16, <1>17 DEF FindAt, EntryAt

(* No cluster to begin with: there is no such directory, and no file.      *)
LEMMA NoDirectory ==
  ASSUME FileInv, Proper, NEW n \in 0 .. Len(Names) - 1, SegmentAt(n),
         pc = "segment", ~CanRewind(dj.sclust)
  PROVE  ~IsFile(disk, Names)
<1>1. PICK k : Looking(k, n)
  BY LookingIs
<1>2. /\ IsDisk(disk) /\ Describes /\ fs \in FATFS /\ dj \in DIR
      /\ Reached(n + 1) = NextPlace(Reached(n), Names[n + 1])
  BY <1>1 DEF Looking
<1>3. ~DirHas(disk, dj.sclust, 0)
  BY <1>2, RewoundPlace
<1>4. Listed(disk, dj.sclust) = {}
  <2> SUFFICES ASSUME NEW i \in Listed(disk, dj.sclust) PROVE FALSE
    OBVIOUS
  <2>1. i \in 0 .. IndexRange - 1 /\ \A j \in 0 .. i : DirHas(disk, dj.sclust, j)
    BY DEF Listed
  <2>2. 0 \in 0 .. i
    <3>1. IndexRange \in Nat /\ i \in 0 .. IndexRange - 1
      BY <2>1, VolumeAssumption
    <3> QED
      BY ONLY <3>1
  <2> QED
    BY <1>3, <2>1, <2>2
<1>5. Named(disk, dj.sclust, Names[n + 1]) = {}
  BY <1>4, Zenon DEF Named
<1>6. Reached(n).clust = dj.sclust
  BY DEF SegmentAt, SearchIn
<1>7. Reached(n + 1) = NoEntry
  BY <1>2, <1>5, <1>6 DEF NextPlace
<1> QED
  BY <1>1, <1>7, NoFileThere

(* What FindAt says of the entry that is looked at.                        *)
LEMMA FindFacts ==
  ASSUME FileInv, Proper, NEW n \in 0 .. Len(Names) - 1, FindAt(n),
         pc = "find"
  PROVE  \E k : LET name == Names[n + 1]
         IN  /\ Looking(k, n)
             /\ IsDisk(disk) /\ Describes /\ ProperEntries(disk)
             /\ fs \in FATFS /\ dj \in DIR
             /\ name \in Seq(Char) /\ ProperName(name)
             /\ dj.fn = DirForm(name) /\ EntryAt(name)
             /\ EntryPlace(dj)
             /\ Reached(n).kind = "dir" /\ Reached(n).clust = dj.sclust
             /\ Reached(n + 1) = NextPlace(Reached(n), name)
             /\ dj.last <=> n + 1 = k
             /\ Seen \in Entries
<1>1. PICK k : Looking(k, n)
  BY LookingIs
<1>2. /\ IsDisk(disk) /\ Describes /\ ProperEntries(disk)
      /\ fs \in FATFS /\ dj \in DIR /\ k = Len(Names)
      /\ Reached(n + 1) = NextPlace(Reached(n), Names[n + 1])
  BY <1>1 DEF Looking
<1>3. Names[n + 1] \in Seq(Char) /\ ProperName(Names[n + 1])
  BY <1>1 DEF Looking
<1>4. /\ dj.fn = DirForm(Names[n + 1]) /\ EntryAt(Names[n + 1])
      /\ EntryPlace(dj)
      /\ Reached(n).kind = "dir" /\ Reached(n).clust = dj.sclust
  BY DEF FindAt, EntryAt, SearchIn
<1>5. dj.last <=> n + 1 = k
  BY <1>2 DEF FindAt
<1>6. Seen \in Entries
  BY <1>2, SeenType
<1> QED
  BY <1>1, <1>2, <1>3, <1>4, <1>5, <1>6

(* The search goes on behind an entry that has another name.               *)
LEMMA NextEntrySearch ==
  ASSUME FileInv, Proper, NEW n \in 0 .. Len(Names) - 1, FindAt(n),
         NextEntry, pc' = "find"
  PROVE  FindAt(n)'
<1> DEFINE name == Names[n + 1]
           c == dj.sclust
           i == dj.index
<1>1. /\ pc = "find" /\ card' = card /\ fs' = fs /\ call' = call
      /\ Seen.kind # "end" /\ ~Matches /\ path' = path
  <2>1. /\ pc = "find" /\ card' = card /\ UNCHANGED handle
        /\ Seen.kind # "end" /\ ~Matches
    BY DEF NextEntry
  <2>2. call' = call /\ path' = path
    BY DEF NextEntry, Return, Stay, GoTo
  <2> QED
    BY <2>1, <2>2 DEF handle
<1>2. PICK next \in DirNext : next.res = "OK" /\ dj' = next.dj
  BY DEF NextEntry, Return
<1>3. PICK k :
        /\ IsDisk(disk) /\ Describes /\ ProperEntries(disk)
        /\ fs \in FATFS /\ dj \in DIR
        /\ name \in Seq(Char) /\ ProperName(name)
        /\ dj.fn = DirForm(name) /\ EntryAt(name) /\ EntryPlace(dj)
  BY <1>1, FindFacts
<1>4. /\ dj'.sclust = c /\ dj'.index = i + 1
      /\ dj'.fn = dj.fn /\ dj'.last = dj.last /\ EntryPlace(next.dj)
  BY ONLY <1>2, <1>3, DirNextIs
<1>5. EntryPlace(dj)'
  BY <1>1, <1>2, <1>4, PlaceMoved
<1>6. /\ Names' = Names /\ disk' = disk /\ Reached(n)' = Reached(n)
      /\ Behind(n + 2)' = Behind(n + 2)
      /\ DirForm(name)' = DirForm(name)
  <2>1. CreateName(name \o <<"nul">>, Len(name) + 1)'
          = CreateName(name \o <<"nul">>, Len(name) + 1)
    BY <1>1, SearchKept DEF CreateName, Dots, ToUpper
  <2> QED
    BY <1>1, <2>1, SearchKept DEF DirForm
<1>7. Seen = DirEntry(disk, c, i) /\ DirHas(disk, c, i)
  BY <1>3, SeenIs DEF EntryPlace
<1>8. i \notin Named(disk, c, name)
  <2>1. ~(Seen.kind \notin {"end", "label"} /\ Spells(name, Seen.name))
    BY ONLY <1>1, <1>3, MatchesIs
  <2> QED
    BY <1>1, <1>7, <2>1, Zenon DEF Named
<1>9. \A j \in 0 .. i - 1 : /\ DirHas(disk, c, j)
                            /\ DirEntry(disk, c, j).kind # "end"
                            /\ j \notin Named(disk, c, name)
  BY <1>3 DEF EntryAt, NoneBefore
<1>10. NoneBefore(name)'
  <2>1. i \in 0 .. IndexRange - 1
    BY <1>3 DEF DIR
  <2>2. i \in Nat
    <3>1. IndexRange \in Nat
      BY VolumeAssumption
    <3> QED
      BY ONLY <2>1, <3>1
  <2> HIDE DEF name, c, i
  <2>3. ASSUME NEW j \in 0 .. (i + 1) - 1
        PROVE  /\ DirHas(disk, c, j) /\ DirEntry(disk, c, j).kind # "end"
               /\ j \notin Named(disk, c, name)
    <3>1. j = i \/ j \in 0 .. i - 1
      BY ONLY <2>2, j \in 0 .. (i + 1) - 1
    <3> QED
      BY <1>1, <1>7, <1>8, <1>9, <3>1
  <2>4. name' = name
    BY <1>6 DEF name
  <2> QED
    BY <1>4, <1>6, <2>3, <2>4 DEF NoneBefore
<1> HIDE DEF name
<1>11. SearchIn(n)'
  BY <1>4, <1>6 DEF FindAt, SearchIn
<1>12. (dj.fn = DirForm(name))'
  BY <1>3, <1>4, <1>6
<1>13. (dj.last <=> n + 1 = Len(Names))'
  BY <1>4, <1>6 DEF FindAt
<1>14. (~dj.last => path = Names[n + 2] \o Behind(n + 2))'
  BY <1>1, <1>4, <1>6 DEF FindAt
<1> QED
  BY <1>5, <1>10, <1>11, <1>12, <1>13, <1>14 DEF FindAt, EntryAt, name

(* A search that ends without a transfer that failed has seen all entries. *)
LEMMA SearchedAll ==
  ASSUME FileInv, Proper, NEW n \in 0 .. Len(Names) - 1, FindAt(n),
         pc = "find",
         \/ EndOfTable
         \/ /\ ~Matches
            /\ \E next \in DirNext : next.res # "OK" /\ ~next.fails
  PROVE  ~IsFile(disk, Names)
<1> DEFINE name == Names[n + 1]
<1>1. PICK k :
        /\ Looking(k, n)
        /\ IsDisk(disk) /\ Describes /\ ProperEntries(disk)
        /\ fs \in FATFS /\ dj \in DIR
        /\ name \in Seq(Char) /\ ProperName(name)
        /\ dj.fn = DirForm(name) /\ EntryAt(name) /\ EntryPlace(dj)
        /\ Reached(n).clust = dj.sclust
        /\ Reached(n + 1) = NextPlace(Reached(n), name)
  BY FindFacts
<1>2. /\ ~Matches
      /\ \/ Seen.kind = "end"
         \/ dj.index + 1 = IndexRange
         \/ ~DirHas(disk, dj.sclust, dj.index + 1)
  <2>1. CASE EndOfTable
    BY <2>1 DEF EndOfTable, Matches
  <2>2. CASE ~EndOfTable
    <3>1. PICK next \in DirNext : ~Matches /\ next.res # "OK" /\ ~next.fails
      BY <2>2
    <3> QED
      BY <1>1, <3>1, DirNextIs
  <2> QED
    BY <2>1, <2>2
<1> HIDE DEF name
<1>3. NextPlace(Reached(n), name) = NoEntry
  BY ONLY <1>1, <1>2, FoundNowhere
<1> QED
  BY <1>1, <1>3, NoFileThere

(* The entry that matches is the one the name leads to.                    *)
LEMMA SearchedName ==
  ASSUME FileInv, Proper, NEW n \in 0 .. Len(Names) - 1, FindAt(n),
         pc = "find", Matches
  PROVE  /\ Reached(n + 1) = Seen
         /\ Seen \in Entries /\ Seen.kind \in {"file", "dir"}
         /\ dj.last => Resolved(disk, Names) = Seen /\ IsVolume(disk)
                       /\ Names # <<>>
         /\ ~dj.last => n + 1 \in 0 .. Len(Names) - 1
         /\ dj.last /\ Seen.kind = "dir" => ~IsFile(disk, Names)
         /\ ~dj.last /\ Seen.kind # "dir" => ~IsFile(disk, Names)
<1> DEFINE name == Names[n + 1]
<1>1. PICK k :
        /\ Looking(k, n)
        /\ IsDisk(disk) /\ Describes /\ ProperEntries(disk)
        /\ fs \in FATFS /\ dj \in DIR
        /\ name \in Seq(Char) /\ ProperName(name)
        /\ dj.fn = DirForm(name) /\ EntryAt(name)
        /\ Reached(n).kind = "dir" /\ Reached(n).clust = dj.sclust
        /\ Reached(n + 1) = NextPlace(Reached(n), name)
        /\ dj.last <=> n + 1 = k
        /\ Seen \in Entries
  BY FindFacts
<1>2. k \in Nat /\ k = Len(Names) /\ n \in 0 .. k - 1
      /\ Reached(k) = Resolved(disk, Names) /\ Names \in Seq(Seq(Char))
  BY <1>1 DEF Looking
<1> HIDE DEF name
<1>3. NextPlace(Reached(n), name) = Seen
  BY ONLY <1>1, Matches, FoundHere
<1>4. Reached(n + 1) = Seen
  BY <1>1, <1>3
<1>5. Seen.kind \in {"file", "dir"}
  BY <1>1 DEF Entries, Matches
<1>6. dj.last => Resolved(disk, Names) = Seen
  BY <1>1, <1>2, <1>4
<1>7. Names # <<>>
  <2>1. Len(Names) # 0
    <3>1. k # 0
      BY ONLY <1>2, n \in 0 .. k - 1
    <3> QED
      BY <1>2, <3>1
  <2> QED
    BY <2>1
<1>8. IsVolume(disk)
  BY <1>1 DEF Describes
<1>9. ~dj.last => n + 1 \in 0 .. Len(Names) - 1
  <2>1. n + 1 # k => n + 1 \in 0 .. k - 1
    BY ONLY <1>2
  <2> QED
    BY <1>1, <1>2, <2>1
<1>10. dj.last /\ Seen.kind = "dir" => ~IsFile(disk, Names)
  BY <1>6 DEF IsFile
<1>11. ~dj.last /\ Seen.kind # "dir" => ~IsFile(disk, Names)
  BY <1>1, <1>4, NoFileThere
<1> QED
  BY <1>1, <1>4, <1>5, <1>6, <1>7, <1>8, <1>9, <1>10, <1>11

(* The search goes on in the directory that was found.                     *)
LEMMA FollowDirectorySearch ==
  ASSUME FileInv, Proper, NEW n \in 0 .. Len(Names) - 1, FindAt(n),
         FollowDirectory, pc' = "segment"
  PROVE  n + 1 \in (0 .. Len(Names) - 1)' /\ SegmentAt(n + 1)'
<1>1. /\ pc = "find" /\ Matches /\ ~dj.last /\ card' = card
      /\ Seen.kind = "dir" /\ dj' = [dj EXCEPT !.sclust = Seen.clust]
      /\ call' = call /\ path' = path
  BY DEF FollowDirectory, Return, GoTo
<1>2. Reached(n + 1) = Seen /\ n + 1 \in 0 .. Len(Names) - 1
  BY <1>1, SearchedName
<1>3. /\ Names' = Names /\ Reached(n + 1)' = Reached(n + 1)
      /\ Behind(n + 2)' = Behind(n + 2)
  BY <1>1, SearchKept
<1>4. dj'.sclust = Seen.clust
  <2>1. dj \in DIR
    BY <1>1, SearchFacts
  <2> QED
    BY <1>1, <2>1 DEF DIR
<1>5. path' = Names[n + 2] \o Behind(n + 2)
  BY <1>1 DEF FindAt
<1>6. (n + 1) + 1 = n + 2
  OBVIOUS
<1> QED
  BY <1>1, <1>2, <1>3, <1>4, <1>5, <1>6 DEF SegmentAt, SearchIn

-----------------------------------------------------------------------------
(* The invariant is kept.                                                  *)

LEMMA ReturnCall ==
  ASSUME NEW res, Return(res)
  PROVE  CallInv'
BY DEF Return, CallInv

LEMMA GoToCall ==
  ASSUME CallInv, pc # "idle", NEW place, GoTo(place),
         place \notin {"idle", "table", "bpb"},
         place # "chunk" => got' = <<>>,
         place \notin {"segment", "find"} => dj' = NoDir,
         ~failed'
  PROVE  CallInv'
BY DEF GoTo, CallInv

LEMMA MountCall ==
  ASSUME FileInv, CallInv, MountStep \/ Unmount
  PROVE  CallInv'
<1>1. CASE \E res : Return(res)
  BY <1>1, ReturnCall
<1>2. CASE ~\E res : Return(res)
  <2>1. CheckFirstSector \/ ReadTable
    BY <1>2, Zenon DEF MountStep, Unmount, DriveNotReady, ReadBpb
  <2>2. CASE CheckFirstSector
    <3>1. /\ pc = "mount" /\ card' = card /\ got' = got
          /\ \/ CheckFs(0, 0) /\ VolumeAt(0)
             \/ CheckFs(0, 1) /\ GoTo("table") /\ UNCHANGED locals
      BY <1>2, <2>2, Zenon DEF CheckFirstSector
    <3>2. call.op = "mount"
      BY <3>1 DEF FileInv, ExtentInv
    <3>3. CASE VolumeAt(0)
      BY <3>1, <3>2, <3>3 DEF VolumeAt, GoTo, CallInv, findVars
    <3>4. CASE CheckFs(0, 1) /\ GoTo("table") /\ UNCHANGED locals
      <4>1. ~failed' => ~disk[0].fat
        <5>1. ASSUME disk[0].fat, ~failed' PROVE FALSE
          BY <3>4, <5>1 DEF CheckFs
        <5> QED
          BY <5>1
      <4>2. disk' = disk
        BY <3>1 DEF disk
      <4> QED
        BY <3>1, <3>2, <3>4, <4>1, <4>2 DEF GoTo, CallInv, locals, findVars
    <3> QED
      BY <3>1, <3>3, <3>4
  <2>3. CASE ReadTable
    <3>1. /\ pc = "table" /\ card' = card /\ got' = got
          /\ \E s : VolumeAt(s)
      BY <1>2, <2>3, Zenon DEF ReadTable
    <3> QED
      BY <3>1 DEF VolumeAt, GoTo, CallInv, findVars
  <2> QED
    BY <2>1, <2>2, <2>3
<1> QED
  BY <1>1, <1>2

LEMMA FailsNot ==
  ASSUME FileInv, Proper, SearchInv, NextEntry, pc' = "find"
  PROVE  failed' = failed
<1>1. pc = "find"
  BY DEF NextEntry
<1>2. PICK n \in 0 .. Len(Names) - 1 : FindAt(n)
  BY <1>1 DEF SearchInv
<1>3. /\ IsDisk(disk) /\ Describes /\ fs \in FATFS /\ dj \in DIR
      /\ EntryPlace(dj)
  BY <1>1, <1>2, SearchFacts DEF FindAt, EntryAt
<1>4. PICK next \in DirNext : next.res = "OK" /\ failed' = (failed \/ next.fails)
  BY DEF NextEntry, Return
<1>5. ~next.fails
  BY ONLY <1>3, <1>4, DirNextIs
<1>6. failed \in BOOLEAN
  BY DEF FileInv, TypeOK
<1> QED
  BY <1>4, <1>5, <1>6

LEMMA OpenCall ==
  ASSUME FileInv, CallInv, Proper, SearchInv, OpenStep
  PROVE  CallInv'
<1>1. CASE \E res : Return(res)
  BY <1>1, ReturnCall
<1>2. CASE ~\E res : Return(res)
  <2>1. BeginOpen \/ FollowSegment \/ NextEntry \/ FollowDirectory
    BY <1>2, Zenon
       DEF OpenStep, BeginOpenUnmounted, EntryUnreadable, EndOfTable, OpenFound
  <2>2. CASE BeginOpen
    <3>1. /\ pc = "open" /\ GoTo("segment") /\ got' = got
          /\ UNCHANGED failed
      BY <1>2, <2>2, Zenon DEF BeginOpen
    <3>2. ~failed /\ got = <<>>
      BY <3>1 DEF CallInv
    <3> QED
      BY <3>1, <3>2, GoToCall
  <2>3. CASE FollowSegment
    <3>1. /\ pc = "segment" /\ GoTo("find") /\ got' = got
          /\ UNCHANGED failed
      BY <1>2, <2>3, Zenon DEF FollowSegment
    <3>2. ~failed /\ got = <<>>
      BY <3>1 DEF CallInv
    <3> QED
      BY <3>1, <3>2, GoToCall
  <2>4. CASE NextEntry
    <3>1. /\ pc = "find" /\ GoTo(pc) /\ got' = got
      BY <1>2, <2>4, Zenon DEF NextEntry, Stay
    <3>2. failed' = failed
      BY <2>4, <3>1, FailsNot DEF GoTo
    <3>3. ~failed /\ got = <<>>
      BY <3>1 DEF CallInv
    <3> QED
      BY <3>1, <3>2, <3>3, GoToCall
  <2>5. CASE FollowDirectory
    <3>1. /\ pc = "find" /\ GoTo("segment") /\ got' = got
          /\ UNCHANGED failed
      BY <1>2, <2>5, Zenon DEF FollowDirectory
    <3>2. ~failed /\ got = <<>>
      BY <3>1 DEF CallInv
    <3> QED
      BY <3>1, <3>2, GoToCall
  <2> QED
    BY <2>1, <2>2, <2>3, <2>4, <2>5
<1> QED
  BY <1>1, <1>2

LEMMA ReadSeekCall ==
  ASSUME FileInv, CallInv, ReadStep \/ SeekStep
  PROVE  CallInv'
<1>1. CASE \E res : Return(res)
  BY <1>1, ReturnCall
<1>2. CASE ~\E res : Return(res)
  <2>1. BeginRead \/ ReadChunk \/ SeekForward \/ SeekFromStart \/ FollowChain
    BY <1>2, Zenon
       DEF ReadStep, SeekStep, BeginReadUnusable, ReadDone, BeginSeekUnusable,
           SeekToStart, SeekDone
  <2>2. CASE BeginRead
    <3>1. /\ pc = "read" /\ GoTo("chunk") /\ UNCHANGED <<findVars, failed>>
      BY <2>2 DEF BeginRead
    <3> QED
      BY <3>1, GoToCall DEF CallInv, findVars
  <2>3. CASE ReadChunk
    <3>1. /\ pc = "chunk" /\ GoTo(pc) /\ UNCHANGED <<findVars, failed>>
      BY <1>2, <2>3, Zenon DEF ReadChunk, Stay
    <3> QED
      BY <3>1, GoToCall DEF CallInv, findVars
  <2>4. CASE SeekForward \/ SeekFromStart
    <3>1. /\ pc = "seek" /\ GoTo("follow") /\ UNCHANGED <<findVars, got, failed>>
      BY <2>4 DEF SeekForward, SeekFromStart, Search
    <3> QED
      BY <3>1, GoToCall DEF CallInv, findVars
  <2>5. CASE FollowChain
    <3>1. pc = "follow"
      BY <2>5 DEF FollowChain
    <3>2. PICK next \in GetFat(clst) :
            /\ failed' = (failed \/ next.fails)
            /\ 1 < next.link
            /\ GoTo(pc) /\ UNCHANGED findVars
      BY <1>2, <2>5, Zenon DEF FollowChain, Stay
    <3>3. IsDisk(disk) /\ Describes /\ clst \in Nat
      BY <3>1, FileFacts DEF TypeOK
    <3>4. next.link \in Nat /\ ~next.fails
      BY <3>2, <3>3, GetFatIs
    <3>5. got' = got
      BY <2>5 DEF FollowChain
    <3>6. ~failed /\ ~failed' /\ got = <<>> /\ dj = NoDir
      BY <3>1, <3>2, <3>4 DEF CallInv
    <3> QED
      BY <3>1, <3>2, <3>5, <3>6, GoToCall DEF findVars
  <2> QED
    BY <2>1, <2>2, <2>3, <2>4, <2>5
<1> QED
  BY <1>1, <1>2

LEMMA CallStarts ==
  ASSUME FileInv, CallInv, NEW c \in Calls, Call(c)
  PROVE  CallInv'
<1>1. c.op \in {"mount", "unmount", "open", "read", "seek"} /\ c # Idle
  BY CallTypes
<1>2. /\ pc' = c.op /\ call' = c /\ got' = <<>> /\ answer' = "none"
      /\ failed' = FALSE /\ dj' = dj /\ pc = "idle"
  BY DEF Call, locals, findVars
<1>3. dj = NoDir
  BY <1>2 DEF CallInv
<1> QED
  BY <1>1, <1>2, <1>3 DEF CallInv

LEMMA CallInvKept ==
  ASSUME FileInv, CallInv, Proper, SearchInv, [Next]_vars
  PROVE  CallInv'
<1>1. CASE UNCHANGED vars
  BY <1>1 DEF vars, locals, findVars, CallInv, disk
<1>2. CASE \E c \in Calls : Call(c)
  BY <1>2, CallStarts
<1>3. CASE Step
  BY <1>3, MountCall, OpenCall, ReadSeekCall DEF Step
<1> QED
  BY <1>1, <1>2, <1>3 DEF Next

LEMMA SearchElsewhere ==
  ASSUME FileInv, Step, pc' \in {"segment", "find"}
  PROVE  BeginOpen \/ FollowSegment \/ NextEntry \/ FollowDirectory
<1>1. ~\E res : Return(res)
  BY DEF Return
<1>2. ~BeginRead /\ ~SeekForward /\ ~SeekFromStart
  BY DEF BeginRead, SeekForward, SeekFromStart, Search, GoTo
<1>3. ~ReadChunk
  BY <1>1, Zenon DEF ReadChunk, Stay, GoTo
<1>4. ~FollowChain
  BY <1>1, Zenon DEF FollowChain, Stay, GoTo
<1>5. ~CheckFirstSector
  <2>1. CheckFirstSector => GoTo("bpb") \/ GoTo("table")
    BY <1>1, Zenon DEF CheckFirstSector, VolumeAt
  <2> QED
    BY <2>1 DEF GoTo
<1>6. ~ReadTable
  <2>1. ReadTable => GoTo("bpb")
    BY <1>1, Zenon DEF ReadTable, VolumeAt
  <2> QED
    BY <2>1 DEF GoTo
<1> QED
  BY <1>1, <1>2, <1>3, <1>4, <1>5, <1>6, Zenon
     DEF Step, MountStep, OpenStep, ReadStep, SeekStep,
         DriveNotReady, ReadBpb, Unmount, BeginOpenUnmounted, EntryUnreadable,
         EndOfTable, OpenFound, BeginReadUnusable, ReadDone,
         BeginSeekUnusable, SeekToStart, SeekDone

LEMMA SearchInvKept ==
  ASSUME FileInv, CallInv, Proper, SearchInv, [Next]_vars
  PROVE  SearchInv'
<1>1. CASE UNCHANGED vars
  <2>1. UNCHANGED <<card, fs, dj, path, call, pc>>
    BY <1>1 DEF vars, handle, locals, findVars
  <2>2. \A text : DirForm(text)' = DirForm(text)
    BY DEF DirForm, CreateName, Dots, ToUpper
  <2>3. /\ Names' = Names /\ disk' = disk
        /\ \A n : Reached(n)' = Reached(n) /\ Behind(n)' = Behind(n)
    BY <2>1, SearchKept
  <2>4. \A n : SearchIn(n)' = SearchIn(n)
    BY <2>1, <2>3 DEF SearchIn
  <2>5. \A n : SegmentAt(n) => SegmentAt(n)'
    BY <2>1, <2>3 DEF SegmentAt, SearchIn
  <2>6. EntryPlace(dj) => EntryPlace(dj)'
    BY <2>1, <2>3 DEF EntryPlace
  <2>7. \A n : FindAt(n) => FindAt(n)'
    BY <2>1, <2>2, <2>3, <2>6 DEF FindAt, SearchIn, EntryAt, NoneBefore
  <2> QED
    BY <2>1, <2>3, <2>5, <2>7 DEF SearchInv
<1>2. CASE ~(pc' \in {"segment", "find"})
  BY <1>2 DEF SearchInv
<1>3. CASE Next /\ pc' \in {"segment", "find"}
  <2>1. ~\E c \in Calls : Call(c)
    <3> SUFFICES ASSUME NEW c \in Calls, Call(c) PROVE FALSE
      OBVIOUS
    <3>1. c.op \notin {"segment", "find"}
      BY CallTypes
    <3> QED
      BY <1>3, <3>1 DEF Call
  <2>2. BeginOpen \/ FollowSegment \/ NextEntry \/ FollowDirectory
    BY <1>3, <2>1, SearchElsewhere DEF Next
  <2>3. CASE BeginOpen
    <3>1. pc' = "segment"
      BY <1>3, <2>3 DEF BeginOpen, GoTo, Return
    <3>2. Len(Names)' \in Nat \ {0} /\ SegmentAt(0)'
      BY <2>3, <3>1, BeginOpenSearch
    <3>3. 0 \in (0 .. Len(Names) - 1)'
      BY <3>2
    <3> QED
      BY <3>1, <3>2, <3>3 DEF SearchInv
  <2>4. CASE FollowSegment
    <3>1. pc = "segment" /\ pc' = "find"
      BY <1>3, <2>4 DEF FollowSegment, GoTo, Return
    <3>2. PICK n \in 0 .. Len(Names) - 1 : SegmentAt(n)
      BY <3>1 DEF SearchInv
    <3>3. FindAt(n)'
      BY <2>4, <3>1, <3>2, FollowSegmentSearch
    <3>4. call' = call
      BY <2>4, <3>1 DEF FollowSegment, GoTo, Return
    <3>5. Names' = Names
      BY <3>4 DEF Names
    <3> QED
      BY <3>1, <3>2, <3>3, <3>5 DEF SearchInv
  <2>5. CASE NextEntry
    <3>1. pc = "find" /\ pc' = "find" /\ call' = call
      BY <1>3, <2>5 DEF NextEntry, Stay, GoTo, Return
    <3>2. PICK n \in 0 .. Len(Names) - 1 : FindAt(n)
      BY <3>1 DEF SearchInv
    <3>3. FindAt(n)'
      BY <2>5, <3>1, <3>2, NextEntrySearch
    <3>4. Names' = Names
      BY <3>1 DEF Names
    <3> QED
      BY <3>1, <3>2, <3>3, <3>4 DEF SearchInv
  <2>6. CASE FollowDirectory
    <3>1. pc = "find" /\ pc' = "segment"
      BY <1>3, <2>6 DEF FollowDirectory, GoTo, Return
    <3>2. PICK n \in 0 .. Len(Names) - 1 : FindAt(n)
      BY <3>1 DEF SearchInv
    <3>3. n + 1 \in (0 .. Len(Names) - 1)' /\ SegmentAt(n + 1)'
      BY <2>6, <3>1, <3>2, FollowDirectorySearch
    <3> QED
      BY <3>1, <3>3 DEF SearchInv
  <2> QED
    BY <2>2, <2>3, <2>4, <2>5, <2>6
<1> QED
  BY <1>1, <1>2, <1>3

-----------------------------------------------------------------------------
(* The open file.                                                          *)
LEMMA OpenedClosed ==
  ASSUME ~(fatFs' /\ fs'.flag)
  PROVE  OpenedInv'
BY DEF OpenedInv, Usable

LEMMA OpenedSame ==
  ASSUME OpenedInv, UNCHANGED <<card, fatFs, opened>>,
         fs'.org_clust = fs.org_clust, fs'.fsize = fs.fsize,
         fs'.flag => fs.flag
  PROVE  OpenedInv'
BY DEF OpenedInv, Usable, disk

LEMMA OpenedFound ==
  ASSUME FileInv, Proper, SearchInv, OpenFound
  PROVE  OpenedInv'
<1>1. /\ pc = "find" /\ Matches /\ dj.last /\ card' = card
      /\ \/ UNCHANGED handle
         \/ /\ Seen.kind # "dir"
            /\ fs' = [fs EXCEPT !.org_clust = Seen.clust, !.fsize = Seen.size,
                                !.fptr = 0, !.flag = TRUE]
            /\ opened' = call.arg
  BY DEF OpenFound
<1>2. CASE UNCHANGED handle
  <2>1. ~fs.flag /\ fs' = fs
    BY <1>1, <1>2, SearchFacts DEF handle
  <2> QED
    BY <2>1, OpenedClosed
<1>3. CASE /\ Seen.kind # "dir"
           /\ fs' = [fs EXCEPT !.org_clust = Seen.clust, !.fsize = Seen.size,
                               !.fptr = 0, !.flag = TRUE]
           /\ opened' = call.arg
  <2>1. PICK n \in 0 .. Len(Names) - 1 : FindAt(n)
    BY <1>1 DEF SearchInv
  <2>2. /\ Seen \in Entries /\ Seen.kind \in {"file", "dir"}
        /\ Resolved(disk, Names) = Seen /\ IsVolume(disk) /\ Names # <<>>
    BY <1>1, <2>1, SearchedName
  <2>3. /\ TypeOK /\ call.op = "open" /\ fs \in FATFS
    BY <1>1, SearchFacts
  <2>4. IsFile(disk, Names) /\ call.arg \in DOMAIN Paths
    <3>1. IsFile(disk, Names)
      BY <1>3, <2>2 DEF IsFile
    <3>2. call.arg \in DOMAIN Paths
      BY <2>3, CallTypes DEF TypeOK, Idle
    <3> QED
      BY <3>1, <3>2
  <2>5. fs'.org_clust = Seen.clust /\ fs'.fsize = Seen.size
    BY <1>3, <2>3 DEF FATFS
  <2>6. disk' = disk /\ Paths[opened'].names = Names
    BY <1>1, <1>3 DEF disk, Names
  <2> QED
    BY <1>3, <2>2, <2>4, <2>5, <2>6 DEF OpenedInv
<1> QED
  BY <1>1, <1>2, <1>3

LEMMA OpenedInvKept ==
  ASSUME FileInv, Proper, SearchInv, OpenedInv, [Next]_vars
  PROVE  OpenedInv'
<1>0. fs \in FATFS
  BY DEF FileInv, TypeOK
<1>1. CASE UNCHANGED <<card, handle>>
  BY <1>1, OpenedSame DEF handle
<1>2. CASE MountStep \/ Unmount
  <2>1. CASE fatFs' = FALSE
    BY <2>1, OpenedClosed
  <2>2. CASE fatFs' # FALSE
    <3>1. ReadTable \/ ReadBpb
      BY <1>2, <2>2 DEF MountStep, Unmount, DriveNotReady, CheckFirstSector
    <3>2. pc \in {"table", "bpb"}
      BY <3>1 DEF ReadTable, ReadBpb
    <3>3. ~fatFs
      BY <3>2 DEF FileInv, MountInv
    <3>4. CASE fatFs' = fatFs
      BY <3>3, <3>4, OpenedClosed
    <3>5. CASE fatFs' # fatFs
      <4>1. ReadBpb
        BY <3>1, <3>5 DEF ReadTable, handle
      <4>2. fs'.flag = FALSE
        <5> DEFINE b == disk[bsect].bpb
                   g == Geometry(b)
        <5>1. fs' = [g EXCEPT
                      !.fs_type = IF LastCluster(b) >= Fat12Limit
                                    THEN "FAT16" ELSE "FAT12",
                      !.dirbase = g.fatbase + FatArea(b),
                      !.database = g.fatbase + FatArea(b)
                                     + b.rootent \div DirSize,
                      !.flag = FALSE]
          BY <3>5, <4>1 DEF ReadBpb
        <5>2. "flag" \in DOMAIN g
          BY <1>0 DEF FATFS, Geometry
        <5> HIDE DEF g, b
        <5> QED
          BY <5>1, <5>2
      <4> QED
        BY <4>2, OpenedClosed
    <3> QED
      BY <3>4, <3>5
  <2> QED
    BY <2>1, <2>2
<1>3. CASE OpenStep
  <2>1. CASE OpenFound
    BY <2>1, OpenedFound
  <2>2. CASE BeginOpen
    <3>1. fs'.flag = FALSE
      BY <1>0, <2>2 DEF BeginOpen, FATFS
    <3> QED
      BY <3>1, OpenedClosed
  <2>3. CASE ~OpenFound /\ ~BeginOpen
    <3>1. UNCHANGED <<card, handle>>
      BY <1>3, <2>3
         DEF OpenStep, BeginOpenUnmounted, FollowSegment, EntryUnreadable,
             EndOfTable, NextEntry, FollowDirectory
    <3> QED
      BY <1>1, <3>1
  <2> QED
    BY <2>1, <2>2, <2>3
<1>4. CASE ReadChunk
  <2>1. pc = "chunk" /\ UNCHANGED <<card, fatFs, opened>>
    BY <1>4 DEF ReadChunk
  <2>2. PICK next, f, g, p :
          /\ next \in NextCluster
          /\ f = InCluster(fs, next.link) /\ g = InSector(f)
          /\ \/ fs' = Closed(fs) \/ fs' = Closed(f) \/ fs' = Closed(g)
             \/ fs' = [g EXCEPT !.fptr = p]
    BY <1>4 DEF ReadChunk
  <2>3. IsDisk(disk) /\ Describes /\ fs.flag
    BY <2>1, FileFacts
  <2>4. next.link \in Nat
    BY <1>0, <2>2, <2>3, NextClusterType
  <2>5. /\ f \in FATFS /\ g \in FATFS
        /\ g.fsize = fs.fsize /\ g.org_clust = fs.org_clust
    BY <1>0, <2>2, <2>3, <2>4, InSectorType
  <2>6. CASE fs' = [g EXCEPT !.fptr = p]
    <3>1. fs'.org_clust = fs.org_clust /\ fs'.fsize = fs.fsize
      BY <2>5, <2>6 DEF FATFS
    <3> QED
      BY <2>1, <2>3, <3>1, OpenedSame
  <2>7. CASE fs' = Closed(fs) \/ fs' = Closed(f) \/ fs' = Closed(g)
    <3>1. fs'.flag = FALSE
      BY <1>0, <2>5, <2>7 DEF Closed, FATFS
    <3> QED
      BY <3>1, OpenedClosed
  <2> QED
    BY <2>2, <2>6, <2>7
<1>5. CASE SeekStep /\ UNCHANGED <<card, fatFs, opened>>
  <2> DEFINE Same == /\ fs'.org_clust = fs.org_clust
                     /\ fs'.fsize = fs.fsize /\ fs'.flag = fs.flag
  <2>1. CASE BeginSeekUnusable
    BY <1>1, <2>1 DEF BeginSeekUnusable
  <2>2. CASE SeekToStart
    <3>1. Same
      BY <1>0, <2>2 DEF SeekToStart, FATFS
    <3> QED
      BY <1>5, <3>1, OpenedSame
  <2>3. CASE SeekForward \/ SeekFromStart
    <3>1. Same
      BY <1>0, <2>3 DEF SeekForward, SeekFromStart, Search, FATFS
    <3> QED
      BY <1>5, <3>1, OpenedSame
  <2>4. CASE FollowChain
    <3>1. Same \/ fs'.flag = FALSE
      BY <1>0, <2>4 DEF FollowChain, Closed, FATFS
    <3> QED
      BY <1>5, <3>1, OpenedSame, OpenedClosed
  <2>5. CASE SeekDone
    <3> DEFINE f == [fs EXCEPT !.fptr = @ + ofs]
    <3>1. /\ f.org_clust = fs.org_clust /\ f.fsize = fs.fsize
          /\ f.flag = fs.flag /\ {"org_clust", "fsize", "flag"} \subseteq DOMAIN f
      BY <1>0 DEF FATFS
    <3>2. \/ fs' = Closed(f)
          \/ \E n : fs' = [f EXCEPT !.csect = n]
          \/ \E n, s : fs' = [f EXCEPT !.csect = n, !.dsect = s]
      <4>1. \/ fs' = Closed(f)
            \/ fs' = IF ofs % SectorSize = 0
                       THEN [f EXCEPT !.csect = ofs \div SectorSize]
                       ELSE [f EXCEPT !.csect = ofs \div SectorSize + 1,
                                      !.dsect = Clust2Sect(clst)
                                                  + ofs \div SectorSize]
        BY <2>5 DEF SeekDone
      <4> HIDE DEF f
      <4> QED
        BY <4>1, Zenon
    <3> HIDE DEF f
    <3>3. Same \/ fs'.flag = FALSE
      BY <3>1, <3>2 DEF Closed
    <3> QED
      BY <1>5, <3>3, OpenedSame, OpenedClosed
  <2> QED
    BY <1>5, <2>1, <2>2, <2>3, <2>4, <2>5 DEF SeekStep
<1>6. [Next]_vars => \/ UNCHANGED <<card, handle>>
                     \/ MountStep \/ Unmount \/ OpenStep \/ ReadChunk
                     \/ SeekStep /\ UNCHANGED <<card, fatFs, opened>>
  <2>1. UNCHANGED vars => UNCHANGED <<card, handle>>
    BY DEF vars
  <2>2. (\E c \in Calls : Call(c)) => UNCHANGED <<card, handle>>
    BY DEF Call
  <2>3. ReadStep => ReadChunk \/ UNCHANGED <<card, handle>>
    BY DEF ReadStep, BeginReadUnusable, BeginRead, ReadDone
  <2>4. SeekStep => UNCHANGED <<card, fatFs, opened>>
    BY DEF SeekStep, BeginSeekUnusable, SeekToStart, SeekForward,
           SeekFromStart, Search, FollowChain, SeekDone, handle
  <2> QED
    BY <2>1, <2>2, <2>3, <2>4 DEF Next, Step
<1> QED
  BY <1>1, <1>2, <1>3, <1>4, <1>5, <1>6

-----------------------------------------------------------------------------
(* The bytes of a read, and the end of a search in the chain.              *)
LEMMA LeastIs ==
  ASSUME NEW a, NEW b
  PROVE  File!Least(a, b) = IF a < b THEN a ELSE b
BY DEF File!Least

(* The bytes up to the end of a sector.                                    *)
LEMMA InOneSector ==
  ASSUME NEW a \in Nat, NEW n \in Nat \ {0}, n <= SectorSize - (a % SectorSize)
  PROVE  /\ ((a + n) - 1) \div SectorSize = a \div SectorSize
         /\ ((a + n) - 1) % SectorSize = (a % SectorSize) + (n - 1)
<1> DEFINE q == a \div SectorSize
           r == a % SectorSize
<1>1. /\ SectorSize \in Nat \ {0} /\ q \in Nat /\ r \in 0 .. SectorSize - 1
      /\ a = q * SectorSize + r
  BY VolumeAssumption, DivideBy
<1>2. n <= SectorSize - r
  OBVIOUS
<1> HIDE DEF q, r
<1>3. PICK z : z = q * SectorSize /\ z \in Int
  BY <1>1
<1> DEFINE t == r + (n - 1)
<1>4. t \in 0 .. SectorSize - 1 /\ (a + n) - 1 = z + t
  BY ONLY <1>1, <1>2, <1>3, n \in Nat \ {0}
<1> HIDE DEF t
<1>5. (q * SectorSize + t) \div SectorSize = q /\ (q * SectorSize + t) % SectorSize = t
  BY <1>1, <1>4, DivUnique
<1>6. (a + n) - 1 = q * SectorSize + t
  BY <1>3, <1>4
<1> QED
  BY <1>5, <1>6 DEF t, q, r

LEMMA ChunkRead ==
  ASSUME FileInv, PositionInv, ReadChunk, pc' = "chunk"
  PROVE  /\ btr \in Nat \ {0} /\ Portion \in 1 .. btr
         /\ fs'.fptr = fs.fptr + Portion /\ btr' = btr - Portion
         /\ fs'.org_clust = fs.org_clust /\ fs'.fsize = fs.fsize
         /\ fs'.flag = fs.flag
         /\ card' = card /\ call' = call /\ answer' = answer
         /\ fatFs' = fatFs /\ opened' = opened /\ failed' = failed
         /\ IsCluster(disk, ClusterAt(disk, fs.org_clust,
                             (fs.fptr \div SectorSize) \div fs.csize))
         /\ \E bytes : /\ got' = got \o bytes /\ bytes \in Seq(Nat \X Nat)
                       /\ Len(bytes) = Portion
                       /\ \A n \in 1 .. Portion : bytes[n] = ByteOf(fs.fptr + n)
<1>1. /\ TypeOK /\ IsDisk(disk) /\ Describes /\ fs \in FATFS /\ Usable
      /\ pc = "chunk" /\ btr \in Nat \ {0} /\ fs.fptr \in Nat
      /\ fs.fptr + btr <= fs.fsize
  <2>1. pc = "chunk" /\ btr > 0
    BY DEF ReadChunk
  <2>2. btr \in Nat
    BY DEF FileInv, TypeOK
  <2> QED
    BY <2>1, <2>2, FileFacts, FatFsTypes
<1>2. AtPosition
  BY <1>1 DEF PositionInv
<1> DEFINE from == fs.fptr % SectorSize
           m == fs.fptr \div SectorSize
<1>3. PICK next \in NextCluster :
        LET g == InSector(InCluster(fs, next.link))
        IN  /\ ~(AtSector /\ Clust2Sect(next.link) = 0)
            /\ got' = got \o Bytes(g.dsect, from, Portion)
            /\ fs' = [g EXCEPT !.fptr = @ + Portion]
            /\ btr' = btr - Portion
            /\ call' = call /\ answer' = answer /\ failed' = failed
  BY DEF ReadChunk, Return, Stay, GoTo
<1> DEFINE f == InCluster(fs, next.link)
           g == InSector(f)
<1>4. next.link \in Nat
  BY <1>1, NextClusterType
<1>5. /\ g \in FATFS /\ g.fptr = fs.fptr /\ g.fsize = fs.fsize
      /\ g.flag = fs.flag /\ g.org_clust = fs.org_clust
  BY <1>1, <1>4, InSectorType
<1>6. /\ g.dsect = SectorInChain(disk, fs.org_clust, m)
      /\ next.link = ClusterAt(disk, fs.org_clust, m \div fs.csize)
      /\ IsCluster(disk, next.link)
  BY <1>1, <1>2, <1>3, NextSectorIs
<1>7. /\ got' = got \o Bytes(g.dsect, from, Portion)
      /\ fs' = [g EXCEPT !.fptr = @ + Portion]
      /\ btr' = btr - Portion
      /\ call' = call /\ answer' = answer /\ failed' = failed
  BY <1>3
<1> HIDE DEF f, g
<1>8. /\ fs'.fptr = fs.fptr + Portion /\ fs'.org_clust = fs.org_clust
      /\ fs'.fsize = fs.fsize /\ fs'.flag = fs.flag
  BY <1>5, <1>7 DEF FATFS
<1>9. /\ Portion \in 1 .. btr /\ Portion <= SectorSize - from
  BY <1>1, PortionIs
<1> DEFINE bytes == Bytes(g.dsect, from, Portion)
<1>10. \A n \in 1 .. Portion : bytes[n] = ByteOf(fs.fptr + n)
  <2> TAKE n \in 1 .. Portion
  <2>1. n \in Nat \ {0} /\ n <= SectorSize - from
    <3>1. Portion \in Nat
      BY <1>1, <1>9
    <3>2. from \in Int /\ SectorSize \in Nat
      BY <1>1, VolumeAssumption, DivideBy
    <3> HIDE DEF from
    <3>3. Portion <= SectorSize - from
      BY <1>9
    <3> QED
      BY ONLY <3>1, <3>2, <3>3, n \in 1 .. Portion
  <2>2. /\ ((fs.fptr + n) - 1) \div SectorSize = m
        /\ ((fs.fptr + n) - 1) % SectorSize = from + (n - 1)
    BY <1>1, <2>1, InOneSector
  <2>3. bytes[n] = <<g.dsect, from + (n - 1)>>
    BY DEF Bytes
  <2>4. ByteOf(fs.fptr + n)
          = <<SectorInChain(disk, fs.org_clust, ((fs.fptr + n) - 1) \div SectorSize),
              ((fs.fptr + n) - 1) % SectorSize>>
    BY DEF ByteOf
  <2> HIDE DEF bytes, from, m
  <2> QED
    BY <1>6, <2>2, <2>3, <2>4
<1>11. bytes \in Seq(Nat \X Nat) /\ Len(bytes) = Portion
  <2>1. Portion \in Nat
    BY <1>1, <1>9
  <2>2. g.dsect \in Nat
    BY <1>5 DEF FATFS
  <2>3. from \in Nat
    <3>1. from \in 0 .. SectorSize - 1 /\ SectorSize \in Nat
      BY <1>1, VolumeAssumption, DivideBy
    <3> HIDE DEF from
    <3> QED
      BY ONLY <3>1
  <2> DEFINE P == Portion
  <2> HIDE DEF from, P
  <2>4. bytes \in [1 .. P -> Nat \X Nat]
    <3>1. \A n \in 1 .. P : from + n - 1 \in Nat
      BY <2>1, <2>3 DEF P
    <3> QED
      BY <2>2, <3>1 DEF Bytes, P
  <2> HIDE DEF bytes
  <2>5. P \in Nat
    BY <2>1 DEF P
  <2>6. bytes \in Seq(Nat \X Nat)
    BY ONLY <2>4, <2>5, SeqDef
  <2> QED
    BY <2>4, <2>5, <2>6 DEF P
<1>12. card' = card /\ fatFs' = fatFs /\ opened' = opened
  BY DEF ReadChunk
<1>13. \E z : /\ got' = got \o z /\ z \in Seq(Nat \X Nat)
              /\ Len(z) = Portion
              /\ \A n \in 1 .. Portion : z[n] = ByteOf(fs.fptr + n)
  <2> HIDE DEF bytes
  <2> WITNESS bytes
  <2> QED
    BY <1>7, <1>10, <1>11 DEF bytes
<1>14. IsCluster(disk, ClusterAt(disk, fs.org_clust, m \div fs.csize))
  BY <1>6
<1> QED
  BY <1>1, <1>7, <1>8, <1>9, <1>12, <1>13, <1>14

LEMMA ChunkData ==
  ASSUME FileInv, PositionInv, DataInv, ReadChunk, pc' = "chunk"
  PROVE  DataInv'
<1> DEFINE l == Len(got)
           at == fs.fptr - l
           P == Portion
           least == File!Least(call.arg, fs.fsize - at)
<1>1. pc = "chunk" /\ got \in Seq(Nat \X Nat) /\ l \in Nat
  BY DEF ReadChunk, FileInv, TypeOK
<1>2. /\ at \in Nat /\ fs.fptr + btr = at + least
      /\ got = [n \in 1 .. l |-> ByteOf(at + n)]
  BY <1>1 DEF DataInv
<1>3. /\ btr \in Nat \ {0} /\ P \in 1 .. btr
      /\ fs'.fptr = fs.fptr + P /\ btr' = btr - P
      /\ fs'.org_clust = fs.org_clust /\ fs'.fsize = fs.fsize
      /\ card' = card /\ call' = call
      /\ fs.fptr \in Nat
  <2>1. fs.fptr \in Nat
    BY FatFsTypes DEF FileInv, TypeOK
  <2> QED
    BY <2>1, ChunkRead
<1>4. PICK bytes : /\ got' = got \o bytes /\ bytes \in Seq(Nat \X Nat)
                   /\ Len(bytes) = P
                   /\ \A n \in 1 .. P : bytes[n] = ByteOf(fs.fptr + n)
  BY ChunkRead
<1>5. P \in Nat
  BY <1>3
<1> HIDE DEF P
<1>6. /\ got' \in Seq(Nat \X Nat) /\ Len(got') = l + P
      /\ \A n \in 1 .. l : got'[n] = got[n]
      /\ \A n \in 1 .. P : got'[l + n] = bytes[n]
  <2> DEFINE S == Nat \X Nat
  <2>1. got \in Seq(S) /\ bytes \in Seq(S)
    BY <1>1, <1>4
  <2>2. PICK m : m = l
    OBVIOUS
  <2>3. m = Len(got) /\ P = Len(bytes)
    BY <1>4, <2>2
  <2> HIDE DEF S, l
  <2>4. got \o bytes \in Seq(S) /\ Len(got \o bytes) = m + P
    BY ONLY <2>1, <2>3, ConcatIs
  <2>5. \A n \in 1 .. m : (got \o bytes)[n] = got[n]
    BY ONLY <2>1, <2>3, ConcatIs
  <2>6. \A n \in 1 .. P : (got \o bytes)[m + n] = bytes[n]
    BY ONLY <2>1, <2>3, ConcatIs
  <2> QED
    BY <1>4, <2>2, <2>4, <2>5, <2>6 DEF S
<1>7. fs'.fptr - Len(got') = at
  <2>1. Len(got') = l + P
    BY <1>6
  <2> HIDE DEF l
  <2>2. l \in Nat /\ fs.fptr \in Nat /\ fs'.fptr = fs.fptr + P
    BY <1>1, <1>3
  <2> QED
    BY ONLY <1>5, <2>1, <2>2 DEF at
<1>8. fs'.fptr + btr' = at + least
  <2>1. fs.fptr \in Nat /\ btr \in Nat /\ fs'.fptr = fs.fptr + P /\ btr' = btr - P
    BY <1>3
  <2>2. fs.fptr + btr = at + least
    BY <1>2
  <2> HIDE DEF at, least
  <2>3. fs'.fptr + btr' = fs.fptr + btr
    BY ONLY <1>5, <2>1
  <2> QED
    BY <2>2, <2>3
<1>9. \A n : ByteOf(n)' = ByteOf(n)
  BY <1>3 DEF ByteOf, disk
<1>10. ASSUME NEW n \in 1 .. l + P PROVE got'[n] = ByteOf(at + n)
  <2>a. l \in Nat /\ at \in Nat /\ at + l = fs.fptr
    <3>1. fs.fptr \in Nat
      BY <1>3
    <3> QED
      BY <1>1, <1>2, <3>1
  <2>1. CASE n \in 1 .. l
    BY <1>2, <1>6, <2>1
  <2>2. CASE n \notin 1 .. l
    <3> HIDE DEF l, at
    <3>1. PICK i \in 1 .. P : n = l + i
      <4>1. n - l \in 1 .. P /\ n = l + (n - l)
        BY ONLY <1>5, <2>a, <2>2, n \in 1 .. l + P
      <4> QED
        BY <4>1
    <3>2. got'[n] = bytes[i] /\ bytes[i] = ByteOf(fs.fptr + i)
      BY <1>4, <1>6, <3>1
    <3>3. at + n = fs.fptr + i
      BY ONLY <1>5, <2>a, <3>1, fs.fptr = fs.fptr
    <3> QED
      BY <3>2, <3>3
  <2> QED
    BY <2>1, <2>2
<1>11. got' = [n \in 1 .. Len(got') |-> ByteOf(at + n)]
  <2>1. got' = [n \in 1 .. Len(got') |-> got'[n]]
    BY <1>6
  <2>2. \A n \in 1 .. Len(got') : got'[n] = ByteOf(at + n)
    BY <1>6, <1>10
  <2> HIDE DEF at
  <2> QED
    BY <2>1, <2>2, Zenon
<1>12. (fs.fptr + btr)' = at + File!Least(call'.arg, fs'.fsize - at)
  BY <1>3, <1>8
<1>13. at \in Nat
  BY <1>2
<1> HIDE DEF at, least, l
<1>14. (fs.fptr - Len(got) \in Nat)'
  BY <1>7, <1>13
<1>15. (fs.fptr + btr = (fs.fptr - Len(got))
          + File!Least(call.arg, fs.fsize - (fs.fptr - Len(got))))'
  BY <1>7, <1>12 DEF File!Least
<1>16. (got = [n \in 1 .. Len(got) |-> ByteOf((fs.fptr - Len(got)) + n)])'
  <2>1. \A n : ByteOf((fs.fptr - Len(got)) + n)' = ByteOf(at + n)
    BY <1>3, <1>7 DEF ByteOf, disk
  <2> QED
    BY <1>11, <2>1, Zenon
<1> QED
  BY <1>14, <1>15, <1>16 DEF DataInv

LEMMA DataElsewhere ==
  ASSUME FileInv, Next, pc' \in {"chunk", "follow"}
  PROVE  BeginRead \/ ReadChunk \/ SeekForward \/ SeekFromStart \/ FollowChain
<1>1. ~\E res : Return(res)
  BY DEF Return
<1>2. ~\E c \in Calls : Call(c)
  <2> SUFFICES ASSUME NEW c \in Calls, Call(c) PROVE FALSE
    OBVIOUS
  <2>1. c.op \notin {"chunk", "follow"}
    BY CallTypes
  <2> QED
    BY <2>1 DEF Call
<1>3. ~BeginOpen
  <2>1. BeginOpen => GoTo("segment")
    BY <1>1, Zenon DEF BeginOpen
  <2> QED
    BY <2>1 DEF GoTo
<1>4. ~FollowSegment
  <2>1. FollowSegment => GoTo("find")
    BY <1>1, Zenon DEF FollowSegment
  <2> QED
    BY <2>1 DEF GoTo
<1>5. ~NextEntry
  <2>1. NextEntry => GoTo(pc) /\ pc = "find"
    BY <1>1, Zenon DEF NextEntry, Stay
  <2> QED
    BY <2>1 DEF GoTo
<1>6. ~FollowDirectory
  <2>1. FollowDirectory => GoTo("segment")
    BY <1>1, Zenon DEF FollowDirectory
  <2> QED
    BY <2>1 DEF GoTo
<1>7. ~CheckFirstSector
  <2>1. CheckFirstSector => GoTo("bpb") \/ GoTo("table")
    BY <1>1, Zenon DEF CheckFirstSector, VolumeAt
  <2> QED
    BY <2>1 DEF GoTo
<1>8. ~ReadTable
  <2>1. ReadTable => GoTo("bpb")
    BY <1>1, Zenon DEF ReadTable, VolumeAt
  <2> QED
    BY <2>1 DEF GoTo
<1> QED
  BY <1>1, <1>2, <1>3, <1>4, <1>5, <1>6, <1>7, <1>8, Zenon
     DEF Next, Step, MountStep, OpenStep, ReadStep, SeekStep,
         DriveNotReady, ReadBpb, Unmount, BeginOpenUnmounted, EntryUnreadable,
         EndOfTable, OpenFound, BeginReadUnusable, ReadDone,
         BeginSeekUnusable, SeekToStart, SeekDone

LEMMA BeginReadData ==
  ASSUME FileInv, CallInv, BeginRead
  PROVE  DataInv'
<1>1. /\ pc = "read" /\ pc' = "chunk" /\ call' = call /\ fs' = fs /\ got' = got
      /\ btr' = IF call.arg > fs.fsize - fs.fptr THEN fs.fsize - fs.fptr
                                                 ELSE call.arg
      /\ Usable
  BY DEF BeginRead, GoTo, handle
<1>2. /\ got = <<>> /\ call.op = "read" /\ call.arg \in Nat
      /\ fs.fptr \in Nat /\ fs.fsize \in Nat /\ fs.fptr <= fs.fsize
  <2>1. got = <<>>
    BY <1>1 DEF CallInv
  <2>2. call.op = "read" /\ fs.fptr <= fs.fsize
    BY <1>1 DEF FileInv, ExtentInv
  <2>3. call.arg \in Nat
    BY <2>2, CallTypes DEF FileInv, TypeOK, Idle
  <2>4. fs.fptr \in Nat /\ fs.fsize \in Nat
    BY FatFsTypes DEF FileInv, TypeOK
  <2> QED
    BY <2>1, <2>2, <2>3, <2>4
<1>3. Len(got) = 0 /\ fs.fptr - 0 = fs.fptr
  BY <1>2
<1>4. fs.fptr + btr' = fs.fptr + File!Least(call.arg, fs.fsize - fs.fptr)
  <2> DEFINE rest == fs.fsize - fs.fptr
  <2>1. rest \in Nat
    BY <1>2
  <2>2. btr' = File!Least(call.arg, rest)
    <3>1. File!Least(call.arg, rest) = IF call.arg < rest THEN call.arg ELSE rest
      BY LeastIs
    <3>2. btr' = IF call.arg > rest THEN rest ELSE call.arg
      BY <1>1
    <3>3. call.arg \in Nat
      BY <1>2
    <3> HIDE DEF rest
    <3> QED
      BY ONLY <2>1, <3>1, <3>2, <3>3
  <2> QED
    BY <2>2
<1>5. (fs.fptr - Len(got) = fs.fptr)'
  BY <1>1, <1>3
<1>6. (fs.fptr - Len(got) \in Nat)'
  BY <1>1, <1>2, <1>5
<1>7. (fs.fptr + btr = (fs.fptr - Len(got))
          + File!Least(call.arg, fs.fsize - (fs.fptr - Len(got))))'
  BY <1>1, <1>4, <1>5 DEF File!Least
<1>8. (got = [n \in 1 .. Len(got) |-> ByteOf((fs.fptr - Len(got)) + n)])'
  <2>1. got' = <<>> /\ 1 .. Len(got') = {}
    BY <1>1, <1>2
  <2> QED
    BY <2>1
<1> QED
  BY <1>1, <1>6, <1>7, <1>8 DEF DataInv

LEMMA SearchData ==
  ASSUME FileInv, SeekForward \/ SeekFromStart
  PROVE  DataInv'
<1>1. PICK start, cluster : /\ Search(start, cluster)
                            /\ start \in Nat /\ cluster \in Nat
                            /\ start <= Target - 1
  <2>1. CASE SeekForward
    <3>1. PICK start : start = (fs.fptr - 1) - ((fs.fptr - 1) % ClusterSize)
      OBVIOUS
    <3>2. start \in Nat /\ start <= Target - 1
      BY <2>1, <3>1, SeekForwardStart
    <3>3. Search(start, fs.curr_clust) /\ fs.curr_clust \in Nat
      BY <2>1, <3>1, FatFsTypes DEF SeekForward, FileInv, TypeOK
    <3> QED
      BY <3>2, <3>3
  <2>2. CASE SeekFromStart
    <3>1. pc = "seek" /\ Usable /\ Target > 0
      BY <2>2 DEF SeekFromStart
    <3>2. 0 <= Target - 1
      BY <3>1, SeekFacts
    <3>3. Search(0, fs.org_clust) /\ fs.org_clust \in Nat
      BY <2>2, FatFsTypes DEF SeekFromStart, FileInv, TypeOK
    <3> QED
      BY <3>2, <3>3
  <2> QED
    BY <2>1, <2>2
<1>2. /\ pc = "seek" /\ Usable /\ Target > 0
  BY DEF SeekForward, SeekFromStart
<1>3. fs'.fptr = start /\ pc' = "follow"
  BY <1>1, <1>2, SearchKeeps
<1>4. ofs' = Target - start /\ call' = call
  BY <1>1 DEF Search, GoTo
<1>5. fs'.fsize = fs.fsize
  <2>1. fs' = [fs EXCEPT !.fptr = start, !.curr_clust = cluster]
    BY <1>1 DEF Search
  <2>2. fs \in FATFS
    BY DEF FileInv, TypeOK
  <2> QED
    BY <2>1, <2>2 DEF FATFS
<1>6. Target' = Target
  BY <1>4, <1>5 DEF Target
<1>7. fs'.fptr + ofs' = Target
  <2>1. Target \in Nat
    <3>1. Target \in 0 .. fs.fsize /\ fs.fsize \in Nat
      BY <1>2, SeekFacts
    <3> QED
      BY ONLY <3>1
  <2> QED
    BY ONLY <1>1, <1>3, <1>4, <2>1
<1> QED
  BY <1>3, <1>6, <1>7 DEF DataInv

LEMMA FollowData ==
  ASSUME FileInv, DataInv, FollowChain, pc' = "follow"
  PROVE  DataInv'
<1>1. PICK next \in GetFat(clst) :
        /\ fs' = [fs EXCEPT !.curr_clust = next.link,
                            !.fptr = @ + ClusterSize]
        /\ ofs' = ofs - ClusterSize /\ call' = call
  BY DEF FollowChain, Return, Stay, GoTo
<1>2. /\ pc = "follow" /\ fs \in FATFS /\ fs.fptr \in Nat
      /\ ClusterSize \in Nat /\ ofs \in Nat
  <2>1. pc = "follow"
    BY DEF FollowChain
  <2>2. /\ TypeOK /\ IsDisk(disk) /\ Describes /\ fs \in FATFS
    BY <2>1, FileFacts
  <2> QED
    BY <2>1, <2>2, FatFsTypes, ClusterSizeType DEF TypeOK
<1>3. fs'.fptr = fs.fptr + ClusterSize /\ fs'.fsize = fs.fsize
  BY <1>1, <1>2 DEF FATFS
<1>4. Target' = Target
  BY <1>1, <1>3 DEF Target
<1>5. fs.fptr + ofs = Target
  BY <1>2 DEF DataInv
<1>6. fs'.fptr + ofs' = fs.fptr + ofs
  <2>1. ofs' = ofs - ClusterSize
    BY <1>1
  <2> QED
    BY ONLY <1>2, <1>3, <2>1
<1> QED
  BY <1>4, <1>5, <1>6 DEF DataInv

LEMMA DataInvKept ==
  ASSUME FileInv, PositionInv, CallInv, DataInv, [Next]_vars
  PROVE  DataInv'
<1>1. CASE UNCHANGED vars
  <2>1. UNCHANGED <<card, fs, call, pc, got, btr, ofs>>
    BY <1>1 DEF vars, handle, locals, seekVars
  <2>2. \A n : ByteOf(n)' = ByteOf(n)
    BY <2>1 DEF ByteOf, disk
  <2>3. Target' = Target
    BY <2>1 DEF Target
  <2>4. \A a, b : File!Least(a, b)' = File!Least(a, b)
    BY DEF File!Least
  <2>5. CASE pc = "chunk"
    <3>1. fs.fptr + btr = (fs.fptr - Len(got))
            + File!Least(call.arg, fs.fsize - (fs.fptr - Len(got)))
      BY <2>5 DEF DataInv
    <3>2. (fs.fptr + btr = (fs.fptr - Len(got))
            + File!Least(call.arg, fs.fsize - (fs.fptr - Len(got))))'
      BY <2>1, <3>1 DEF File!Least
    <3>3. got = [n \in 1 .. Len(got) |-> ByteOf((fs.fptr - Len(got)) + n)]
          /\ fs.fptr - Len(got) \in Nat
      BY <2>5 DEF DataInv
    <3>4. (got = [n \in 1 .. Len(got) |-> ByteOf((fs.fptr - Len(got)) + n)])'
          /\ (fs.fptr - Len(got) \in Nat)'
      BY <2>1, <3>3 DEF ByteOf, disk
    <3> QED
      BY <2>1, <2>5, <3>2, <3>4 DEF DataInv
  <2>6. CASE pc # "chunk"
    BY <2>1, <2>3, <2>6 DEF DataInv
  <2> QED
    BY <2>5, <2>6
<1>2. CASE ~(pc' \in {"chunk", "follow"})
  BY <1>2 DEF DataInv
<1>3. CASE Next /\ pc' \in {"chunk", "follow"}
  <2>1. BeginRead \/ ReadChunk \/ SeekForward \/ SeekFromStart \/ FollowChain
    BY <1>3, DataElsewhere
  <2>2. ReadChunk => pc' = "chunk"
    BY <1>3 DEF ReadChunk, Return, Stay, GoTo
  <2>3. FollowChain => pc' = "follow"
    BY <1>3 DEF FollowChain, Return, Stay, GoTo
  <2> QED
    BY <2>1, <2>2, <2>3, BeginReadData, ChunkData, SearchData, FollowData
<1> QED
  BY <1>1, <1>2, <1>3

-----------------------------------------------------------------------------
LEMMA RefInit == Init => RefInv
<1> SUFFICES ASSUME Init PROVE RefInv
  OBVIOUS
<1>1. CallInv
  BY DEF Init, CallInv
<1>2. SearchInv /\ DataInv
  BY DEF Init, SearchInv, DataInv
<1>3. OpenedInv
  BY DEF Init, OpenedInv, Usable
<1> QED
  BY <1>1, <1>2, <1>3 DEF RefInv

LEMMA RefNext ==
  ASSUME FileInv, PositionInv, Proper, RefInv, [Next]_vars
  PROVE  RefInv'
BY CallInvKept, SearchInvKept, OpenedInvKept, DataInvKept DEF RefInv

-----------------------------------------------------------------------------
(* The variables of ByteFile, and when its actions happen.                 *)
Mounted == fatFs /\ pc # "mount" /\ pc # "unmount"

OpenPath == IF Usable /\ pc \notin {"mount", "unmount", "open"}
              THEN opened ELSE 0

At == IF ~Usable \/ pc \in {"mount", "unmount", "open"} THEN 0
      ELSE IF pc = "chunk" THEN fs.fptr - Len(got)
      ELSE IF pc = "follow" THEN ifptr
      ELSE fs.fptr

Answer == IF answer \in {"none", "OK"} THEN answer ELSE "ERROR"

LEMMA FileStutters ==
  ASSUME card' = card, Mounted' <=> Mounted, OpenPath' = OpenPath, At' = At,
         call' = call, failed' = failed, answer' = answer, got' = got
  PROVE  UNCHANGED File!vars
<1>1. Answer' = Answer
  BY DEF Answer
<1>2. FilesOf[card]' = FilesOf[card] /\ Mountable[card]' = Mountable[card]
  BY DEF FilesOf, Mountable
<1> QED
  BY <1>1, <1>2 DEF File!vars, Mounted, OpenPath, At, Answer

LEMMA FileCalls ==
  ASSUME NEW c \in Calls, card' = card, call = Idle, call' = c,
         Mounted' <=> Mounted /\ c.op \notin {"mount", "unmount"},
         OpenPath' = IF c.op \in {"mount", "unmount", "open"} THEN 0
                                                              ELSE OpenPath,
         At' = IF OpenPath' = 0 THEN 0 ELSE At,
         failed' = FALSE, answer' = "none", got' = <<>>
  PROVE  File!Next
<1>1. FilesOf[card]' = FilesOf[card] /\ Mountable[card]' = Mountable[card]
  BY DEF FilesOf, Mountable
<1>2. Answer' = "none"
  BY DEF Answer
<1>3. File!Call(c)
  BY <1>1, <1>2 DEF File!Call, File!Idle, File!NoPath, Idle,
                    Mounted, OpenPath, At, Answer
<1> QED
  BY <1>3 DEF File!Next

LEMMA FileFails ==
  ASSUME card' = card, call # Idle, Mounted' <=> Mounted,
         OpenPath' = OpenPath, At' = At,
         call' = call, failed' = TRUE, answer' = answer, got' = got
  PROVE  File!Next
<1>1. FilesOf[card]' = FilesOf[card] /\ Mountable[card]' = Mountable[card]
  BY DEF FilesOf, Mountable
<1>2. Answer' = Answer
  BY DEF Answer
<1>3. File!TransferFails
  BY <1>1, <1>2 DEF File!TransferFails, File!Idle, Idle,
                    Mounted, OpenPath, At, Answer
<1> QED
  BY <1>3 DEF File!Next

(* A call of some kind ends.                                               *)
Ended(op) ==
  /\ card' = card /\ call.op = op /\ call' = Idle
  /\ failed' \in {failed, TRUE}

LEMMA FileEnds ==
  ASSUME NEW op, Ended(op)
  PROVE  File!Ends(op)
<1>1. FilesOf[card]' = FilesOf[card] /\ Mountable[card]' = Mountable[card]
  BY DEF Ended, FilesOf, Mountable
<1> QED
  BY <1>1 DEF Ended, File!Ends, File!Idle, Idle

LEMMA FileMounts ==
  ASSUME Ended("mount"), card \in DOMAIN Disks,
         \/ Answer' = "OK" /\ Mounted' /\ IsVolume(disk)
         \/ Answer' = "ERROR" /\ ~Mounted' /\ (~IsVolume(disk) \/ failed'),
         OpenPath' = OpenPath, At' = At, got' = got
  PROVE  File!Next
<1>1. Mountable[card] = IsVolume(disk)
  BY DEF Mountable, disk
<1>2. File!Ends("mount")
  BY FileEnds
<1>3. File!Mount
  BY <1>1, <1>2 DEF File!Mount, File!Succeeds, Mounted, OpenPath, At, Answer
<1> QED
  BY <1>3 DEF File!Next

LEMMA FileUnmounts ==
  ASSUME Ended("unmount"), Answer' = "OK", ~failed',
         Mounted' <=> Mounted, OpenPath' = OpenPath, At' = At, got' = got
  PROVE  File!Next
<1>1. File!Ends("unmount")
  BY FileEnds
<1>2. File!Unmount
  BY <1>1 DEF File!Unmount, File!Return, Mounted, OpenPath, At, Answer
<1> QED
  BY <1>2 DEF File!Next

LEMMA FilesAre ==
  ASSUME card \in DOMAIN Disks
  PROVE  /\ \A n : n \in DOMAIN FilesOf[card]
                     <=> n \in DOMAIN Paths /\ IsFile(disk, Paths[n].names)
         /\ \A n \in DOMAIN FilesOf[card] :
              FilesOf[card][n] = FileOf(disk, Paths[n].names)
BY DEF FilesOf, disk

LEMMA FileOpens ==
  ASSUME Ended("open"), card \in DOMAIN Disks, call.arg \in DOMAIN Paths,
         \/ /\ Answer' = "OK" /\ ~failed' /\ Mounted /\ IsFile(disk, Names)
            /\ OpenPath' = call.arg
         \/ /\ Answer' = "ERROR" /\ OpenPath' = 0
            /\ failed' \/ ~Mounted \/ ~IsFile(disk, Names),
         Mounted' <=> Mounted, At' = At, got' = got
  PROVE  File!Next
<1>1. call.arg \in DOMAIN FilesOf[card] <=> IsFile(disk, Names)
  BY FilesAre DEF Names
<1>2. File!Ends("open")
  BY FileEnds
<1>3. File!Open
  BY <1>1, <1>2 DEF File!Open, File!Return, File!Succeeds, File!NoPath,
                    Mounted, OpenPath, At, Answer
<1> QED
  BY <1>3 DEF File!Next

(* Calls that need an open file, and there is none.                        *)
LEMMA FileNotOpen ==
  ASSUME NEW op \in {"read", "seek"}, Ended(op), OpenPath = 0,
         Answer' = "ERROR", Mounted' <=> Mounted,
         OpenPath' = OpenPath, At' = At, got' = got
  PROVE  File!Next
<1>1. File!Ends(op)
  BY FileEnds
<1>2. CASE op = "read"
  <2>1. File!Read
    BY <1>1, <1>2 DEF File!Read, File!Return, File!NoPath,
                      Mounted, OpenPath, At, Answer
  <2> QED
    BY <2>1 DEF File!Next
<1>3. CASE op = "seek"
  <2>1. File!Seek
    BY <1>1, <1>3 DEF File!Seek, File!Return, File!NoPath,
                      Mounted, OpenPath, At, Answer
  <2> QED
    BY <2>1 DEF File!Next
<1> QED
  BY <1>2, <1>3

(* The open file: its size and its bytes.                                  *)
BytesOf == FileBytes(disk, fs.org_clust, fs.fsize)

LEMMA OpenFileIs ==
  ASSUME FileInv, OpenedInv, Usable
  PROVE  /\ opened # 0
         /\ FilesOf[card][opened] = [size |-> fs.fsize, bytes |-> BytesOf]
<1>1. /\ opened \in DOMAIN Paths /\ IsFile(disk, Paths[opened].names)
      /\ LET e == Resolved(disk, Paths[opened].names)
         IN  fs.org_clust = e.clust /\ fs.fsize = e.size
  BY DEF OpenedInv
<1>2. card \in DOMAIN Disks
  BY DEF FileInv, TypeOK
<1>3. FilesOf[card][opened] = FileOf(disk, Paths[opened].names)
  BY <1>1, <1>2, FilesAre
<1>4. opened # 0
  <2>1. opened \in 1 .. Len(Paths) /\ Len(Paths) \in Nat
    BY <1>1, CallerAssumption
  <2> QED
    BY ONLY <2>1
<1> QED
  BY <1>1, <1>3, <1>4 DEF FileOf, BytesOf

(* Where a read ends, and the bytes it is to deliver.                      *)
Least(a, b) == IF a < b THEN a ELSE b

EndOfRead == At + Least(call.arg, fs.fsize - At)

AskedBytes == SubSeq(BytesOf, At + 1, Least(EndOfRead, Len(BytesOf)))

LEMMA FileReadIs ==
  ASSUME FileInv, OpenedInv, Usable, OpenPath = opened
  PROVE  /\ File!End = EndOfRead /\ File!Asked = AskedBytes
         /\ FilesOf[card][OpenPath].bytes = BytesOf
         /\ FilesOf[card][OpenPath].size = fs.fsize
         /\ OpenPath # 0
<1>1. /\ OpenPath # 0
      /\ FilesOf[card][OpenPath] = [size |-> fs.fsize, bytes |-> BytesOf]
  BY OpenFileIs
<1>2. FilesOf[card][OpenPath].bytes = BytesOf
      /\ FilesOf[card][OpenPath].size = fs.fsize
  BY <1>1
<1>3. File!End = At + File!Least(call.arg, FilesOf[card][OpenPath].size - At)
  BY DEF File!End, OpenPath, At
<1>4. File!End = EndOfRead
  BY <1>2, <1>3 DEF EndOfRead, File!Least, Least
<1>5. File!Asked = LET bytes == FilesOf[card][OpenPath].bytes
                   IN  SubSeq(bytes, At + 1, File!Least(File!End, Len(bytes)))
  BY DEF File!Asked, OpenPath, At
<1>6. File!Asked = AskedBytes
  BY <1>2, <1>4, <1>5 DEF AskedBytes, File!Least, Least
<1> QED
  BY <1>1, <1>2, <1>4, <1>6

(* Prefixes in ByteFile are prefixes.                                      *)
LEMMA PrefixIs ==
  ASSUME NEW s, NEW t, IsPrefix(s, t)
  PROVE  File!IsPrefix(s, t)
BY DEF IsPrefix, File!IsPrefix

LEMMA FileDelivers ==
  ASSUME FileInv, OpenedInv, Usable, OpenPath = opened, call.op = "read",
         card' = card, Mounted' <=> Mounted, OpenPath' = OpenPath, At' = At,
         call' = call, failed' = failed, answer' = answer,
         IsPrefix(got, got'), IsPrefix(got', AskedBytes)
  PROVE  File!Next
<1>1. FilesOf[card]' = FilesOf[card] /\ Mountable[card]' = Mountable[card]
  BY DEF FilesOf, Mountable
<1>2. Answer' = Answer
  BY DEF Answer
<1>3. File!Asked = AskedBytes /\ OpenPath # 0
  BY FileReadIs
<1>4. File!IsPrefix(got, got') /\ File!IsPrefix(got', File!Asked)
  BY <1>3, PrefixIs
<1>5. File!Deliver
  BY <1>1, <1>2, <1>3, <1>4 DEF File!Deliver, File!NoPath,
                          Mounted, OpenPath, At, Answer
<1> QED
  BY <1>5 DEF File!Next

LEMMA FileReads ==
  ASSUME FileInv, OpenedInv, Usable, OpenPath = opened, Ended("read"),
         Mounted' <=> Mounted,
         \/ /\ Answer' = "OK" /\ ~failed' /\ EndOfRead <= Len(BytesOf)
            /\ got' = AskedBytes /\ At' = EndOfRead /\ OpenPath' = OpenPath
         \/ /\ Answer' = "ERROR" /\ (failed' \/ ~(EndOfRead <= Len(BytesOf)))
            /\ IsPrefix(got', AskedBytes) /\ OpenPath' = 0 /\ At' = 0
  PROVE  File!Next
<1>1. /\ File!End = EndOfRead /\ File!Asked = AskedBytes
      /\ FilesOf[card][OpenPath].bytes = BytesOf /\ OpenPath # 0
  BY FileReadIs
<1>2. File!Ends("read")
  BY FileEnds
<1>3. File!Return("read", EndOfRead <= Len(BytesOf))
  BY <1>2 DEF File!Return, Answer
<1>4. IF File!Succeeds
        THEN got' = File!Asked /\ At' = File!End /\ OpenPath' = OpenPath
        ELSE File!IsPrefix(got', File!Asked) /\ OpenPath' = 0 /\ At' = 0
  <2>1. File!Succeeds <=> Answer' = "OK"
    BY DEF File!Succeeds, Answer
  <2> QED
    BY <1>1, <2>1, PrefixIs
<1>5. File!Read
  BY <1>1, <1>3, <1>4 DEF File!Read, File!NoPath,
                    Mounted, OpenPath, At, Answer
<1> QED
  BY <1>5 DEF File!Next

LEMMA FileSeeks ==
  ASSUME FileInv, OpenedInv, Usable, OpenPath = opened, Ended("seek"),
         call.arg \in Nat, fs.fsize \in Nat,
         Mounted' <=> Mounted, got' = got,
         \/ /\ Answer' = "OK" /\ ~failed' /\ Target <= Len(BytesOf)
            /\ At' = Target /\ OpenPath' = OpenPath
         \/ /\ Answer' = "ERROR" /\ (failed' \/ ~(Target <= Len(BytesOf)))
            /\ OpenPath' = 0 /\ At' = 0
  PROVE  File!Next
<1>1. /\ FilesOf[card][OpenPath].bytes = BytesOf /\ OpenPath # 0
      /\ FilesOf[card][OpenPath].size = fs.fsize
  BY FileReadIs
<1>2. File!Ends("seek")
  BY FileEnds
<1>3. File!Return("seek", Target <= Len(BytesOf))
  BY <1>2 DEF File!Return, Answer
<1>4. File!Least(call.arg, fs.fsize) = Target
  BY DEF File!Least, Target
<1>5. File!Seek
  BY <1>1, <1>3, <1>4 DEF File!Seek, File!Succeeds, File!NoPath,
                          Mounted, OpenPath, At, Answer
<1> QED
  BY <1>5 DEF File!Next

-----------------------------------------------------------------------------
(* Each step is a step of ByteFile.  First the calls themselves.           *)
LEMMA CallSteps ==
  ASSUME FileInv, RefInv, NEW c \in Calls, Call(c)
  PROVE  File!Next
<1>1. /\ pc = "idle" /\ call = Idle /\ call' = c /\ pc' = c.op
      /\ card' = card /\ fatFs' = fatFs /\ fs' = fs /\ opened' = opened
      /\ failed' = FALSE /\ answer' = "none" /\ got' = <<>>
  BY DEF Call, RefInv, CallInv, handle
<1>2. c.op \in {"mount", "unmount", "open", "read", "seek"}
  BY CallTypes
<1>3. Usable' = Usable
  BY <1>1 DEF Usable
<1>4. Usable => opened # 0
  BY OpenFileIs DEF RefInv
<1>5. Mounted' <=> Mounted /\ c.op \notin {"mount", "unmount"}
  BY <1>1 DEF Mounted
<1>6. OpenPath' = IF c.op \in {"mount", "unmount", "open"} THEN 0
                                                          ELSE OpenPath
  BY <1>1, <1>3 DEF OpenPath
<1>7. At' = IF OpenPath' = 0 THEN 0 ELSE At
  <2>1. CASE ~Usable \/ c.op \in {"mount", "unmount", "open"}
    BY <1>1, <1>3, <2>1 DEF OpenPath, At
  <2>2. CASE Usable /\ c.op \notin {"mount", "unmount", "open"}
    <3>1. OpenPath' # 0
      BY <1>1, <1>3, <1>4, <2>2 DEF OpenPath
    <3>2. At' = fs.fptr /\ At = fs.fptr
      BY <1>1, <1>2, <1>3, <2>2 DEF At
    <3> QED
      BY <3>1, <3>2
  <2> QED
    BY <2>1, <2>2
<1> QED
  BY <1>1, <1>5, <1>6, <1>7, FileCalls

(* No file is open while a volume is mounted or given up.                  *)
Nothing == ~Mounted /\ OpenPath = 0 /\ At = 0

LEMMA NothingOpen ==
  ASSUME \/ ~fatFs
         \/ pc \in {"mount", "unmount"}
  PROVE  Nothing
BY DEF Nothing, Mounted, OpenPath, At, Usable

LEMMA NothingOpenNext ==
  ASSUME \/ ~fatFs'
         \/ pc' \in {"mount", "unmount"}
  PROVE  Nothing'
BY DEF Nothing, Mounted, OpenPath, At, Usable

LEMMA UnmountSteps ==
  ASSUME FileInv, RefInv, Unmount
  PROVE  File!Next
<1>1. /\ pc = "unmount" /\ fatFs' = FALSE /\ card' = card /\ got' = got
      /\ failed' = failed /\ answer' = "OK" /\ call' = Idle
  BY DEF Unmount, Return
<1>2. call.op = "unmount" /\ ~failed
  BY <1>1 DEF FileInv, ExtentInv, RefInv, CallInv
<1>3. Nothing /\ Nothing'
  BY <1>1, NothingOpen, NothingOpenNext
<1>4. Ended("unmount") /\ Answer' = "OK" /\ ~failed'
  BY <1>1, <1>2 DEF Ended, Answer
<1> QED
  BY <1>1, <1>3, <1>4, FileUnmounts DEF Nothing

(* A mount that returns without a volume: there is none, or a transfer     *)
(* has failed.                                                             *)
LEMMA NoVolume ==
  ASSUME FileInv, RefInv, pc \in {"mount", "table", "bpb"},
         card' = card, got' = got, fatFs' = FALSE, NEW res, Return(res),
         res \notin {"none", "OK"}, failed' \in {failed, TRUE},
         ~IsVolume(disk) \/ failed'
  PROVE  File!Next
<1>1. call.op = "mount" /\ card \in DOMAIN Disks
  BY DEF FileInv, ExtentInv, TypeOK, RefInv, CallInv
<1>2. Nothing
  <2>1. pc = "mount" \/ ~fatFs
    BY DEF FileInv, MountInv
  <2> QED
    BY <2>1, NothingOpen
<1>3. Nothing'
  BY NothingOpenNext
<1>4. Ended("mount") /\ Answer' = "ERROR"
  BY <1>1 DEF Return, Ended, Answer
<1> QED
  BY <1>1, <1>2, <1>3, <1>4, FileMounts DEF Nothing

(* A mount that goes on has at most met a transfer that failed.            *)
LEMMA MountGoesOn ==
  ASSUME FileInv, RefInv, pc \in {"mount", "table", "bpb"},
         card' = card, got' = got, fatFs' = FALSE,
         NEW place, GoTo(place), failed' \in {failed, TRUE}
  PROVE  File!Next \/ UNCHANGED File!vars
<1>1. call # Idle /\ call' = call /\ answer' = answer
  BY DEF GoTo, RefInv, CallInv
<1>2. Nothing
  <2>1. pc = "mount" \/ ~fatFs
    BY DEF FileInv, MountInv
  <2> QED
    BY <2>1, NothingOpen
<1>3. Nothing'
  BY NothingOpenNext
<1>4. CASE failed' = TRUE
  BY <1>1, <1>2, <1>3, <1>4, FileFails DEF Nothing
<1>5. CASE failed' = failed
  BY <1>1, <1>2, <1>3, <1>5, FileStutters DEF Nothing
<1> QED
  BY <1>4, <1>5

LEMMA CheckFailed ==
  ASSUME NEW s, NEW fmt, CheckFs(s, fmt)
  PROVE  /\ failed' \in {failed, TRUE}
         /\ fmt = 2 => ~IsBoot(disk, s)
         /\ fmt = 3 => failed'
         /\ fmt = 1 /\ ~failed' => IsBoot(disk, s) /\ ~disk[s].fat
<1>1. CASE fmt = 3 /\ failed' = TRUE
  BY <1>1
<1>2. CASE fmt = 2 /\ ~IsBoot(disk, s) /\ UNCHANGED failed
  BY <1>2
<1>3. CASE fmt = 1 /\ IsBoot(disk, s) /\ failed' = TRUE
  BY <1>3
<1>4. CASE /\ IsBoot(disk, s)
           /\ fmt = IF disk[s].fat THEN 0 ELSE 1
           /\ UNCHANGED failed
  <2>1. fmt # 2 /\ fmt # 3
    BY <1>4
  <2>2. fmt = 1 => ~disk[s].fat
    BY <1>4
  <2> QED
    BY <1>4, <2>1, <2>2
<1> QED
  BY <1>1, <1>2, <1>3, <1>4 DEF CheckFs

LEMMA DriveNotReadySteps ==
  ASSUME FileInv, RefInv, DriveNotReady
  PROVE  File!Next
BY NoVolume DEF DriveNotReady

LEMMA CheckFirstSectorSteps ==
  ASSUME FileInv, RefInv, CheckFirstSector
  PROVE  File!Next \/ UNCHANGED File!vars
<1>1. pc = "mount" /\ fatFs' = FALSE /\ card' = card /\ got' = got
  BY DEF CheckFirstSector
<1>2. CASE CheckFs(0, 0) /\ VolumeAt(0)
  <2>1. failed' \in {failed, TRUE}
    BY <1>2, CheckFailed
  <2> QED
    BY <1>1, <1>2, <2>1, MountGoesOn DEF VolumeAt
<1>3. CASE CheckFs(0, 1) /\ GoTo("table")
  <2>1. failed' \in {failed, TRUE}
    BY <1>3, CheckFailed
  <2> QED
    BY <1>1, <1>3, <2>1, MountGoesOn
<1>4. CASE CheckFs(0, 2) /\ Return("NO_FILESYSTEM")
  <2>1. failed' \in {failed, TRUE} /\ ~IsBoot(disk, 0)
    BY <1>4, CheckFailed
  <2>2. ~IsVolume(disk)
    BY <2>1 DEF IsVolume, FirstSector
  <2> QED
    BY <1>1, <1>4, <2>1, <2>2, NoVolume
<1>5. CASE CheckFs(0, 3) /\ Return("DISK_ERR")
  <2>1. failed' \in {failed, TRUE} /\ failed'
    BY <1>5, CheckFailed
  <2> QED
    BY <1>1, <1>5, <2>1, NoVolume
<1> QED
  BY <1>2, <1>3, <1>4, <1>5 DEF CheckFirstSector

LEMMA ReadTableSteps ==
  ASSUME FileInv, RefInv, ReadTable
  PROVE  File!Next \/ UNCHANGED File!vars
<1> DEFINE s == disk[0].part
<1>1. /\ pc = "table" /\ fatFs' = FALSE /\ card' = card /\ got' = got
      /\ IsBoot(disk, 0)
  BY DEF ReadTable, FileInv, MountInv, handle, TypeOK
<1>2. failed \in BOOLEAN
  BY DEF FileInv, TypeOK
<1>3. ~failed => FirstSector(disk) = s
  BY <1>1 DEF RefInv, CallInv, FirstSector
<1>4. IsVolume(disk) /\ ~failed => IsBoot(disk, s) /\ disk[s].fat
  BY <1>3 DEF IsVolume
<1>5. CASE failed' = TRUE /\ Return("DISK_ERR")
  BY <1>1, <1>5, NoVolume
<1>6. CASE s # 0 /\ CheckFs(s, 0) /\ VolumeAt(s)
  <2>1. failed' \in {failed, TRUE}
    BY <1>6, CheckFailed
  <2> QED
    BY <1>1, <1>6, <2>1, MountGoesOn DEF VolumeAt
<1>7. CASE s # 0 /\ (CheckFs(s, 1) \/ CheckFs(s, 2)) /\ Return("NO_FILESYSTEM")
  <2>1. failed' \in {failed, TRUE}
    BY <1>7, CheckFailed
  <2>2. ~failed' => ~IsBoot(disk, s) \/ ~disk[s].fat
    BY <1>7, CheckFailed
  <2>3. ~IsVolume(disk) \/ failed'
    BY <1>2, <1>4, <2>1, <2>2
  <2> QED
    BY <1>1, <1>7, <2>1, <2>3, NoVolume
<1>8. CASE s # 0 /\ CheckFs(s, 3) /\ Return("DISK_ERR")
  <2>1. failed' \in {failed, TRUE} /\ failed'
    BY <1>8, CheckFailed
  <2> QED
    BY <1>1, <1>8, <2>1, NoVolume
<1>9. CASE s = 0 /\ Return("NO_FILESYSTEM") /\ UNCHANGED failed
  <2>1. ~IsVolume(disk) \/ failed'
    <3>1. CASE failed
      BY <1>9, <3>1
    <3>2. CASE ~failed
      <4>1. ~disk[0].fat
        BY <1>1, <3>2 DEF RefInv, CallInv
      <4> QED
        BY <1>4, <1>9, <3>2, <4>1
    <3> QED
      BY <3>1, <3>2
  <2> QED
    BY <1>1, <1>9, <2>1, NoVolume
<1> QED
  BY <1>5, <1>6, <1>7, <1>8, <1>9 DEF ReadTable

LEMMA ReadBpbSteps ==
  ASSUME FileInv, RefInv, ReadBpb
  PROVE  File!Next
<1> DEFINE b == disk[bsect].bpb
<1>1. /\ pc = "bpb" /\ card' = card /\ got' = got /\ ~fatFs /\ fatFs \in BOOLEAN
      /\ bsect = FirstSector(disk) /\ IsBoot(disk, bsect) /\ disk[bsect].fat
      /\ IsDisk(disk) /\ card \in DOMAIN Disks /\ fs \in FATFS
  BY CardIsDisk DEF ReadBpb, FileInv, MountInv, TypeOK
<1>2. LastCluster(b) = Clusters(b) + 2
  BY <1>1, BootIsFormatted, BpbFacts
<1>3. IsVolume(disk) <=> LastCluster(b) < Fat16Limit
  BY <1>1, <1>2 DEF IsVolume, Bpb
<1>4. LastCluster(b) \in Int /\ Fat16Limit \in Int
  BY <1>1, <1>2, BootIsFormatted, BpbFacts, VolumeAssumption
<1>5. CASE failed' = TRUE /\ Return("DISK_ERR") /\ UNCHANGED <<fs, fatFs>>
  <2>1. fatFs' = FALSE
    BY <1>1, <1>5
  <2> QED
    BY <1>1, <1>5, <2>1, NoVolume
<1>6. CASE LastCluster(b) >= Fat16Limit /\ Return("NO_FILESYSTEM")
           /\ UNCHANGED <<failed, fatFs>>
  <2>1. fatFs' = FALSE /\ failed' = failed
    BY <1>1, <1>6
  <2>2. ~IsVolume(disk)
    BY <1>3, <1>4, <1>6
  <2> QED
    BY <1>1, <1>6, <2>1, <2>2, NoVolume
<1>7. ASSUME LastCluster(b) < Fat16Limit, fatFs' = TRUE, Return("OK"),
             UNCHANGED failed, fs'.flag = FALSE
      PROVE  File!Next
  <2>1. Nothing
    BY <1>1, NothingOpen
  <2>2. /\ Mounted' /\ OpenPath' = 0 /\ At' = 0 /\ Answer' = "OK"
        /\ call' = Idle
    BY <1>7 DEF Return, Mounted, OpenPath, At, Usable, Answer
  <2>3. Ended("mount")
    BY <1>1, <1>7, <2>2 DEF Ended, RefInv, CallInv
  <2> QED
    BY <1>1, <1>3, <1>7, <2>1, <2>2, <2>3, FileMounts DEF Nothing
<1>8. ASSUME fs' = [Geometry(b) EXCEPT
                 !.fs_type = IF LastCluster(b) >= Fat12Limit THEN "FAT16"
                                                             ELSE "FAT12",
                 !.dirbase = Geometry(b).fatbase + FatArea(b),
                 !.database = Geometry(b).fatbase + FatArea(b)
                                + b.rootent \div DirSize,
                 !.flag = FALSE]
      PROVE fs'.flag = FALSE
  BY <1>1, <1>8 DEF Geometry, FATFS
<1> HIDE DEF b
<1>9. \/ failed' = TRUE /\ Return("DISK_ERR") /\ UNCHANGED <<fs, fatFs>>
      \/ LastCluster(b) >= Fat16Limit /\ Return("NO_FILESYSTEM")
           /\ UNCHANGED <<failed, fatFs>>
      \/ /\ LastCluster(b) < Fat16Limit /\ fatFs' = TRUE /\ Return("OK")
         /\ UNCHANGED failed
         /\ fs' = [Geometry(b) EXCEPT
                 !.fs_type = IF LastCluster(b) >= Fat12Limit THEN "FAT16"
                                                             ELSE "FAT12",
                 !.dirbase = Geometry(b).fatbase + FatArea(b),
                 !.database = Geometry(b).fatbase + FatArea(b)
                                + b.rootent \div DirSize,
                 !.flag = FALSE]
  BY DEF ReadBpb, b
<1> QED
  BY <1>5, <1>6, <1>7, <1>8, <1>9

-----------------------------------------------------------------------------
(* Opening.                                                                *)

(* While a path is followed, no file is open.                              *)
LEMMA WhileOpening ==
  ASSUME FileInv, RefInv, pc \in {"open", "segment", "find"}
  PROVE  /\ OpenPath = 0 /\ At = 0 /\ (Mounted <=> fatFs)
         /\ call.op = "open" /\ call # Idle /\ call.arg \in DOMAIN Paths
         /\ card \in DOMAIN Disks /\ ~failed
<1>1. call.op = "open" /\ TypeOK /\ card \in DOMAIN Disks /\ call # Idle
  BY DEF FileInv, ExtentInv, RefInv, CallInv, TypeOK
<1>2. call.arg \in DOMAIN Paths
  BY <1>1, CallTypes DEF TypeOK, Idle
<1>3. ~failed
  BY DEF RefInv, CallInv
<1>4. pc = "open" \/ ~Usable
  <2>1. pc # "open" => ~fs.flag
    BY SearchFacts DEF FileInv
  <2> QED
    BY <2>1 DEF Usable
<1>5. OpenPath = 0 /\ At = 0 /\ (Mounted <=> fatFs)
  BY <1>4 DEF OpenPath, At, Mounted
<1> QED
  BY <1>1, <1>2, <1>3, <1>5

(* A search that ends without a file: there is none at the path, or a      *)
(* transfer has failed.                                                    *)
LEMMA NotOpened ==
  ASSUME FileInv, RefInv, pc \in {"open", "segment", "find"},
         card' = card, got' = got, fatFs' = fatFs, ~Usable',
         NEW res, Return(res), res \notin {"none", "OK"},
         failed' \in {failed, TRUE},
         failed' \/ ~fatFs \/ ~IsFile(disk, Names)
  PROVE  File!Next
<1>1. Ended("open") /\ Answer' = "ERROR"
  BY WhileOpening DEF Return, Ended, Answer
<1>2. OpenPath' = 0 /\ At' = 0 /\ (Mounted' <=> fatFs)
  BY DEF Return, OpenPath, At, Mounted
<1> QED
  BY <1>1, <1>2, WhileOpening, FileOpens

LEMMA SearchGoesOn ==
  ASSUME FileInv, RefInv, pc \in {"open", "segment", "find"},
         card' = card, got' = got, fatFs' = fatFs, ~Usable',
         NEW place \in {"segment", "find"}, GoTo(place), failed' = failed
  PROVE  UNCHANGED File!vars
<1>1. call' = call /\ answer' = answer /\ pc' = place
  BY DEF GoTo
<1>2. OpenPath' = 0 /\ At' = 0 /\ (Mounted' <=> fatFs)
  BY <1>1 DEF OpenPath, At, Mounted
<1> QED
  BY <1>1, <1>2, WhileOpening, FileStutters

(* The handle is as it was, and no file was open.                          *)
LEMMA HandleKept ==
  ASSUME FileInv, pc \in {"segment", "find"}, UNCHANGED handle
  PROVE  fatFs' = fatFs /\ ~Usable'
BY SearchFacts DEF Usable, handle

LEMMA BeginOpenUnmountedSteps ==
  ASSUME FileInv, RefInv, BeginOpenUnmounted
  PROVE  File!Next
<1>1. /\ pc = "open" /\ ~fatFs /\ card' = card /\ got' = got
      /\ fatFs' = fatFs /\ failed' = failed /\ Return("NOT_ENABLED")
  BY DEF BeginOpenUnmounted, handle
<1>2. ~Usable'
  BY <1>1 DEF Usable
<1> QED
  BY <1>1, <1>2, NotOpened

(* A path that ends before it begins leads to no file.                     *)
LEMMA EmptyPath ==
  ASSUME FileInv, Proper, call.op = "open",
         \/ WithoutLead(Typed[call.arg]) = <<>>
         \/ IsEnd(Head(WithoutLead(Typed[call.arg])))
  PROVE  ~IsFile(disk, Names)
<1> DEFINE text == WithoutLead(Typed[call.arg])
           k == Len(Names)
           first == Names[1]
           others == Behind(1)
<1>1. /\ Names \in Seq(Seq(Char)) /\ k \in Nat
      /\ k # 0 => /\ first \in Seq(Char) /\ ProperName(first)
                  /\ text = first \o others
  <2>1. /\ Names \in Seq(Seq(Char)) /\ k \in Nat
        /\ \A n \in 1 .. k : Names[n] \in Seq(Char) /\ ProperName(Names[n])
        /\ k # 0 => text = Names[1] \o Behind(1)
    BY OpenPathIs DEF FileInv
  <2>2. k # 0 => 1 \in 1 .. k
    BY ONLY <2>1
  <2> QED
    BY <2>1, <2>2
<1>2. k # 0 => others \in Seq(Char)
  <2>1. others = Rest(Names, 1)
    BY BehindIs
  <2>2. k # 0 => 1 \in 0 .. k
    BY ONLY <1>1
  <2> QED
    BY <1>1, <2>1, <2>2, SlashedType
<1>3. k = 0
  <2>1. ASSUME k # 0 PROVE FALSE
    <3>1. first \in Seq(Char) /\ others \in Seq(Char)
          /\ text = first \o others
      BY <1>1, <1>2, <2>1
    <3>2. Len(first) \in Nat \ {0} /\ first[1] \notin {" ", "/", "nul"}
      BY <1>1, <2>1, NameStart
    <3> HIDE DEF first, others, text
    <3>3. 1 \in 1 .. Len(first)
      <4>1. Len(first) \in Nat \ {0}
        BY <3>2
      <4> QED
        BY ONLY <4>1
    <3>4. (first \o others)[1] = first[1] /\ first \o others # <<>>
      <4>1. first \in Seq(Char) /\ others \in Seq(Char)
        BY <3>1
      <4>2. (first \o others)[1] = first[1]
        BY ONLY <4>1, <3>3
      <4>3. Len(first \o others) = Len(first) + Len(others)
            /\ Len(first) \in Nat /\ Len(others) \in Nat
        BY ONLY <4>1
      <4>4. first \o others # <<>>
        <5>1. Len(first \o others) # 0
          BY ONLY <4>3, <3>3
        <5> QED
          BY <5>1
      <4> QED
        BY <4>2, <4>4
    <3>5. text # <<>> /\ Head(text) = first[1]
      BY ONLY <3>1, <3>4
    <3> QED
      BY <3>2, <3>5 DEF IsEnd, text
  <2> QED
    BY <2>1
<1>4. Names = <<>>
  BY <1>1, <1>3
<1> QED
  BY <1>4 DEF IsFile

LEMMA BeginOpenSteps ==
  ASSUME FileInv, RefInv, Proper, BeginOpen
  PROVE  File!Next \/ UNCHANGED File!vars
<1> DEFINE text == WithoutLead(Typed[call.arg])
<1>1. /\ pc = "open" /\ fatFs /\ card' = card /\ got' = got
      /\ fatFs' = fatFs /\ failed' = failed
      /\ fs' = [fs EXCEPT !.flag = FALSE]
      /\ \/ (text = <<>> \/ IsEnd(Head(text))) /\ Return("NO_FILE")
         \/ GoTo("segment")
  BY DEF BeginOpen
<1>2. ~Usable'
  <2>1. fs \in FATFS
    BY DEF FileInv, TypeOK
  <2>2. fs'.flag = FALSE
    BY <1>1, <2>1 DEF FATFS
  <2> QED
    BY <2>2 DEF Usable
<1>3. call.op = "open"
  BY <1>1, WhileOpening
<1>4. CASE (text = <<>> \/ IsEnd(Head(text))) /\ Return("NO_FILE")
  <2>1. ~IsFile(disk, Names)
    BY <1>3, <1>4, EmptyPath
  <2> QED
    BY <1>1, <1>2, <1>4, <2>1, NotOpened
<1>5. CASE GoTo("segment")
  BY <1>1, <1>2, <1>5, SearchGoesOn
<1> QED
  BY <1>1, <1>4, <1>5

LEMMA FollowSegmentSteps ==
  ASSUME FileInv, RefInv, Proper, FollowSegment
  PROVE  File!Next \/ UNCHANGED File!vars
<1>1. /\ pc = "segment" /\ card' = card /\ got' = got /\ UNCHANGED handle
      /\ failed' = failed
      /\ \/ ~CanRewind(dj.sclust) /\ Return("DISK_ERR")
         \/ GoTo("find")
  BY DEF FollowSegment
<1>2. fatFs' = fatFs /\ ~Usable'
  BY <1>1, HandleKept
<1>3. CASE ~CanRewind(dj.sclust) /\ Return("DISK_ERR")
  <2>1. PICK n \in 0 .. Len(Names) - 1 : SegmentAt(n)
    BY <1>1 DEF RefInv, SearchInv
  <2>2. ~IsFile(disk, Names)
    BY <1>1, <1>3, <2>1, NoDirectory
  <2> QED
    BY <1>1, <1>2, <1>3, <2>2, NotOpened
<1>4. CASE GoTo("find")
  BY <1>1, <1>2, <1>4, SearchGoesOn
<1> QED
  BY <1>1, <1>3, <1>4

LEMMA NotFoundIs == NotFound \notin {"none", "OK"}
BY DEF NotFound

LEMMA EntryUnreadableSteps ==
  ASSUME FileInv, RefInv, EntryUnreadable
  PROVE  File!Next
<1>1. /\ pc = "find" /\ card' = card /\ got' = got /\ UNCHANGED handle
      /\ failed' = TRUE /\ Return("DISK_ERR")
  BY DEF EntryUnreadable, handle
<1>2. fatFs' = fatFs /\ ~Usable'
  BY <1>1, HandleKept
<1> QED
  BY <1>1, <1>2, NotOpened

LEMMA EndOfTableSteps ==
  ASSUME FileInv, RefInv, Proper, EndOfTable
  PROVE  File!Next
<1>1. /\ pc = "find" /\ card' = card /\ got' = got /\ UNCHANGED handle
      /\ failed' = failed /\ Return(NotFound)
  BY DEF EndOfTable, handle
<1>2. fatFs' = fatFs /\ ~Usable'
  BY <1>1, HandleKept
<1>3. PICK n \in 0 .. Len(Names) - 1 : FindAt(n)
  BY <1>1 DEF RefInv, SearchInv
<1>4. ~IsFile(disk, Names)
  BY <1>1, <1>3, SearchedAll
<1> QED
  BY <1>1, <1>2, <1>4, NotFoundIs, NotOpened

LEMMA NextEntrySteps ==
  ASSUME FileInv, RefInv, Proper, NextEntry
  PROVE  File!Next \/ UNCHANGED File!vars
<1>1. /\ pc = "find" /\ card' = card /\ got' = got /\ UNCHANGED handle
      /\ ~Matches
  BY DEF NextEntry, handle
<1>2. fatFs' = fatFs /\ ~Usable'
  BY <1>1, HandleKept
<1>3. PICK n \in 0 .. Len(Names) - 1 : FindAt(n)
  BY <1>1 DEF RefInv, SearchInv
<1>4. PICK next \in DirNext :
        /\ failed' = (failed \/ next.fails)
        /\ \/ next.res = "OK" /\ GoTo("find")
           \/ next.res = "NO_FILE" /\ Return(NotFound)
           \/ next.res = "DISK_ERR" /\ Return("DISK_ERR")
  BY <1>1 DEF NextEntry, Stay
<1>5. CASE next.res = "OK" /\ GoTo("find")
  <2>1. failed' = failed
    BY <1>5, FailsNot DEF GoTo, RefInv
  <2> QED
    BY <1>1, <1>2, <1>5, <2>1, SearchGoesOn
<1>6. ASSUME next.res # "OK", NEW res, Return(res), res \notin {"none", "OK"}
      PROVE  File!Next
  <2>1. next.fails \in BOOLEAN /\ failed \in BOOLEAN
    <3>1. IsDisk(disk) /\ Describes /\ dj \in DIR /\ failed \in BOOLEAN
      BY <1>1, SearchFacts DEF TypeOK
    <3> QED
      BY <3>1, DirNextType
  <2>2. failed' \in {failed, TRUE}
    BY <1>4, <2>1
  <2>3. failed' \/ ~IsFile(disk, Names)
    <3>1. CASE next.fails
      BY <1>4, <2>1, <3>1
    <3>2. CASE ~next.fails
      BY <1>1, <1>3, <1>6, <3>2, SearchedAll
    <3> QED
      BY <3>1, <3>2
  <2> QED
    BY <1>1, <1>2, <1>6, <2>2, <2>3, NotOpened
<1> QED
  BY <1>4, <1>5, <1>6, NotFoundIs

LEMMA FollowDirectorySteps ==
  ASSUME FileInv, RefInv, Proper, FollowDirectory
  PROVE  File!Next \/ UNCHANGED File!vars
<1>1. /\ pc = "find" /\ card' = card /\ got' = got /\ UNCHANGED handle
      /\ failed' = failed /\ Matches /\ ~dj.last
      /\ \/ GoTo("segment")
         \/ Seen.kind # "dir" /\ Return("NO_PATH")
  BY DEF FollowDirectory, handle
<1>2. fatFs' = fatFs /\ ~Usable'
  BY <1>1, HandleKept
<1>3. CASE GoTo("segment")
  BY <1>1, <1>2, <1>3, SearchGoesOn
<1>4. CASE Seen.kind # "dir" /\ Return("NO_PATH")
  <2>1. PICK n \in 0 .. Len(Names) - 1 : FindAt(n)
    BY <1>1 DEF RefInv, SearchInv
  <2>2. ~IsFile(disk, Names)
    BY <1>1, <1>4, <2>1, SearchedName
  <2> QED
    BY <1>1, <1>2, <1>4, <2>2, NotOpened
<1> QED
  BY <1>1, <1>3, <1>4

LEMMA OpenFoundSteps ==
  ASSUME FileInv, RefInv, Proper, OpenFound
  PROVE  File!Next
<1>1. /\ pc = "find" /\ card' = card /\ got' = got /\ failed' = failed
      /\ Matches /\ dj.last
      /\ \/ Seen.kind = "dir" /\ Return("NO_FILE") /\ UNCHANGED handle
         \/ /\ Seen.kind # "dir" /\ Return("OK") /\ fatFs' = fatFs
            /\ fs' = [fs EXCEPT !.org_clust = Seen.clust, !.fsize = Seen.size,
                                !.fptr = 0, !.flag = TRUE]
            /\ opened' = call.arg
  BY DEF OpenFound
<1>2. PICK n \in 0 .. Len(Names) - 1 : FindAt(n)
  BY <1>1 DEF RefInv, SearchInv
<1>3. CASE Seen.kind = "dir" /\ Return("NO_FILE") /\ UNCHANGED handle
  <2>1. fatFs' = fatFs /\ ~Usable'
    BY <1>1, <1>3, HandleKept
  <2>2. ~IsFile(disk, Names)
    BY <1>1, <1>2, <1>3, SearchedName
  <2> QED
    BY <1>1, <1>3, <2>1, <2>2, NotOpened
<1>4. CASE /\ Seen.kind # "dir" /\ Return("OK") /\ fatFs' = fatFs
           /\ fs' = [fs EXCEPT !.org_clust = Seen.clust, !.fsize = Seen.size,
                               !.fptr = 0, !.flag = TRUE]
           /\ opened' = call.arg
  <2>1. fs \in FATFS /\ fatFs = TRUE
    BY <1>1, SearchFacts
  <2>2. fs'.flag = TRUE /\ fs'.fptr = 0
    BY <1>4, <2>1 DEF FATFS
  <2>3. /\ pc' = "idle" /\ call' = Idle /\ Answer' = "OK" /\ Usable'
        /\ Mounted'
    BY <1>4, <2>1, <2>2 DEF Return, Answer, Usable, Mounted
  <2>4. OpenPath' = call.arg /\ At' = 0
    BY <1>4, <2>2, <2>3 DEF OpenPath, At
  <2>5. IsFile(disk, Names)
    <3>1. Seen.kind \in {"file", "dir"} /\ IsVolume(disk)
          /\ Resolved(disk, Names) = Seen /\ Names # <<>>
      BY <1>1, <1>2, SearchedName
    <3> QED
      BY <1>4, <3>1 DEF IsFile
  <2>6. /\ OpenPath = 0 /\ At = 0 /\ Mounted /\ call.op = "open"
        /\ call.arg \in DOMAIN Paths /\ card \in DOMAIN Disks /\ ~failed
    BY <1>1, <2>1, WhileOpening
  <2>7. Ended("open")
    BY <1>1, <2>3, <2>6 DEF Ended
  <2> QED
    BY <1>1, <2>3, <2>4, <2>5, <2>6, <2>7, FileOpens
<1> QED
  BY <1>1, <1>3, <1>4

-----------------------------------------------------------------------------
(* Reading and moving.                                                     *)

(* Part of a sequence that holds the same values is a prefix of that part  *)
(* of it.                                                                  *)
LEMMA PartIs ==
  ASSUME NEW S, NEW bytes \in Seq(S), NEW g \in Seq(S), NEW l, l = Len(g),
         NEW a \in Nat, NEW e \in Nat, a + l <= e, e <= Len(bytes),
         \A n \in 1 .. l : g[n] = bytes[a + n]
  PROVE  /\ IsPrefix(g, SubSeq(bytes, a + 1, e))
         /\ a + l = e => g = SubSeq(bytes, a + 1, e)
<1> DEFINE part == SubSeq(bytes, a + 1, e)
           head == SubSeq(part, 1, l)
<1>1. l \in Nat /\ Len(bytes) \in Nat
  OBVIOUS
<1>2. /\ part \in Seq(S) /\ Len(part) = e - a
      /\ \A i \in 1 .. e - a : part[i] = bytes[a + i]
  <2>1. a + 1 \in 1 .. Len(bytes) + 1 /\ e \in (a + 1) - 1 .. Len(bytes)
    BY <1>1
  <2>2. /\ part \in Seq(S)
        /\ Len(part) = IF a + 1 <= e THEN e - (a + 1) + 1 ELSE 0
        /\ \A i \in 1 .. e - (a + 1) + 1 : part[i] = bytes[(a + 1) + i - 1]
    BY <2>1, SubSeqProperties
  <2>3. Len(part) = e - a
    BY <1>1, <2>2
  <2>4. ASSUME NEW i \in 1 .. e - a PROVE part[i] = bytes[a + i]
    <3>1. i \in 1 .. e - (a + 1) + 1 /\ (a + 1) + i - 1 = a + i
      OBVIOUS
    <3> QED
      BY <2>2, <3>1
  <2> QED
    BY <2>2, <2>3, <2>4
<1> HIDE DEF part
<1>3. l <= Len(part) /\ \A i \in 1 .. l : part[i] = g[i]
  <2>1. l <= e - a
    BY <1>1
  <2>2. ASSUME NEW i \in 1 .. l PROVE part[i] = g[i]
    <3>1. i \in 1 .. e - a
      BY <1>1, <2>1
    <3> QED
      BY <1>2, <3>1
  <2> QED
    BY <1>2, <2>1, <2>2
<1>4. head = g
  <2>1. /\ head \in Seq(S) /\ Len(head) = l
        /\ \A i \in 1 .. l : head[i] = part[i]
    <3>1. 1 \in 1 .. Len(part) + 1 /\ l \in 1 - 1 .. Len(part)
      BY <1>1, <1>2, <1>3
    <3>2. /\ head \in Seq(S)
          /\ Len(head) = IF 1 <= l THEN l - 1 + 1 ELSE 0
          /\ \A i \in 1 .. l - 1 + 1 : head[i] = part[1 + i - 1]
      BY <1>2, <3>1, SubSeqProperties
    <3>3. Len(head) = l
      BY <1>1, <3>2
    <3>4. ASSUME NEW i \in 1 .. l PROVE head[i] = part[i]
      <4>1. i \in 1 .. l - 1 + 1 /\ 1 + i - 1 = i
        BY <1>1
      <4> QED
        BY <3>2, <4>1
    <3> QED
      BY <3>2, <3>3, <3>4
  <2> HIDE DEF head
  <2> QED
    BY <1>3, <2>1, SeqEqual
<1>5. SubSeq(g, 1, l) = g
  <2> DEFINE all == SubSeq(g, 1, l)
  <2>1. 1 \in 1 .. Len(g) + 1 /\ l \in 1 - 1 .. Len(g)
    BY <1>1
  <2>2. /\ all \in Seq(S)
        /\ Len(all) = IF 1 <= l THEN l - 1 + 1 ELSE 0
        /\ \A i \in 1 .. l - 1 + 1 : all[i] = g[1 + i - 1]
    BY <2>1, SubSeqProperties
  <2>3. Len(all) = l
    BY <1>1, <2>2
  <2>4. ASSUME NEW i \in 1 .. l PROVE all[i] = g[i]
    <3>1. i \in 1 .. l - 1 + 1 /\ 1 + i - 1 = i
      BY <1>1
    <3> QED
      BY <2>2, <3>1
  <2> HIDE DEF all
  <2>5. all = g
    BY <2>2, <2>3, <2>4, SeqEqual
  <2> QED
    BY <2>5 DEF all
<1>6. IsPrefix(g, part)
  BY <1>3, <1>4, <1>5 DEF IsPrefix
<1>7. a + l = e => g = part
  <2>1. a + l = e => Len(part) = l
    BY <1>1, <1>2
  <2> QED
    BY <1>2, <1>3, <2>1, SeqEqual
<1> QED
  BY <1>6, <1>7 DEF part

(* An open file, with the volume it is on.                                 *)
FileOpen ==
  /\ Usable /\ Mounted /\ OpenPath = opened
  /\ IsDisk(disk) /\ Describes /\ fs \in FATFS /\ fatFs = TRUE
  /\ fs.fptr \in Nat /\ fs.fsize \in Nat /\ fs.fptr <= fs.fsize
  /\ fs.org_clust \in Nat /\ fs.csize = Bpb(disk).csize
  /\ fs.csize \in Nat \ {0} /\ ClusterSize \in Nat \ {0}
  /\ call # Idle /\ call.arg \in Nat /\ ~failed /\ answer = "none"
  /\ btr \in Nat /\ ofs \in Nat /\ clst \in Nat

LEMMA FileIsOpen ==
  ASSUME FileInv, RefInv, pc \in {"read", "chunk", "seek", "follow"}, Usable
  PROVE  /\ FileOpen
         /\ pc \in {"read", "chunk"} => call.op = "read"
         /\ pc \in {"seek", "follow"} => call.op = "seek"
<1>1. TypeOK /\ card \in DOMAIN Disks /\ IsDisk(disk) /\ Describes
      /\ fs \in FATFS /\ fatFs = TRUE
  BY CardIsDisk DEF FileInv, TypeOK, MountInv, Usable
<1>2. /\ fs.fptr \in Nat /\ fs.fsize \in Nat /\ fs.org_clust \in Nat
  BY <1>1, FatFsTypes
<1>3. fs.fptr <= fs.fsize
  BY DEF FileInv, ExtentInv
<1>4. fs.csize \in Nat \ {0} /\ ClusterSize \in Nat \ {0}
  BY <1>1, ClusterSizeType
<1>5. fs.csize = Bpb(disk).csize
  BY <1>1 DEF Describes
<1>6. /\ call # Idle /\ ~failed /\ answer = "none"
      /\ pc \in {"read", "chunk"} => call.op = "read"
      /\ pc \in {"seek", "follow"} => call.op = "seek"
  BY DEF RefInv, CallInv, FileInv, ExtentInv
<1>7. call.arg \in Nat
  BY <1>1, <1>6, CallTypes DEF TypeOK
<1>8. Mounted /\ OpenPath = opened
  BY <1>1 DEF Mounted, OpenPath
<1>9. btr \in Nat /\ ofs \in Nat /\ clst \in Nat
  BY <1>1 DEF TypeOK
<1> QED
  BY <1>1, <1>2, <1>3, <1>4, <1>5, <1>6, <1>7, <1>8, <1>9 DEF FileOpen

(* The bytes there are, as far as the chain goes.                          *)
LEMMA BytesAre ==
  ASSUME FileOpen
  PROVE  /\ Len(BytesOf) \in 0 .. fs.fsize
         /\ \A n \in 1 .. Len(BytesOf) : BytesOf[n] = ByteOf(n)
         /\ BytesOf \in Seq({ByteOf(n) : n \in Nat})
         /\ \A n \in 1 .. fs.fsize :
              n <= Len(BytesOf) <=>
                IsCluster(disk, ClusterAt(disk, fs.org_clust,
                            ((n - 1) \div SectorSize) \div fs.csize))
<1> DEFINE bytes == FileBytes(disk, fs.org_clust, fs.fsize)
           b == Len(bytes)
<1>1. /\ b \in 0 .. fs.fsize
      /\ bytes = [n \in 1 .. b |->
                   <<SectorInChain(disk, fs.org_clust, (n - 1) \div SectorSize),
                     (n - 1) % SectorSize>>]
      /\ \A n \in 1 .. fs.fsize :
           n <= b <=> ChainHas(disk, fs.org_clust, (n - 1) \div SectorSize)
  BY FileBytesAre DEF FileOpen
<1> HIDE DEF b
<1>2. bytes = [n \in 1 .. b |-> ByteOf(n)]
  BY <1>1 DEF ByteOf
<1> HIDE DEF bytes
<1>3. \A n \in 1 .. b : bytes[n] = ByteOf(n)
  BY <1>2
<1>4. bytes \in Seq({ByteOf(n) : n \in Nat})
  <2> DEFINE T == {ByteOf(n) : n \in Nat}
  <2>1. b \in Nat
    BY <1>1
  <2>2. \A n \in 1 .. b : ByteOf(n) \in T
    BY <2>1
  <2> HIDE DEF T
  <2>3. bytes \in [1 .. b -> T]
    BY <1>2, <2>2
  <2>4. bytes \in Seq(T)
    BY <2>1, <2>3
  <2> QED
    BY <2>4 DEF T
<1>5. \A n \in 1 .. fs.fsize :
        n <= b <=> IsCluster(disk, ClusterAt(disk, fs.org_clust,
                            ((n - 1) \div SectorSize) \div fs.csize))
  BY <1>1 DEF ChainHas, FileOpen
<1> QED
  BY <1>1, <1>3, <1>4, <1>5 DEF BytesOf, bytes, b

(* The position is not behind them.                                        *)
LEMMA PositionInFile ==
  ASSUME FileOpen, AtPosition
  PROVE  fs.fptr <= Len(BytesOf)
<1> DEFINE b == Len(BytesOf)
<1>1. b \in Nat /\ fs.fptr \in Nat /\ fs.fptr <= fs.fsize /\ fs.fsize \in Nat
  BY BytesAre DEF FileOpen
<1>2. CASE fs.fptr = 0
  BY ONLY <1>1, <1>2
<1>3. CASE fs.fptr > 0
  <2>1. fs.fptr \in 1 .. fs.fsize
    BY ONLY <1>1, <1>3
  <2>2. IsCluster(disk, ClusterAt(disk, fs.org_clust,
                          ((fs.fptr - 1) \div SectorSize) \div fs.csize))
    BY <1>3 DEF AtPosition, LastSector
  <2> QED
    BY <2>1, <2>2, BytesAre
<1> QED
  BY <1>1, <1>2, <1>3

(* What has arrived is the beginning of what was asked for, and all of it  *)
(* when the position is where the read ends.                               *)
LEMMA Arrived ==
  ASSUME FileOpen, NEW g, NEW l, l = Len(g), l \in Nat,
         At \in Nat, EndOfRead \in Nat,
         g = [n \in 1 .. l |-> ByteOf(At + n)],
         At + l <= EndOfRead, At + l <= Len(BytesOf)
  PROVE  /\ IsPrefix(g, AskedBytes)
         /\ At + l = EndOfRead => g = AskedBytes
<1> DEFINE T == {ByteOf(n) : n \in Nat}
           b == Len(BytesOf)
           e == Least(EndOfRead, b)
<1>1. b \in Nat /\ BytesOf \in Seq(T)
      /\ \A n \in 1 .. b : BytesOf[n] = ByteOf(n)
  BY BytesAre DEF FileOpen
<1>2. e \in Nat /\ At + l <= e /\ e <= b
      /\ (At + l = EndOfRead => At + l = e)
  <2>1. e = IF EndOfRead < b THEN EndOfRead ELSE b
    BY DEF Least
  <2> HIDE DEF b, e
  <2>2. b \in Nat /\ At + l <= b
    BY <1>1 DEF b
  <2> QED
    BY ONLY <2>1, <2>2, l \in Nat, At \in Nat, EndOfRead \in Nat,
            At + l <= EndOfRead
<1>3. g \in Seq(T)
  <2>1. ASSUME NEW n \in 1 .. l PROVE ByteOf(At + n) \in T
    <3>1. At + n \in Nat
      BY ONLY At \in Nat, l \in Nat, n \in 1 .. l
    <3> QED
      BY <3>1
  <2> HIDE DEF T
  <2>2. g \in [1 .. l -> T]
    BY <2>1
  <2> QED
    BY <2>2
<1>4. \A n \in 1 .. l : g[n] = BytesOf[At + n]
  <2> SUFFICES ASSUME NEW n \in 1 .. l PROVE g[n] = BytesOf[At + n]
    OBVIOUS
  <2> HIDE DEF b, e
  <2>1. At + l <= b
    BY <1>1, <1>2
  <2>2. At + n \in 1 .. b
    <3>1. b \in Nat
      BY <1>1
    <3> QED
      BY ONLY <2>1, <3>1, At \in Nat, l \in Nat, n \in 1 .. l
  <2>3. BytesOf[At + n] = ByteOf(At + n)
    BY <1>1, <2>2
  <2> QED
    BY <2>3
<1>5. AskedBytes = SubSeq(BytesOf, At + 1, e)
  BY DEF AskedBytes
<1> HIDE DEF T, b, e
<1>6. e <= Len(BytesOf)
  BY <1>2 DEF b
<1>7. /\ IsPrefix(g, SubSeq(BytesOf, At + 1, e))
      /\ At + l = e => g = SubSeq(BytesOf, At + 1, e)
  <2>1. BytesOf \in Seq(T)
    BY <1>1
  <2>2. e \in Nat /\ At + l <= e
    BY <1>2
  <2> DEFINE all == BytesOf
             a == At
  <2>3. /\ all \in Seq(T) /\ a \in Nat /\ a + l <= e /\ e <= Len(all)
        /\ \A n \in 1 .. l : g[n] = all[a + n]
    BY <1>4, <1>6, <2>1, <2>2
  <2> HIDE DEF all, a
  <2>4. IsPrefix(g, SubSeq(all, a + 1, e))
    BY ONLY <1>3, <2>2, <2>3, PartIs, l = Len(g)
  <2>5. a + l = e => g = SubSeq(all, a + 1, e)
    BY ONLY <1>3, <2>2, <2>3, PartIs, l = Len(g)
  <2> QED
    BY <2>4, <2>5 DEF all, a
<1> QED
  BY <1>2, <1>5, <1>7

(* A call that needs an open file when none is.                            *)
LEMMA UnusableSteps ==
  ASSUME FileInv, RefInv, BeginReadUnusable \/ BeginSeekUnusable
  PROVE  File!Next
<1>1. /\ pc \in {"read", "seek"} /\ ~Usable /\ card' = card /\ got' = got
      /\ UNCHANGED handle /\ failed' = failed /\ Return(NotUsable)
  BY DEF BeginReadUnusable, BeginSeekUnusable, handle
<1>2. call.op = pc /\ call.op \in {"read", "seek"}
  BY <1>1 DEF FileInv, ExtentInv
<1>3. ~Usable' /\ fatFs' = fatFs
  BY <1>1 DEF Usable, handle
<1>4. NotUsable \notin {"none", "OK"}
  BY DEF NotUsable
<1>5. Answer' = "ERROR" /\ call' = Idle /\ pc' = "idle"
  BY <1>1, <1>4 DEF Return, Answer
<1>6. /\ OpenPath = 0 /\ OpenPath' = 0 /\ At = 0 /\ At' = 0
      /\ Mounted' <=> Mounted
  BY <1>1, <1>3, <1>5 DEF OpenPath, At, Mounted
<1>7. Ended(call.op)
  BY <1>1, <1>5 DEF Ended
<1> QED
  BY <1>1, <1>2, <1>5, <1>6, <1>7, FileNotOpen

LEMMA BeginReadSteps ==
  ASSUME FileInv, RefInv, BeginRead
  PROVE  UNCHANGED File!vars
<1>1. /\ pc = "read" /\ pc' = "chunk" /\ Usable /\ card' = card
      /\ fatFs' = fatFs /\ fs' = fs /\ opened' = opened /\ got' = got
      /\ failed' = failed /\ call' = call /\ answer' = answer
  BY DEF BeginRead, GoTo, handle
<1>2. got = <<>> /\ fs.fptr \in Nat
  BY <1>1, FileIsOpen DEF RefInv, CallInv, FileOpen
<1>3. Usable' = Usable
  BY <1>1 DEF Usable
<1>4. /\ Mounted' <=> Mounted
      /\ OpenPath' = OpenPath
  BY <1>1, <1>3 DEF OpenPath, Mounted
<1>5. At' = fs.fptr - Len(got) /\ At = fs.fptr
  BY <1>1, <1>3 DEF At
<1>6. At' = At
  BY <1>2, <1>5
<1> QED
  BY <1>1, <1>4, <1>6, FileStutters

(* While a read goes on.                                                   *)
Reading ==
  /\ FileOpen /\ AtPosition /\ call.op = "read"
  /\ Len(got) \in Nat /\ At \in Nat /\ At + Len(got) = fs.fptr
  /\ EndOfRead \in Nat /\ fs.fptr + btr = EndOfRead
  /\ EndOfRead <= fs.fsize
  /\ got = [n \in 1 .. Len(got) |-> ByteOf(At + n)]

LEMMA WhileReading ==
  ASSUME FileInv, PositionInv, RefInv, pc = "chunk"
  PROVE  Reading
<1> DEFINE at == fs.fptr - Len(got)
<1>1. Usable /\ fs.fptr + btr <= fs.fsize
  BY FileFacts
<1>2. FileOpen /\ call.op = "read" /\ AtPosition
  BY <1>1, FileIsOpen DEF PositionInv
<1>3. At = at
  BY <1>1 DEF At
<1>4. /\ at \in Nat /\ got = [n \in 1 .. Len(got) |-> ByteOf(at + n)]
  BY DEF RefInv, DataInv
<1>5. fs.fptr + btr = at + Least(call.arg, fs.fsize - at)
  <2>1. fs.fptr + btr = at + File!Least(call.arg, fs.fsize - at)
    BY DEF RefInv, DataInv
  <2> QED
    BY <2>1, LeastIs DEF Least
<1>6. fs.fptr + btr = EndOfRead
  BY <1>3, <1>5 DEF EndOfRead
<1>7. fs.fptr \in Nat /\ btr \in Nat
  BY <1>2 DEF FileOpen
<1>8. Len(got) \in Nat
  BY DEF FileInv, TypeOK
<1>9. at + Len(got) = fs.fptr
  BY ONLY <1>7, <1>8
<1>10. EndOfRead \in Nat
  <2>1. fs.fptr + btr \in Nat
    BY ONLY <1>7
  <2> QED
    BY <1>6, <2>1
<1>11. EndOfRead <= fs.fsize
  BY ONLY <1>1, <1>6
<1> QED
  BY <1>2, <1>3, <1>4, <1>6, <1>8, <1>9, <1>10, <1>11 DEF Reading

(* What has arrived before the position.                                   *)
LEMMA ArrivedSoFar ==
  ASSUME Reading
  PROVE  /\ IsPrefix(got, AskedBytes)
         /\ btr = 0 => got = AskedBytes
         /\ fs.fptr <= Len(BytesOf)
<1> DEFINE l == Len(got)
<1>1. /\ FileOpen /\ AtPosition
      /\ got = [n \in 1 .. l |-> ByteOf(At + n)]
  BY DEF Reading
<1>2. /\ l \in Nat /\ At \in Nat /\ At + l = fs.fptr
      /\ EndOfRead \in Nat /\ fs.fptr + btr = EndOfRead
      /\ fs.fptr \in Nat /\ btr \in Nat
  BY DEF Reading, FileOpen
<1>3. fs.fptr <= Len(BytesOf)
  BY <1>1, PositionInFile
<1>4. At + l <= EndOfRead
  BY ONLY <1>2
<1>5. At + l <= Len(BytesOf)
  BY ONLY <1>2, <1>3
<1>6. l = Len(got)
  OBVIOUS
<1> HIDE DEF l
<1>7. IsPrefix(got, AskedBytes)
  BY <1>1, <1>2, <1>4, <1>5, <1>6, Arrived
<1>8. At + l = EndOfRead => got = AskedBytes
  BY <1>1, <1>2, <1>4, <1>5, <1>6, Arrived
<1>9. btr = 0 => At + l = EndOfRead
  BY ONLY <1>2
<1> QED
  BY <1>3, <1>7, <1>8, <1>9

LEMMA ReadDoneSteps ==
  ASSUME FileInv, PositionInv, RefInv, ReadDone
  PROVE  File!Next
<1>1. /\ pc = "chunk" /\ btr = 0 /\ card' = card /\ got' = got
      /\ fatFs' = fatFs /\ fs' = fs /\ opened' = opened
      /\ failed' = failed /\ Return("OK")
  BY DEF ReadDone, handle
<1>2. Reading /\ FileOpen /\ Usable /\ ~failed
  BY <1>1, WhileReading DEF Reading, FileOpen
<1>3. call.op = "read" /\ Mounted /\ OpenPath = opened
  BY <1>2 DEF Reading, FileOpen
<1>4. EndOfRead = fs.fptr
  <2>1. fs.fptr + btr = EndOfRead /\ fs.fptr \in Nat
    BY <1>2 DEF Reading, FileOpen
  <2> QED
    BY ONLY <1>1, <2>1
<1>5. got = AskedBytes /\ EndOfRead <= Len(BytesOf)
  BY <1>1, <1>2, <1>4, ArrivedSoFar
<1>6. call' = Idle /\ pc' = "idle" /\ Answer' = "OK" /\ Usable'
  BY <1>1, <1>2 DEF Return, Answer, Usable
<1>7. /\ Mounted' /\ OpenPath' = OpenPath /\ At' = EndOfRead
  BY <1>1, <1>3, <1>4, <1>6, <1>2 DEF Mounted, OpenPath, At, Usable
<1>8. Ended("read")
  BY <1>1, <1>3, <1>6 DEF Ended
<1>9. OpenedInv
  BY DEF RefInv
<1> QED
  BY <1>1, <1>2, <1>3, <1>5, <1>6, <1>7, <1>8, <1>9, FileReads

(* A failure closes the file.                                              *)
LEMMA ClosesFile ==
  ASSUME FileOpen, NEW f, f \in FATFS, fs' = Closed(f), fatFs' = fatFs,
         NEW res, Return(res)
  PROVE  /\ OpenPath' = 0 /\ At' = 0 /\ (Mounted' <=> Mounted)
<1>1. fs'.flag = FALSE
  BY DEF Closed, FATFS
<1> QED
  BY <1>1 DEF FileOpen, Return, OpenPath, At, Mounted, Usable

(* A read that fails without a failed transfer is at the end of the chain. *)
LEMMA ChainTooShort ==
  ASSUME Reading, btr > 0, NEW next \in NextCluster, ~next.fails,
         \/ AtCluster /\ next.link <= 1
         \/ AtSector /\ Clust2Sect(next.link) = 0
  PROVE  ~(EndOfRead <= Len(BytesOf))
<1> DEFINE p == fs.fptr
           at == ClusterAt(disk, fs.org_clust,
                           (p \div SectorSize) \div fs.csize)
<1>1. FileOpen /\ AtPosition /\ IsDisk(disk) /\ Describes /\ fs \in FATFS
  BY DEF Reading, FileOpen
<1>2. next.link = at /\ next.link \in Nat
  BY <1>1, NextClusterIs, NextClusterType
<1>3. ~IsCluster(disk, at)
  <2>1. CASE next.link <= 1
    BY <1>2, <2>1 DEF IsCluster
  <2>2. CASE Clust2Sect(next.link) = 0
    BY <1>1, <1>2, <2>2, Clust2SectIs
  <2> QED
    BY <2>1, <2>2
<1>4. /\ p \in Nat /\ btr \in Nat /\ p + btr = EndOfRead
      /\ EndOfRead <= fs.fsize /\ fs.fsize \in Nat
  BY DEF Reading, FileOpen
<1>5. p + 1 \in 1 .. fs.fsize /\ (p + 1) - 1 = p /\ p + 1 <= EndOfRead
  BY ONLY <1>4, btr > 0
<1>6. Len(BytesOf) \in Nat /\ ~(p + 1 <= Len(BytesOf))
  <2>1. p + 1 <= Len(BytesOf) <=>
          IsCluster(disk, ClusterAt(disk, fs.org_clust,
                      (((p + 1) - 1) \div SectorSize) \div fs.csize))
    BY <1>1, <1>5, BytesAre
  <2>2. ~(p + 1 <= Len(BytesOf))
    BY <1>3, <1>5, <2>1
  <2>3. Len(BytesOf) \in 0 .. fs.fsize
    BY <1>1, BytesAre
  <2> QED
    BY <2>2, <2>3
<1> QED
  BY ONLY <1>4, <1>5, <1>6

(* A sequence is a prefix of what it becomes with more behind it.          *)
LEMMA PrefixOfConcat ==
  ASSUME NEW S, NEW s \in Seq(S), NEW t \in Seq(S)
  PROVE  IsPrefix(s, s \o t)
<1> DEFINE m == Len(s)
           n == Len(t)
           u == s \o t
           k == Len(u)
<1>1. /\ m \in Nat /\ n \in Nat /\ u \in Seq(S) /\ k = m + n
      /\ \A i \in 1 .. m : u[i] = s[i]
  BY ConcatIs
<1>2. k \in Nat /\ 0 + m <= k /\ 0 + k = k
  BY <1>1
<1>3. m = Len(s) /\ k = Len(u) /\ k <= Len(u)
  BY <1>2
<1> HIDE DEF m, u, k
<1>4. \A i \in 1 .. m : s[i] = u[0 + i]
  BY <1>1
<1>5. \A i \in 1 .. k : u[i] = u[0 + i]
  OBVIOUS
<1>6. IsPrefix(s, SubSeq(u, 0 + 1, k))
  BY ONLY <1>1, <1>2, <1>3, <1>4, s \in Seq(S), PartIs
<1>7. u = SubSeq(u, 0 + 1, k)
  BY ONLY <1>1, <1>2, <1>3, <1>5, PartIs
<1> QED
  BY <1>6, <1>7 DEF u

(* Bytes arrive.                                                           *)
LEMMA ChunkArrives ==
  ASSUME FileInv, PositionInv, RefInv, ReadChunk, pc' = "chunk"
  PROVE  File!Next
<1>1. pc = "chunk"
  BY DEF ReadChunk
<1>2. Reading /\ FileOpen
  BY <1>1, WhileReading DEF Reading
<1>3. /\ btr \in Nat \ {0} /\ Portion \in 1 .. btr
      /\ fs'.fptr = fs.fptr + Portion
      /\ fs'.org_clust = fs.org_clust /\ fs'.flag = fs.flag
      /\ card' = card /\ call' = call /\ answer' = answer
      /\ fatFs' = fatFs /\ opened' = opened /\ failed' = failed
  BY ChunkRead
<1>4. IsCluster(disk, ClusterAt(disk, fs.org_clust,
                        (fs.fptr \div SectorSize) \div fs.csize))
  BY ChunkRead
<1>5. PICK bytes : /\ got' = got \o bytes /\ bytes \in Seq(Nat \X Nat)
                   /\ Len(bytes) = Portion
  BY ChunkRead
<1>6. IsPrefix(got, got') /\ Len(got') = Len(got) + Portion
  <2> DEFINE S == Nat \X Nat
  <2>1. got \in Seq(S) /\ bytes \in Seq(S)
    BY <1>5 DEF FileInv, TypeOK
  <2> HIDE DEF S
  <2>2. IsPrefix(got, got \o bytes)
    BY ONLY <2>1, PrefixOfConcat
  <2>3. Len(got \o bytes) = Len(got) + Len(bytes)
    BY ONLY <2>1
  <2> QED
    BY <1>5, <2>2, <2>3
<1> DEFINE l == Len(got')
           p == fs.fptr
           P == Portion
           e == EndOfRead
           b == Len(BytesOf)
<1>7. /\ p \in Nat /\ btr \in Nat /\ P \in 1 .. btr /\ p + btr = e
      /\ e \in Nat /\ e <= fs.fsize /\ fs.fsize \in Nat
      /\ At \in Nat /\ Len(got) \in Nat /\ At + Len(got) = p
      /\ l = Len(got) + P
  BY <1>2, <1>3, <1>6 DEF Reading, FileOpen
<1> HIDE DEF l, p, P, e, b
<1>8. /\ l \in Nat /\ At + l = p + P /\ At + l <= e
      /\ p + P \in 1 .. fs.fsize
  BY ONLY <1>7
<1>9. At + l <= b
  <2>1. P \in Nat \ {0} /\ P <= SectorSize - (p % SectorSize)
    <3>1. fs.fptr \in Nat /\ btr \in Nat \ {0}
      BY <1>3, <1>7 DEF p
    <3>2. P <= SectorSize - (p % SectorSize)
      BY <3>1, PortionIs DEF P, p
    <3>3. P \in Nat \ {0}
      BY ONLY <1>7
    <3> QED
      BY <3>2, <3>3
  <2>2. ((p + P) - 1) \div SectorSize = p \div SectorSize
    BY <1>7, <2>1, InOneSector
  <2>3. p + P <= b <=>
          IsCluster(disk, ClusterAt(disk, fs.org_clust,
                      (((p + P) - 1) \div SectorSize) \div fs.csize))
    BY <1>2, <1>8, BytesAre DEF b
  <2>4. p + P <= b
    BY <1>4, <2>2, <2>3 DEF p
  <2> QED
    BY <1>8, <2>4
<1>10. got' = [n \in 1 .. l |-> ByteOf(At + n)]
  <2>1. DataInv'
    BY ChunkData DEF RefInv
  <2>2. (got = [n \in 1 .. Len(got) |-> ByteOf((fs.fptr - Len(got)) + n)])'
    BY <2>1 DEF DataInv
  <2>3. (fs.fptr - Len(got))' = At
    <3>1. fs'.fptr = p + P
      BY <1>3 DEF p, P
    <3> QED
      BY ONLY <1>7, <1>8, <3>1 DEF l
  <2>4. \A n : ByteOf((fs.fptr - Len(got)) + n)' = ByteOf(At + n)
    BY <1>3, <2>3 DEF ByteOf, disk
  <2> QED
    BY <2>2, <2>4 DEF l
<1>11. IsPrefix(got', AskedBytes)
  BY <1>2, <1>7, <1>8, <1>9, <1>10, Arrived DEF l, e, b
<1>12. Usable /\ Usable' /\ OpenPath = opened /\ Mounted
       /\ call.op = "read"
  BY <1>2, <1>3 DEF Usable, Reading, FileOpen
<1>13. OpenPath' = OpenPath /\ (Mounted' <=> Mounted)
  BY <1>1, <1>3, <1>12 DEF OpenPath, Mounted
<1>14. At' = At
  <2>1. At' = fs'.fptr - l
    BY <1>12 DEF At, l
  <2>2. fs'.fptr = p + P
    BY <1>3 DEF p, P
  <2> QED
    BY ONLY <1>7, <1>8, <2>1, <2>2
<1>15. OpenedInv
  BY DEF RefInv
<1> QED
  BY <1>3, <1>6, <1>11, <1>12, <1>13, <1>14, <1>15, FileDelivers

(* No bytes arrive.                                                        *)
LEMMA ReadFails ==
  ASSUME FileInv, PositionInv, RefInv, pc = "chunk",
         card' = card, got' = got, fatFs' = fatFs,
         NEW f \in FATFS, fs' = Closed(f), Return("DISK_ERR"),
         failed' \in {failed, TRUE},
         failed' \/ ~(EndOfRead <= Len(BytesOf))
  PROVE  File!Next
<1>1. Reading /\ FileOpen /\ Usable
  BY WhileReading DEF Reading, FileOpen
<1>2. OpenPath' = 0 /\ At' = 0 /\ (Mounted' <=> Mounted)
  BY <1>1, ClosesFile
<1>3. Answer' = "ERROR" /\ Ended("read")
  BY <1>1 DEF Return, Answer, Ended, Reading
<1>4. IsPrefix(got', AskedBytes)
  BY <1>1, ArrivedSoFar
<1>5. OpenPath = opened /\ OpenedInv
  BY <1>1 DEF FileOpen, RefInv
<1> QED
  BY <1>1, <1>2, <1>3, <1>4, <1>5, FileReads

LEMMA ReadChunkSteps ==
  ASSUME FileInv, PositionInv, RefInv, ReadChunk
  PROVE  File!Next
<1>1. /\ pc = "chunk" /\ btr > 0 /\ card' = card /\ fatFs' = fatFs
  BY DEF ReadChunk
<1>2. Reading /\ FileOpen /\ IsDisk(disk) /\ Describes /\ fs \in FATFS
      /\ ~failed
  BY <1>1, WhileReading DEF Reading, FileOpen
<1>3. PICK next \in NextCluster :
       LET noLink == AtCluster /\ next.link <= 1
           noSector == AtSector /\ Clust2Sect(next.link) = 0
           f == InCluster(fs, next.link)
           g == InSector(f)
       IN  \/ /\ noLink \/ noSector
              /\ fs' = Closed(IF noLink THEN fs ELSE f)
              /\ failed' = (failed \/ next.fails)
              /\ Return("DISK_ERR")
              /\ UNCHANGED got
           \/ /\ fs' = Closed(g)
              /\ failed' = TRUE
              /\ Return("DISK_ERR")
              /\ UNCHANGED got
           \/ Stay
  BY DEF ReadChunk
<1> DEFINE noLink == AtCluster /\ next.link <= 1
           noSector == AtSector /\ Clust2Sect(next.link) = 0
           f == InCluster(fs, next.link)
           g == InSector(f)
<1>4. next.link \in Nat /\ next.fails \in BOOLEAN
  BY <1>2, NextClusterType
<1>5. f \in FATFS /\ g \in FATFS
  BY <1>2, <1>4, InSectorType
<1> HIDE DEF f, g
<1>6. CASE /\ noLink \/ noSector
           /\ fs' = Closed(IF noLink THEN fs ELSE f)
           /\ failed' = (failed \/ next.fails)
           /\ Return("DISK_ERR")
           /\ UNCHANGED got
  <2> DEFINE h == IF noLink THEN fs ELSE f
  <2>1. h \in FATFS
    BY <1>2, <1>5
  <2>2. fs' = Closed(h)
    BY <1>6
  <2>3. failed \in BOOLEAN
    BY DEF FileInv, TypeOK
  <2>4. failed' \in {failed, TRUE}
    BY <1>4, <1>6, <2>3
  <2>5. failed' \/ ~(EndOfRead <= Len(BytesOf))
    <3>1. CASE next.fails
      BY <1>6, <3>1
    <3>2. CASE ~next.fails
      BY <1>1, <1>2, <1>6, <3>2, ChainTooShort
    <3> QED
      BY <3>1, <3>2
  <2> HIDE DEF h
  <2> QED
    BY <1>1, <1>6, <2>1, <2>2, <2>4, <2>5, ReadFails
<1>7. CASE /\ fs' = Closed(g)
           /\ failed' = TRUE
           /\ Return("DISK_ERR")
           /\ UNCHANGED got
  BY <1>1, <1>5, <1>7, ReadFails
<1>8. CASE Stay
  <2>1. pc' = "chunk"
    BY <1>1, <1>8 DEF Stay, GoTo
  <2> QED
    BY <2>1, ChunkArrives
<1> QED
  BY <1>3, <1>6, <1>7, <1>8 DEF f, g

(* The position after a seek.                                              *)
LEMMA SeekToStartSteps ==
  ASSUME FileInv, RefInv, SeekToStart
  PROVE  File!Next
<1>1. /\ pc = "seek" /\ Usable /\ Target = 0 /\ card' = card /\ got' = got
      /\ fatFs' = fatFs /\ fs' = [fs EXCEPT !.fptr = 0] /\ opened' = opened
      /\ failed' = failed /\ Return("OK")
  BY DEF SeekToStart
<1>2. FileOpen /\ call.op = "seek" /\ OpenedInv
  BY <1>1, FileIsOpen DEF RefInv
<1>3. /\ fs \in FATFS /\ fs.flag = TRUE /\ Mounted /\ OpenPath = opened
      /\ ~failed /\ call.arg \in Nat /\ fs.fsize \in Nat
  BY <1>2, FatFsTypes DEF FileOpen, Usable
<1>4. fs'.fptr = 0 /\ fs'.flag = TRUE
  BY <1>1, <1>3 DEF FATFS
<1>5. /\ pc' = "idle" /\ call' = Idle /\ Answer' = "OK" /\ Usable'
  BY <1>1, <1>4 DEF Return, Answer, Usable
<1>6. At' = 0 /\ OpenPath' = OpenPath /\ Mounted'
  BY <1>1, <1>3, <1>4, <1>5 DEF At, OpenPath, Mounted, Usable
<1>7. Target <= Len(BytesOf)
  <2>1. Len(BytesOf) \in 0 .. fs.fsize
    BY <1>2, BytesAre
  <2> QED
    BY ONLY <1>1, <1>3, <2>1
<1>8. Ended("seek")
  BY <1>1, <1>2, <1>5 DEF Ended
<1> QED
  BY <1>1, <1>2, <1>3, <1>5, <1>6, <1>7, <1>8, FileSeeks

LEMMA SearchSteps ==
  ASSUME FileInv, RefInv, SeekForward \/ SeekFromStart
  PROVE  UNCHANGED File!vars
<1>1. PICK start, cluster : Search(start, cluster)
  BY DEF SeekForward, SeekFromStart
<1>2. pc = "seek" /\ Usable
  BY DEF SeekForward, SeekFromStart
<1>3. /\ fs' = [fs EXCEPT !.fptr = start, !.curr_clust = cluster]
      /\ ifptr' = fs.fptr /\ pc' = "follow" /\ call' = call
      /\ answer' = answer /\ card' = card /\ fatFs' = fatFs
      /\ opened' = opened /\ got' = got /\ failed' = failed
  BY <1>1 DEF Search, GoTo
<1>4. fs \in FATFS
  BY DEF FileInv, TypeOK
<1>5. fs'.flag = fs.flag
  BY <1>3, <1>4 DEF FATFS
<1>6. Usable' = Usable
  BY <1>3, <1>5 DEF Usable
<1>7. OpenPath' = OpenPath /\ (Mounted' <=> Mounted) /\ At' = At
  BY <1>2, <1>3, <1>6 DEF OpenPath, Mounted, At
<1> QED
  BY <1>3, <1>7, FileStutters

(* A seek that ends without success.                                       *)
LEMMA SeekFails ==
  ASSUME FileInv, RefInv, pc = "follow", FileOpen, call.op = "seek",
         card' = card, got' = got, fatFs' = fatFs,
         NEW f \in FATFS, fs' = Closed(f), Return("DISK_ERR"),
         failed' \in {failed, TRUE},
         failed' \/ ~(Target <= Len(BytesOf))
  PROVE  File!Next
<1>1. OpenPath' = 0 /\ At' = 0 /\ (Mounted' <=> Mounted)
  BY ClosesFile
<1>2. Answer' = "ERROR" /\ Ended("seek")
  BY DEF Return, Answer, Ended
<1>3. /\ OpenPath = opened /\ OpenedInv /\ Usable
      /\ call.arg \in Nat /\ fs.fsize \in Nat
  BY DEF FileOpen, RefInv
<1> QED
  BY <1>1, <1>2, <1>3, FileSeeks

(* The end of the file's bytes, counted in clusters.                       *)
LEMMA TargetHas ==
  ASSUME FileOpen, Target \in 1 .. fs.fsize
  PROVE  /\ (Target - 1) \div ClusterSize \in Nat
         /\ Target <= Len(BytesOf) <=>
              IsCluster(disk, ClusterAt(disk, fs.org_clust,
                                        (Target - 1) \div ClusterSize))
<1> DEFINE a == Target - 1
<1>1. fs.fsize \in Nat /\ fs.csize \in Nat \ {0}
      /\ ClusterSize = fs.csize * SectorSize
      /\ SectorSize \in Nat \ {0} /\ ClusterSize \in Nat \ {0}
  BY VolumeAssumption DEF FileOpen, ClusterSize
<1>2. a \in Nat
  BY <1>1
<1>3. Target <= Len(BytesOf) <=>
        IsCluster(disk, ClusterAt(disk, fs.org_clust,
                                  (a \div SectorSize) \div fs.csize))
  BY BytesAre
<1> HIDE DEF a
<1>4. (a \div SectorSize) \div fs.csize = a \div (fs.csize * SectorSize)
  BY <1>1, <1>2, DivDiv
<1>5. a \div ClusterSize \in Nat
  BY <1>1, <1>2, DivideBy
<1> QED
  BY <1>1, <1>3, <1>4, <1>5 DEF a

(* While a chain is followed.                                              *)
Following ==
  /\ FileOpen /\ call.op = "seek" /\ fs.fptr + ofs = Target /\ ofs > 0
  /\ Target \in 1 .. fs.fsize
  /\ fs.fptr % ClusterSize = 0
  /\ clst = ClusterAt(disk, fs.org_clust, fs.fptr \div ClusterSize)

LEMMA WhileFollowing ==
  ASSUME FileInv, PositionInv, RefInv, pc = "follow"
  PROVE  Following
<1>1. Usable /\ ofs > 0 /\ fs.fptr + ofs <= fs.fsize
  BY FileFacts
<1>2. FileOpen /\ call.op = "seek"
  BY <1>1, FileIsOpen
<1>3. fs.fptr + ofs = Target
  BY DEF RefInv, DataInv
<1>4. fs.fptr \in Nat /\ ofs \in Nat /\ fs.fsize \in Nat
  BY <1>2 DEF FileOpen
<1>5. Target \in 1 .. fs.fsize
  <2>1. fs.fptr + ofs \in 1 .. fs.fsize
    BY ONLY <1>1, <1>4
  <2> QED
    BY <1>3, <2>1
<1> QED
  BY <1>1, <1>2, <1>3, <1>5 DEF Following, PositionInv

(* A chain that ends before the target.                                    *)
LEMMA ChainEnds ==
  ASSUME Following, ofs > ClusterSize, NEW next \in GetFat(clst),
         ~next.fails, next.link <= 1 \/ next.link >= fs.max_clust
  PROVE  ~(Target <= Len(BytesOf))
<1> DEFINE C == ClusterSize
           k == fs.fptr \div C
           j == (Target - 1) \div C
           org == fs.org_clust
<1>1. /\ FileOpen /\ IsDisk(disk) /\ Describes /\ clst \in Nat
      /\ C \in Nat \ {0} /\ fs.fptr \in Nat /\ ofs \in Nat /\ org \in Nat
  BY DEF Following, FileOpen
<1>2. k \in Nat /\ fs.fptr = k * C + (fs.fptr % C)
  BY <1>1, DivideBy
<1>3. fs.fptr = k * C /\ clst = ClusterAt(disk, org, k)
  BY <1>1, <1>2 DEF Following
<1>4. ~IsCluster(disk, ClusterAt(disk, org, k + 1))
  <2>1. next.link = (IF IsCluster(disk, clst) THEN Entry(disk, clst) ELSE 1)
    BY <1>1, GetFatIs
  <2>2. ~IsCluster(disk, next.link)
    <3>1. next.link \in Nat
      BY <1>1, GetFatIs
    <3>2. fs.max_clust = Clusters(Bpb(disk)) + 2
      BY <1>1 DEF Describes
    <3>3. ~(2 <= next.link) \/ ~(next.link < Clusters(Bpb(disk)) + 2)
      <4>1. CASE next.link <= 1
        BY ONLY <3>1, <4>1
      <4>2. CASE next.link >= fs.max_clust
        <5>1. fs.max_clust \in Nat
          BY <1>1, FatFsTypes DEF FileOpen
        <5> QED
          BY ONLY <3>1, <3>2, <4>2, <5>1
      <4> QED
        BY <4>1, <4>2
    <3> QED
      BY <3>3 DEF IsCluster
  <2>3. ~IsCluster(disk, 0)
    BY DEF IsCluster
  <2>4. ClusterAt(disk, org, k + 1) = NextInChain(disk, clst)
    BY <1>1, <1>2, <1>3, ClusterAtNext
  <2> QED
    BY <2>1, <2>2, <2>3, <2>4 DEF NextInChain
<1>5. j \in Nat /\ k + 1 <= j
  <2>1. fs.fptr + ofs = Target /\ ofs > C
    BY DEF Following
  <2> DEFINE t == Target - 1
             a == fs.fptr
  <2> HIDE DEF C
  <2>2. t \in Nat /\ a + C <= t /\ a + C \in Nat
    BY ONLY <1>1, <2>1
  <2>3. (k + 1) * C = a + C
    <3> HIDE DEF k
    <3>1. (k + 1) * C = k * C + C
      BY <1>1, <1>2
    <3> QED
      BY <1>3, <3>1
  <2> HIDE DEF k, t, a
  <2>4. (a + C) \div C = k + 1
    <3>1. k + 1 \in Int /\ 0 \in 0 .. C - 1
      BY <1>1, <1>2
    <3>2. ((k + 1) * C + 0) \div C = k + 1
      BY <1>1, <3>1, DivUnique
    <3>3. a + C = (k + 1) * C + 0
      BY ONLY <2>2, <2>3
    <3> QED
      BY <3>2, <3>3
  <2>5. (a + C) \div C <= t \div C
    BY <1>1, <2>2, DivMonotone
  <2>6. t \div C \in Nat
    BY <1>1, <2>2, DivideBy
  <2> QED
    BY <2>4, <2>5, <2>6 DEF t
<1> HIDE DEF C, k, j, org
<1>6. ~IsCluster(disk, ClusterAt(disk, org, j))
  <2>1. k + 1 \in 0 .. j
    BY ONLY <1>2, <1>5
  <2> QED
    BY <1>1, <1>4, <1>5, <2>1, ChainBefore
<1>7. Target \in 1 .. fs.fsize
  BY DEF Following
<1> QED
  BY <1>1, <1>6, <1>7, TargetHas DEF C, j, org

LEMMA FollowChainSteps ==
  ASSUME FileInv, PositionInv, RefInv, FollowChain
  PROVE  File!Next \/ UNCHANGED File!vars
<1>1. /\ pc = "follow" /\ ofs > ClusterSize /\ card' = card /\ got' = got
      /\ fatFs' = fatFs /\ opened' = opened
  BY DEF FollowChain
<1>2. /\ Following /\ FileOpen /\ IsDisk(disk) /\ Describes /\ fs \in FATFS
      /\ clst \in Nat /\ call.op = "seek" /\ ~failed /\ Usable
  BY <1>1, WhileFollowing DEF Following, FileOpen
<1>3. PICK next \in GetFat(clst) :
        /\ failed' = (failed \/ next.fails)
        /\ \/ /\ next.link <= 1 \/ next.link >= fs.max_clust
              /\ fs' = Closed(fs)
              /\ Return("DISK_ERR")
           \/ /\ 1 < next.link
              /\ fs' = [fs EXCEPT !.curr_clust = next.link,
                                  !.fptr = @ + ClusterSize]
              /\ Stay /\ ifptr' = ifptr
  BY DEF FollowChain
<1>4. /\ next.link \in Nat /\ next.fails \in BOOLEAN /\ failed \in BOOLEAN
      /\ next.link > 1 => ~next.fails
  BY <1>2, GetFatIs DEF FileInv, TypeOK
<1>5. CASE /\ next.link <= 1 \/ next.link >= fs.max_clust
           /\ fs' = Closed(fs)
           /\ Return("DISK_ERR")
  <2>1. failed' \in {failed, TRUE}
    BY <1>3, <1>4
  <2>2. failed' \/ ~(Target <= Len(BytesOf))
    <3>1. CASE next.fails
      BY <1>3, <3>1
    <3>2. CASE ~next.fails
      BY <1>1, <1>2, <1>5, <3>2, ChainEnds
    <3> QED
      BY <3>1, <3>2
  <2> QED
    BY <1>1, <1>2, <1>5, <2>1, <2>2, SeekFails
<1>6. CASE /\ 1 < next.link
           /\ fs' = [fs EXCEPT !.curr_clust = next.link,
                               !.fptr = @ + ClusterSize]
           /\ Stay /\ ifptr' = ifptr
  <2>1. ~next.fails
    BY <1>4, <1>6
  <2>2. failed' = failed
    BY <1>3, <1>4, <2>1
  <2>3. fs'.flag = fs.flag
    BY <1>2, <1>6 DEF FATFS
  <2>4. Usable' = Usable /\ pc' = "follow" /\ call' = call
        /\ answer' = answer
    BY <1>1, <1>6, <2>3 DEF Usable, Stay, GoTo
  <2>5. OpenPath' = OpenPath /\ (Mounted' <=> Mounted) /\ At' = At
    BY <1>1, <1>6, <2>4 DEF OpenPath, Mounted, At
  <2> QED
    BY <1>1, <2>2, <2>4, <2>5, FileStutters
<1> QED
  BY <1>3, <1>5, <1>6

(* Whether the cluster of the target has been reached.                     *)
LEMMA TargetReached ==
  ASSUME Following, ofs <= ClusterSize
  PROVE  Target <= Len(BytesOf) <=> IsCluster(disk, clst)
<1> DEFINE C == ClusterSize
           p == fs.fptr
<1>1. /\ FileOpen /\ C \in Nat \ {0} /\ p \in Nat /\ ofs \in Nat \ {0}
      /\ fs.csize \in Nat \ {0} /\ SectorSize \in Nat \ {0}
      /\ C = fs.csize * SectorSize /\ p % C = 0 /\ ofs <= C
      /\ p + ofs = Target /\ Target \in 1 .. fs.fsize
      /\ clst = ClusterAt(disk, fs.org_clust, p \div C)
  <2>1. FileOpen /\ C \in Nat \ {0} /\ p \in Nat /\ ofs \in Nat
        /\ fs.csize \in Nat \ {0}
    BY DEF Following, FileOpen
  <2>2. ofs > 0
    BY DEF Following
  <2>3. ofs \in Nat \ {0}
    BY ONLY <2>1, <2>2
  <2> QED
    BY <2>1, <2>3, VolumeAssumption DEF Following, ClusterSize
<1>2. EndsAt(SectorSize, fs.csize, C, p, ofs)
  <2> HIDE DEF C, p
  <2> QED
    BY <1>1, TargetPlace
<1> DEFINE t == p + ofs
<1>3. ((t - 1) \div SectorSize) \div fs.csize = p \div C
  <2>1. ((p + (ofs - 1)) \div SectorSize) \div fs.csize = p \div C
    BY <1>2 DEF EndsAt
  <2>2. p + (ofs - 1) = t - 1
    <3>1. p \in Nat /\ ofs \in Nat
      BY <1>1
    <3> QED
      BY ONLY <3>1
  <2> HIDE DEF t, p
  <2> QED
    BY ONLY <2>1, <2>2, Zenon
<1>4. t \in 1 .. fs.fsize /\ t = Target
      /\ clst = ClusterAt(disk, fs.org_clust, p \div C)
  BY <1>1
<1> HIDE DEF t, p
<1>5. t <= Len(BytesOf) <=>
        IsCluster(disk, ClusterAt(disk, fs.org_clust,
                    ((t - 1) \div SectorSize) \div fs.csize))
  BY <1>1, <1>4, BytesAre
<1> QED
  BY ONLY <1>3, <1>4, <1>5

LEMMA SeekDoneSteps ==
  ASSUME FileInv, PositionInv, RefInv, SeekDone
  PROVE  File!Next
<1> DEFINE f == [fs EXCEPT !.fptr = @ + ofs]
           n == ofs \div SectorSize
           s == Clust2Sect(clst)
<1>1. /\ pc = "follow" /\ ofs <= ClusterSize /\ card' = card /\ got' = got
      /\ fatFs' = fatFs /\ opened' = opened /\ failed' = failed
      /\ \/ s = 0 /\ fs' = Closed(f) /\ Return("DISK_ERR")
         \/ /\ s # 0
            /\ fs' = IF ofs % SectorSize = 0 THEN [f EXCEPT !.csect = n]
                     ELSE [f EXCEPT !.csect = n + 1, !.dsect = s + n]
            /\ Return("OK")
  BY DEF SeekDone
<1>2. /\ Following /\ FileOpen /\ IsDisk(disk) /\ Describes /\ fs \in FATFS
      /\ clst \in Nat /\ call.op = "seek" /\ ~failed /\ Usable
      /\ fs.fptr \in Nat /\ ofs \in Nat
  BY <1>1, WhileFollowing DEF Following, FileOpen
<1>3. f \in FATFS /\ f.fptr = fs.fptr + ofs /\ f.flag = fs.flag
  BY <1>2 DEF FATFS
<1>4. s # 0 <=> Target <= Len(BytesOf)
  BY <1>1, <1>2, Clust2SectIs, TargetReached
<1> HIDE DEF f, n, s
<1>5. CASE s = 0 /\ fs' = Closed(f) /\ Return("DISK_ERR")
  BY <1>1, <1>2, <1>3, <1>4, <1>5, SeekFails
<1>6. CASE /\ s # 0
           /\ fs' = IF ofs % SectorSize = 0 THEN [f EXCEPT !.csect = n]
                    ELSE [f EXCEPT !.csect = n + 1, !.dsect = s + n]
           /\ Return("OK")
  <2>1. fs'.fptr = f.fptr /\ fs'.flag = f.flag
    BY <1>3, <1>6 DEF FATFS
  <2>2. fs'.fptr = Target /\ fs'.flag = fs.flag
    BY <1>2, <1>3, <2>1 DEF Following
  <2>3. /\ pc' = "idle" /\ call' = Idle /\ Answer' = "OK" /\ Usable'
    BY <1>1, <1>2, <1>6, <2>2 DEF Return, Answer, Usable
  <2>4. /\ Mounted /\ OpenPath = opened /\ call.arg \in Nat
        /\ fs.fsize \in Nat /\ OpenedInv
    BY <1>2 DEF FileOpen, RefInv
  <2>5. At' = Target /\ OpenPath' = OpenPath /\ Mounted'
    BY <1>1, <1>2, <2>2, <2>3, <2>4 DEF At, OpenPath, Mounted, Usable
  <2>6. Ended("seek")
    BY <1>1, <1>2, <2>3 DEF Ended
  <2> QED
    BY <1>1, <1>2, <1>4, <1>6, <2>3, <2>4, <2>5, <2>6, FileSeeks
<1> QED
  BY <1>1, <1>5, <1>6

-----------------------------------------------------------------------------
(* Every step maps to a step of ByteFile or to none.                       *)
LEMMA MountImplements ==
  ASSUME FileInv, RefInv, MountStep \/ Unmount
  PROVE  File!Next \/ UNCHANGED File!vars
BY DriveNotReadySteps, CheckFirstSectorSteps, ReadTableSteps, ReadBpbSteps,
   UnmountSteps DEF MountStep

LEMMA OpenImplements ==
  ASSUME FileInv, RefInv, Proper, OpenStep
  PROVE  File!Next \/ UNCHANGED File!vars
BY BeginOpenUnmountedSteps, BeginOpenSteps, FollowSegmentSteps,
   EntryUnreadableSteps, EndOfTableSteps, NextEntrySteps,
   FollowDirectorySteps, OpenFoundSteps DEF OpenStep

LEMMA ReadImplements ==
  ASSUME FileInv, PositionInv, RefInv, ReadStep
  PROVE  File!Next \/ UNCHANGED File!vars
BY UnusableSteps, BeginReadSteps, ReadChunkSteps, ReadDoneSteps DEF ReadStep

LEMMA SeekImplements ==
  ASSUME FileInv, PositionInv, RefInv, SeekStep
  PROVE  File!Next \/ UNCHANGED File!vars
BY UnusableSteps, SeekToStartSteps, SearchSteps, FollowChainSteps,
   SeekDoneSteps DEF SeekStep

LEMMA NoStep ==
  ASSUME UNCHANGED vars
  PROVE  UNCHANGED File!vars
<1>1. /\ card' = card /\ fatFs' = fatFs /\ fs' = fs /\ opened' = opened
      /\ pc' = pc /\ call' = call /\ failed' = failed /\ answer' = answer
      /\ got' = got /\ ifptr' = ifptr
  BY DEF vars, handle, locals, seekVars
<1>2. /\ Mounted' <=> Mounted
      /\ OpenPath' = OpenPath /\ At' = At
  BY <1>1 DEF Mounted, OpenPath, At, Usable
<1> QED
  BY <1>1, <1>2, FileStutters

LEMMA StepImplements ==
  ASSUME FileInv, PositionInv, RefInv, Proper, [Next]_vars
  PROVE  [File!Next]_(File!vars)
<1>1. CASE UNCHANGED vars
  BY <1>1, NoStep
<1>2. CASE \E c \in Calls : Call(c)
  BY <1>2, CallSteps
<1>3. CASE Step
  BY <1>3, MountImplements, OpenImplements, ReadImplements, SeekImplements
     DEF Step
<1> QED
  BY <1>1, <1>2, <1>3 DEF Next

LEMMA InitImplements == Init => File!Init
<1> SUFFICES ASSUME Init PROVE File!Init
  OBVIOUS
<1>1. /\ ~Mounted /\ OpenPath = 0 /\ At = 0 /\ Answer = "none"
      /\ call = Idle /\ failed = FALSE /\ got = <<>>
  BY DEF Init, Mounted, OpenPath, At, Answer, Usable
<1> QED
  BY <1>1 DEF File!Init, File!NoPath, File!Idle, Idle,
              Mounted, OpenPath, At, Answer

(* On every disk, with whatever sizes of sectors, clusters, tables and     *)
(* names, and for every sequence of calls, in which any transfer may fail: *)
(* what pff.c does is what ByteFile promises.                              *)
THEOREM ByteFileImplemented ==
  ASSUME Proper, NoMisleadingCard
  PROVE  Spec => ImplementsFile
<1>1. FileInv /\ PositionInv /\ RefInv /\ [Next]_vars => RefInv'
  BY RefNext
<1>2. FileInv /\ PositionInv /\ RefInv /\ [Next]_vars
        => [File!Next]_(File!vars)
  BY StepImplements
<1> QED
  BY <1>1, <1>2, InitImplements, RefInit, PositionHolds, PTL
     DEF Spec, ImplementsFile, File!Spec
=============================================================================
