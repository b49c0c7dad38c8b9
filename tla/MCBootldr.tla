------------------------------ MODULE MCBootldr ------------------------------
(***************************************************************************)
(* Small instances of Bootldr: 24 bytes of memory in pages of 8 and blocks *)
(* of 4, the bootloader in the first page, the user area from 8 to 21, two *)
(* configuration bytes at the end of the last page (as on the device), and *)
(* 16 addresses to an extended linear address, so that the user area lies  *)
(* across two of them, as it does on the device.                           *)
(***************************************************************************)
EXTENDS Bootldr, SequencesExt

MCBits == {0, 1}

(* Bytes that depend on the address with a period prime to the block size. *)
ByteFor(a) == IF a % 3 = 0 THEN {0} ELSE IF a % 3 = 1 THEN {} ELSE {1}

Line(t, off, hi, data) == [type |-> t, off |-> off, hi |-> hi, data |-> data]

EofLine == Line("EOF", 0, 0, <<>>)
ElaLine(h) == Line("ELA", 0, h, <<>>)
JunkLine == Line("JUNK", 0, 0, <<>>)
OtherLine == Line("OTHER", 0, 0, <<{0}, {1}>>)
DataLine(a, n) ==
  Line("DATA", a % 16, 0, [i \in 1 .. n |-> ByteFor(a + i - 1)])

(* The file for a sequence of <<address, length>>, with an extended linear *)
(* address record wherever the upper part of the address changes.          *)
UpperPart(layout, i) == IF i = 0 THEN 0 ELSE layout[i][1] \div 16

LinesFor(layout, i) ==
  IF UpperPart(layout, i) = UpperPart(layout, i - 1)
    THEN <<DataLine(layout[i][1], layout[i][2])>>
    ELSE <<ElaLine(UpperPart(layout, i)), DataLine(layout[i][1], layout[i][2])>>

Body(layout) ==
  FlattenSeq([i \in 1 .. Len(layout) |-> LinesFor(layout, i)])

FileOf(layout) == Append(Body(layout), EofLine)

Pieces == {<<a, n>> : a \in 6 .. 24, n \in {1, 3}}

Above(p, q) == q[1] >= p[1] + p[2]

(* All pairs of records, in either order; and all ascending triples whose  *)
(* first record begins in the first page and whose last in the last block. *)
Pairs == {FileOf(<<p, q>>) : p, q \in Pieces}

Triples ==
  {FileOf(<<p, q, r>>) : <<p, q, r>> \in
     {t \in {p \in Pieces : p[1] \in 6 .. 9} \X Pieces
              \X {r \in Pieces : r[1] \in 19 .. 22} :
        Above(t[1], t[2]) /\ Above(t[2], t[3])}}

(* What a file may contain beside records in order; the last of each set   *)
(* gives two values to one address, or has addresses beyond 24 bits.       *)
ThreeRecords == Body(<<<<9, 2>>, <<11, 3>>, <<18, 3>>>>)

WithLine(line, i) ==
  SubSeq(ThreeRecords, 1, i) \o <<line>>
    \o SubSeq(ThreeRecords, i + 1, Len(ThreeRecords))

OddFiles ==
  {<<>>,
   FileOf(<<<<3, 2>>, <<9, 2>>, <<18, 3>>>>),    \* begins below the user area
   ThreeRecords,                                 \* no end-of-file record
   WithLine(JunkLine, 0),
   <<OtherLine>> \o WithLine(JunkLine, 2) \o <<EofLine>>,
   <<DataLine(9, 3), Line("DATA", 10, 0, <<{0, 1}, {}>>), EofLine>>}

MoreOddFiles ==
  {<<EofLine>>,
   <<OtherLine>> \o ThreeRecords \o <<JunkLine, EofLine>>,
   <<DataLine(8, 0), DataLine(9, 2), DataLine(11, 0), EofLine>>,
   WithLine(JunkLine, 2), WithLine(EofLine, 2), WithLine(JunkLine, 3),
   WithLine(ElaLine(2), 0)}

MCFiles == Pairs \cup Triples \cup OddFiles \cup MoreOddFiles

(* Program memory: the bootloader with an old program and with nothing.    *)
Old(a) == IF a % 2 = 0 THEN {1} ELSE {0}

OldProgram == [a \in 0 .. 23 |-> Old(a)]

Fresh == [a \in 0 .. 23 |-> IF a < 8 THEN Old(a) ELSE MCBits]

MCInitialFlash == {OldProgram, Fresh}
=============================================================================
