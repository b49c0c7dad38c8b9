----------------------------- MODULE MCSdReader -----------------------------
(***************************************************************************)
(* Files for SdReader: with a small buffer, and around the limit of the    *)
(* device's own.                                                           *)
(***************************************************************************)
EXTENDS SdReader

Line(t, off, hi, data) == [type |-> t, off |-> off, hi |-> hi, data |-> data]

EofLine == Line("EOF", 0, 0, <<>>)
JunkLine == Line("JUNK", 0, 0, <<>>)
DataLine(off, n) ==
  Line("DATA", off, 0, [i \in 1 .. n |-> (off + 37 * i) % 256])

Ela(h) == Line("ELA", 0, h, <<h \div 256, h % 256>>)

(* For a buffer of 20 characters, which takes records of up to 3 bytes.    *)
(* Long lines before short ones leave their characters in the buffer; the  *)
(* upper byte of an extended linear address is lost.                       *)
Upper == <<Ela(1), DataLine(65501, 3), JunkLine, DataLine(4660, 1)>>
Aliased == <<DataLine(43981, 2), Ela(511), DataLine(32768, 0), EofLine>>
Skipped == <<JunkLine, Line("OTHER", 0, 0, <<1, 128>>), DataLine(768, 1)>>

TooLong == <<DataLine(0, 3), DataLine(3, 4), EofLine>>

Shapes == {Upper, Aliased, Skipped, TooLong, <<>>, <<JunkLine>>}

MCContents == {<<s, e>> : s \in Shapes, e \in BOOLEAN}

(* Records around the limit of the buffer and of the payload.              *)
LongContents ==
  {<<<<DataLine(0, n), DataLine(n, 1)>>, e>> : n \in {24, 25, 26, 32}, e \in BOOLEAN}
=============================================================================
