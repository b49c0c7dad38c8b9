-------------------------- MODULE SdReader_proofs --------------------------
(***************************************************************************)
(* The line buffer of SDCARD_ReadLine: theorems for every size of it and   *)
(* every text of lines.                                                    *)
(***************************************************************************)
EXTENDS SdReader, DataInduction

-----------------------------------------------------------------------------
(* The text of a line has no CR: the only ones of a file end its lines.    *)
NotCr == Chars \ {Cr}

LEMMA CharFacts ==
  /\ Digits \subseteq NotCr /\ NotCr \subseteq Chars
  /\ Cr \in Chars /\ Lf \in Chars /\ Nul \in Chars /\ Cr # Lf /\ Nul # Cr
  /\ Colon \in NotCr /\ OtherChar \in NotCr
BY DEF NotCr, Chars, Digits, Colon, Cr, Lf, Nul, OtherChar

LEMMA ByteDigitsType ==
  ASSUME NEW b \in ByteValues
  PROVE  ByteDigits(b) \in Seq(NotCr) /\ Len(ByteDigits(b)) = 2
<1>0. b \in Nat /\ b < 256
  BY DEF ByteValues
<1>1. b \div 16 \in 0 .. 15 /\ b % 16 \in 0 .. 15
  BY <1>0
<1>2. b \div 16 \in NotCr /\ b % 16 \in NotCr
  BY <1>1, CharFacts DEF Digits
<1> QED
  BY <1>2 DEF ByteDigits

LEMMA LineFields ==
  ASSUME NEW line \in FileLines
  PROVE  /\ line.type \in LineTypes
         /\ line.off \in Nat /\ line.off < 65536
         /\ line.data \in Seq(ByteValues) /\ Len(line.data) \in Nat
<1>1. /\ line.type \in LineTypes /\ line.off \in WordValues
      /\ line.data \in Seq(ByteValues)
  BY DEF FileLines
<1> QED
  BY <1>1 DEF WordValues

(* Two digits for each byte.                                               *)
LEMMA PayloadType ==
  ASSUME NEW line \in FileLines
  PROVE  Payload(line) \in Seq(NotCr) /\ Len(Payload(line)) = 2 * Len(line.data)
<1> DEFINE n == Len(line.data)
           s == [i \in 1 .. n |-> ByteDigits(line.data[i])]
<1>1. line.data \in Seq(ByteValues) /\ n \in Nat
  BY LineFields
<1>2. ASSUME NEW i \in 1 .. n PROVE s[i] \in Seq(NotCr) /\ Len(s[i]) = 2
  <2>1. line.data[i] \in ByteValues
    BY <1>1
  <2> QED
    BY <2>1, ByteDigitsType
<1>3. s \in Seq(Seq(NotCr)) /\ Len(s) = n
  <2>1. s \in [1 .. n -> Seq(NotCr)]
    BY <1>2
  <2> HIDE DEF s, n
  <2> QED
    BY <1>1, <2>1
<1> HIDE DEF s
<1>4. FlattenSeq(s) \in Seq(NotCr)
  BY <1>3, FlattenType
<1>5. PICK b : PlacesOf(b, s)
  BY <1>3, FlattenPlaces
<1>6. /\ b \in [0 .. n -> Nat] /\ b[0] = 0 /\ b[n] = Len(FlattenSeq(s))
      /\ \A k \in 1 .. n : b[k] = b[k - 1] + 2
  BY <1>2, <1>3, <1>5 DEF PlacesOf
<1> HIDE DEF n
<1> DEFINE N == {k \in Nat : k <= n => b[k] = 2 * k}
<1>7. 0 \in N
  BY <1>6
<1>8. ASSUME NEW k \in Nat, k \in N PROVE k + 1 \in N
  <2>1. SUFFICES ASSUME k + 1 <= n PROVE b[k + 1] = 2 * (k + 1)
    OBVIOUS
  <2>2. k + 1 \in 1 .. n /\ (k + 1) - 1 = k /\ b[k] = 2 * k
    BY <1>1, <1>8, <2>1
  <2>3. b[k + 1] = b[k] + 2
    BY <1>6, <2>2
  <2> QED
    BY <2>2, <2>3
<1> HIDE DEF N
<1>9. Nat \subseteq N
  BY <1>7, <1>8, SetInduction
<1>10. b[n] = 2 * n
  BY <1>1, <1>9 DEF N
<1> QED
  BY <1>4, <1>6, <1>10 DEF Payload, s, n

LEMMA LineTextType ==
  ASSUME NEW line \in FileLines, Len(line.data) < 256
  PROVE  LineText(line) \in Seq(NotCr) /\ Len(LineText(line)) > 0
<1>1. CASE line.type = "JUNK"
  BY <1>1, CharFacts DEF LineText
<1>2. CASE line.type # "JUNK"
  <2> DEFINE p == Payload(line)
             c == ByteDigits(Len(p) \div 2)
             w == WordDigits(line.off)
             t == ByteDigits(TypeNumber(line.type))
  <2>1. p \in Seq(NotCr) /\ Len(p) \div 2 \in ByteValues
    <3>1. Len(line.data) \in Nat
      BY LineFields
    <3>2. p \in Seq(NotCr) /\ Len(p) = 2 * Len(line.data)
      BY PayloadType
    <3>3. \A k \in Nat : (2 * k) \div 2 = k
      OBVIOUS
    <3>4. Len(p) \div 2 = Len(line.data)
      BY <3>1, <3>2, <3>3
    <3> QED
      BY <3>1, <3>2, <3>4 DEF ByteValues
  <2>2. c \in Seq(NotCr)
    BY <2>1, ByteDigitsType
  <2>3. w \in Seq(NotCr)
    <3>1. line.off \in Nat /\ line.off < 65536
      BY LineFields
    <3>2. line.off \div 256 \in ByteValues /\ line.off % 256 \in ByteValues
      BY <3>1 DEF ByteValues
    <3>3. /\ ByteDigits(line.off \div 256) \in Seq(NotCr)
          /\ ByteDigits(line.off % 256) \in Seq(NotCr)
      BY <3>2, ByteDigitsType
    <3> QED
      BY <3>3 DEF WordDigits
  <2>4. t \in Seq(NotCr)
    <3>1. line.type \in {"DATA", "EOF", "ELA", "OTHER"}
      BY <1>2, LineFields DEF LineTypes
    <3>2. TypeNumber(line.type) \in ByteValues
      BY <3>1 DEF TypeNumber, ByteValues
    <3> QED
      BY <3>2, ByteDigitsType
  <2>5. <<Colon>> \in Seq(NotCr) /\ <<0, 0>> \in Seq(NotCr)
    BY CharFacts DEF Digits
  <2>6. LineText(line) = <<Colon>> \o c \o w \o t \o p \o <<0, 0>>
    BY <1>2 DEF LineText
  <2> HIDE DEF p, c, w, t
  <2> QED
    BY <2>1, <2>2, <2>3, <2>4, <2>5, <2>6
<1> QED
  BY <1>1, <1>2

-----------------------------------------------------------------------------
(* Where the lines end in the text: line k from behind place k - 1 as far  *)
(* as place k.  CR stands before the LF at the end of a line, and nowhere  *)
(* else; only the last line may be without the two.                        *)
LineEnds(b) ==
  /\ b \in [0 .. Len(lines) -> Nat]
  /\ b[0] = 0 /\ b[Len(lines)] = Len(text)
  /\ \A k \in 1 .. Len(lines) :
       /\ b[k - 1] < b[k] /\ b[k] <= Len(text)
       /\ Len(Terminated(lines[k])) \in Nat
       /\ b[k] - b[k - 1] <= Len(Terminated(lines[k]))
       /\ \A i \in b[k - 1] + 1 .. b[k] :
            text[i] = Cr => i = b[k] - 1 /\ text[b[k]] = Lf
       /\ k < Len(lines) =>
            /\ b[k - 1] < b[k] - 1
            /\ text[b[k] - 1] = Cr /\ text[b[k]] = Lf

LEMMA TextFacts ==
  ASSUME NEW c \in Contents, lines = c[1], text = TextOf(c)
  PROVE  text \in Seq(Chars) /\ \E b : LineEnds(b)
<1> DEFINE n == Len(lines)
           s == [i \in 1 .. n |-> IF i < n \/ c[2] THEN Terminated(lines[i])
                                                   ELSE LineText(lines[i])]
<1>1. /\ lines \in Seq(FileLines) /\ n \in Nat
      /\ \A i \in 1 .. n : lines[i] \in FileLines /\ Len(lines[i].data) < 256
  BY ContentsAssumption
<1>2. text = FlattenSeq(s)
  BY DEF TextOf
<1>3. ASSUME NEW k \in 1 .. n
      PROVE  /\ LineText(lines[k]) \in Seq(NotCr)
             /\ Len(LineText(lines[k])) \in Nat \ {0}
             /\ LineText(lines[k]) \in Seq(Chars)
             /\ Terminated(lines[k]) \in Seq(Chars)
             /\ Len(Terminated(lines[k])) = Len(LineText(lines[k])) + 2
  <2>1. LineText(lines[k]) \in Seq(NotCr) /\ Len(LineText(lines[k])) > 0
    BY <1>1, LineTextType
  <2>2. LineText(lines[k]) \in Seq(Chars) /\ <<Cr, Lf>> \in Seq(Chars)
    BY <2>1, CharFacts, SeqMonotonic
  <2> QED
    BY <2>1, <2>2 DEF Terminated
<1>4. s \in Seq(Seq(Chars)) /\ Len(s) = n
  BY <1>1, <1>3
<1>5. text \in Seq(Chars)
  BY <1>2, <1>4, FlattenType
<1> HIDE DEF s, n
<1>6. PICK b : PlacesOf(b, s)
  BY <1>4, FlattenPlaces
<1>7. /\ b \in [0 .. n -> Nat] /\ b[0] = 0 /\ b[n] = Len(text)
      /\ \A k \in 1 .. n :
           /\ b[k] = b[k - 1] + Len(s[k]) /\ b[k] <= Len(text)
           /\ \A i \in 1 .. Len(s[k]) : text[b[k - 1] + i] = s[k][i]
  BY <1>2, <1>4, <1>6 DEF PlacesOf
<1>8. ASSUME NEW k \in 1 .. n
      PROVE  /\ b[k - 1] < b[k] /\ b[k] <= Len(text)
             /\ b[k] - b[k - 1] <= Len(Terminated(lines[k]))
             /\ \A i \in b[k - 1] + 1 .. b[k] :
                  text[i] = Cr => i = b[k] - 1 /\ text[b[k]] = Lf
             /\ k < n => /\ b[k - 1] < b[k] - 1
                         /\ text[b[k] - 1] = Cr /\ text[b[k]] = Lf
  <2> DEFINE t == LineText(lines[k])
             a == b[k - 1]
             m == Len(t)
  <2>0. a \in Nat
    BY <1>1, <1>7
  <2>1. /\ t \in Seq(NotCr) /\ m \in Nat \ {0} /\ a \in Nat
        /\ Terminated(lines[k]) = t \o <<Cr, Lf>>
        /\ Len(Terminated(lines[k])) = m + 2
    BY <1>3, <2>0 DEF Terminated
  <2>2. /\ b[k] = a + Len(s[k]) /\ b[k] <= Len(text)
        /\ \A i \in 1 .. Len(s[k]) : text[a + i] = s[k][i]
    BY <1>7
  <2>3. s[k] = IF k < n \/ c[2] THEN Terminated(lines[k]) ELSE t
    BY DEF s
  <2>7. c[2] \in BOOLEAN
    BY ContentsAssumption
  <2> HIDE DEF t, a, m
  <2>4. \A i \in 1 .. m : t[i] # Cr
    BY <2>1 DEF NotCr, m
  <2>5. CASE k < n \/ c[2]
    <3>0. s[k] = Terminated(lines[k])
      BY <2>3, <2>5
    <3>1. s[k] = t \o <<Cr, Lf>> /\ Len(s[k]) = m + 2 /\ b[k] = a + (m + 2)
      BY <2>1, <2>2, <3>0
    <3>2. /\ \A i \in 1 .. m : s[k][i] = t[i]
          /\ s[k][m + 1] = Cr /\ s[k][m + 2] = Lf
      BY <2>1, <3>1 DEF m
    <3>6. \A i \in 1 .. m + 2 : text[a + i] = s[k][i]
      BY <2>2, <3>1
    <3>7. 1 .. m \subseteq 1 .. m + 2 /\ m + 1 \in 1 .. m + 2 /\ m + 2 \in 1 .. m + 2
      BY <2>1
    <3>3. /\ \A i \in 1 .. m : text[a + i] # Cr
          /\ text[a + (m + 1)] = Cr /\ text[a + (m + 2)] = Lf
      BY <2>4, <3>2, <3>6, <3>7
    <3>4. b[k] - 1 = a + (m + 1)
      BY <2>1, <3>1
    <3>5. ASSUME NEW i \in a + 1 .. b[k], text[i] = Cr
          PROVE  i = b[k] - 1 /\ text[b[k]] = Lf
      <4>1. i - a \in 1 .. m + 2 /\ a + (i - a) = i
        BY <2>1, <3>1
      <4>2. i - a \notin 1 .. m
        BY <3>3, <3>5, <4>1
      <4>3. i # a + (m + 2)
        BY <3>3, <3>5, CharFacts
      <4> QED
        BY <2>1, <3>1, <3>3, <3>4, <4>1, <4>2, <4>3
    <3>8. /\ a < b[k] /\ a < b[k] - 1 /\ b[k] - a <= m + 2
          /\ text[b[k] - 1] = Cr /\ text[b[k]] = Lf
      BY <2>1, <3>1, <3>3, <3>4
    <3> QED
      BY <2>1, <2>2, <3>5, <3>8 DEF a
  <2>6. CASE ~(k < n \/ c[2])
    <3>1. s[k] = t /\ b[k] = a + m
      BY <2>2, <2>3, <2>6 DEF m
    <3>2. \A i \in 1 .. m : text[a + i] # Cr
      BY <2>2, <2>4, <3>1 DEF m
    <3>3. ASSUME NEW i \in a + 1 .. b[k] PROVE text[i] # Cr
      <4>1. i - a \in 1 .. m /\ a + (i - a) = i
        BY <2>1, <3>1
      <4> QED
        BY <3>2, <4>1
    <3> QED
      BY <2>1, <2>2, <2>6, <3>1, <3>3 DEF a
  <2> QED
    BY <2>5, <2>6
<1>9. LineEnds(b)
  BY <1>3, <1>7, <1>8 DEF LineEnds, n
<1> QED
  BY <1>5, <1>9

-----------------------------------------------------------------------------
(* What parsing a buffer gives, whatever is in it.                         *)
LEMMA ByteAtType ==
  ASSUME NEW buffer, NEW i
  PROVE  DigitAt(buffer, i) \in Nat /\ ByteAt(buffer, i) \in ByteValues
<1>1. \A c : ConvertHexDigit(c) \in Nat
  BY DEF ConvertHexDigit, Digits
<1>2. DigitAt(buffer, i) \in Nat /\ DigitAt(buffer, i + 1) \in Nat
  BY <1>1 DEF DigitAt
<1> QED
  BY <1>2 DEF ByteAt, ByteValues

LEMMA ParseType ==
  ASSUME NEW buffer, NEW old \in HexRecords, NEW high \in Addresses
  PROVE  /\ ParseHexLine(buffer, old, high) \in HexRecords
         /\ HighAfterParse(buffer, high) \in Addresses
<1>0. high \in Nat
  BY DEF Addresses
<1>1. TypeName(TypeDigits(buffer)) \in {"DATA", "EOF", "ELA", "OTHER"}
  BY DEF TypeName
<1>2. AddressDigits(buffer) \in Nat
  <2>1. /\ DigitAt(buffer, 3) \in Nat /\ DigitAt(buffer, 4) \in Nat
        /\ DigitAt(buffer, 5) \in Nat /\ DigitAt(buffer, 6) \in Nat
    BY ByteAtType
  <2>2. (DigitAt(buffer, 3) * 4096) % 65536 \in Nat
    BY <2>1
  <2> QED
    BY <2>1, <2>2 DEF AddressDigits
<1>3. (high + AddressDigits(buffer)) % AddressSpace \in Addresses
  BY <1>0, <1>2 DEF Addresses, AddressSpace
<1>4. DataBytes(buffer) \in Seq(ByteValues) /\ <<>> \in Seq(ByteValues)
  <2>1. PICK n \in Nat : n = ByteAt(buffer, 1)
    BY ByteAtType DEF ByteValues
  <2>2. \A i : ByteAt(buffer, 7 + 2 * i) \in ByteValues
    BY ByteAtType
  <2>3. DataBytes(buffer) \in [1 .. n -> ByteValues]
    BY <2>1, <2>2 DEF DataBytes
  <2> QED
    BY <2>3
<1>5. old.RecordType \in {"DATA", "EOF", "ELA", "OTHER"}
  BY DEF HexRecords
<1>6. DataAt(buffer, 1) \in Nat /\ DataAt(buffer, 1) < 256
  BY ByteAtType DEF DataAt, ByteValues
<1>7. DataAt(buffer, 1) * 65536 \in Addresses
  BY <1>6 DEF Addresses, AddressSpace
<1> QED
  BY <1>1, <1>3, <1>4, <1>5, <1>7 DEF ParseHexLine, HighAfterParse, HexRecords

-----------------------------------------------------------------------------
(* While the file is open the next byte is the first one of a line between *)
(* calls, and in one the buffer holds `index' bytes of a line, none of     *)
(* which is its end.                                                       *)
InLine(b) ==
  \E k \in 0 .. Len(lines) :
    /\ b[k] = fptr - index
    /\ IF index = 0 THEN currentChar = Nul
       ELSE /\ currentChar = text[fptr]
            /\ k < Len(lines)
            /\ fptr <= b[k + 1]
            /\ fptr = b[k + 1] => k + 1 = Len(lines)

AtLine(b) == \E k \in 0 .. Len(lines) : b[k] = fptr

BufferInv ==
  /\ TypeOK
  /\ \E c \in Contents : lines = c[1] /\ text = TextOf(c)
  /\ \E b :
       /\ LineEnds(b)
       /\ flag /\ pc = "idle" => AtLine(b)
       /\ flag /\ pc = "reading" => InLine(b)
  /\ pc = "reading" /\ index # 0 => Readable
  /\ OverrunOnlyByLongLine

LEMMA InitHolds == Init => BufferInv
<1> SUFFICES ASSUME Init PROVE BufferInv
  OBVIOUS
<1>1. PICK c \in Contents : lines = c[1] /\ text = TextOf(c)
  BY DEF Init
<1>2. text \in Seq(Chars) /\ \E b : LineEnds(b)
  BY <1>1, TextFacts
<1>3. record \in HexRecords /\ currentHighAddress \in Addresses
  BY DEF Init, HexRecords, Addresses, AddressSpace
<1>4. dataBuffer \in [0 .. BufferSize - 1 -> Chars]
  BY CharFacts DEF Init
<1>5. TypeOK
  BY <1>2, <1>3, <1>4, CharFacts, ReaderAssumption DEF Init, TypeOK
<1>6. fptr = 0 /\ pc = "idle"
  BY DEF Init
<1>7. 0 \in 0 .. Len(lines)
  BY <1>1, ContentsAssumption
<1> QED
  BY <1>1, <1>2, <1>5, <1>6, <1>7
  DEF BufferInv, LineEnds, AtLine, OverrunOnlyByLongLine


(* A call that returns at the end of a line, or that closes the file.      *)
LEMMA ReturnKeeps ==
  ASSUME BufferInv, NEW r \in HexRecords, NEW high \in Addresses,
         record' = r, currentHighAddress' = high, pc' = "idle",
         UNCHANGED cardVars, sspen' \in BOOLEAN, mounted' \in BOOLEAN,
         flag' \in BOOLEAN, currentFile' \in BOOLEAN, fault' \in BOOLEAN,
         fptr' \in 0 .. Len(text), lineStart' \in 0 .. fptr',
         dataBuffer' \in [0 .. BufferSize - 1 -> Chars],
         index' \in 0 .. BufferSize, currentChar' \in Chars,
         previousChar' \in Chars,
         NEW b, LineEnds(b),
         flag' => \E k \in 0 .. Len(lines) : b[k] = fptr'
  PROVE  BufferInv'
<1>1. lines' = lines /\ text' = text
  BY DEF cardVars
<1>2. TypeOK'
  BY <1>1 DEF BufferInv, TypeOK
<1>3. \E c \in Contents : lines' = c[1] /\ text' = TextOf(c)
  BY <1>1 DEF BufferInv
<1>5. LineEnds(b)'
  BY <1>1 DEF LineEnds
<1>6. (flag /\ pc = "idle" => AtLine(b))' /\ (flag /\ pc = "reading" => InLine(b))'
  BY <1>1 DEF AtLine
<1>7. OverrunOnlyByLongLine'
  BY DEF OverrunOnlyByLongLine
<1> QED
  BY <1>2, <1>3, <1>5, <1>6, <1>7 DEF BufferInv

LEMMA OverrunKeeps ==
  ASSUME BufferInv, Overrun, NEW k \in 1 .. Len(lines),
         Len(Terminated(lines[k])) + 1 > BufferSize
  PROVE  BufferInv'
<1>1. TypeOK'
  BY DEF BufferInv, TypeOK, Overrun, cardVars, lineVars
<1>2. PICK b : LineEnds(b)
  BY DEF BufferInv
<1>3. LineEnds(b)'
  BY <1>2 DEF LineEnds, Overrun, cardVars
<1> QED
  BY <1>1, <1>3 DEF BufferInv, Overrun, OverrunOnlyByLongLine, cardVars

LEMMA NextKeeps == BufferInv /\ [Next]_vars => BufferInv'
<1> SUFFICES ASSUME BufferInv, [Next]_vars PROVE BufferInv'
  OBVIOUS
<1> USE DEF cardVars, lineVars
<1>1. /\ TypeOK
      /\ text \in Seq(Chars) /\ Len(text) \in Nat
      /\ record \in HexRecords /\ currentHighAddress \in Addresses
      /\ BufferSize \in Nat \ {0}
  BY ReaderAssumption DEF BufferInv, TypeOK
<1>2. PICK b : /\ LineEnds(b)
               /\ flag /\ pc = "idle" => AtLine(b)
               /\ flag /\ pc = "reading" => InLine(b)
  BY DEF BufferInv
<1>3. PICK c \in Contents : lines = c[1] /\ text = TextOf(c)
  BY DEF BufferInv
<1>4. PICK n \in Nat : n = Len(lines)
  BY <1>3, ContentsAssumption
<1>5. b \in [0 .. n -> Nat] /\ b[0] = 0 /\ b[n] = Len(text)
  BY <1>2, <1>4 DEF LineEnds
<1>6. ASSUME Initialize PROVE BufferInv'
  <2>1. flag' => flag
    BY <1>6 DEF Initialize, MountOrNot
  <2> QED
    BY <1>1, <1>6, <2>1, <1>2, ReturnKeeps
    DEF Initialize, MountOrNot, TypeOK, AtLine
<1>7. ASSUME OpenSource PROVE BufferInv'
  <2>1. 0 \in Addresses
    BY DEF Addresses, AddressSpace
  <2>2. flag' => fptr' = 0 \/ (flag /\ fptr' = fptr)
    BY <1>7 DEF OpenSource, SeekToStart, OpenNamed
  <2>3. flag' \in BOOLEAN /\ currentFile' \in BOOLEAN /\ fault' \in BOOLEAN
    BY <1>1, <1>7 DEF OpenSource, SeekToStart, OpenNamed, TypeOK
  <2>4. fptr' \in 0 .. Len(text) /\ lineStart' \in 0 .. fptr'
    BY <1>1, <1>7 DEF OpenSource, SeekToStart, OpenNamed, TypeOK
  <2>5. 0 \in 0 .. Len(lines)
    BY <1>4
  <2> QED
    BY <1>1, <1>7, <2>1, <2>2, <2>3, <2>4, <2>5, <1>2, ReturnKeeps
    DEF OpenSource, TypeOK, AtLine, LineEnds
<1>8. ASSUME EnterReadLine PROVE BufferInv'
  <2>1. TypeOK'
    BY <1>1, <1>8, CharFacts DEF EnterReadLine, TypeOK
  <2>2. LineEnds(b)'
    BY <1>2, <1>8 DEF EnterReadLine, LineEnds
  <2>3. (flag /\ pc = "reading" => InLine(b))'
    <3>1. SUFFICES ASSUME flag PROVE InLine(b)'
      BY <1>8 DEF EnterReadLine
    <3>2. PICK k \in 0 .. Len(lines) : b[k] = fptr
      BY <1>2, <1>8, <3>1 DEF EnterReadLine, AtLine
    <3>3. b[k] = fptr - 0
      BY <1>1, <3>2 DEF TypeOK
    <3> QED
      BY <1>8, <3>3 DEF EnterReadLine, InLine
  <2> QED
    BY <1>3, <1>8, <2>1, <2>2, <2>3
    DEF EnterReadLine, BufferInv, OverrunOnlyByLongLine
<1>9. ASSUME NotOpen PROVE BufferInv'
  <2>1. record' \in HexRecords
    BY <1>1, <1>9 DEF NotOpen, ReturnNull, HexRecords
  <2>2. index = 0 /\ fptr - index = fptr
    BY <1>1, <1>9 DEF NotOpen, BufferInv, TypeOK
  <2> QED
    BY <1>1, <1>9, <2>1, <2>2, <1>2, ReturnKeeps DEF NotOpen, ReturnNull, TypeOK, InLine
<1>10. ASSUME TransferFails PROVE BufferInv'
  <2>1. record' \in HexRecords
    BY <1>1, <1>10 DEF TransferFails, ReturnNull, HexRecords
  <2> QED
    BY <1>1, <1>10, <2>1, <1>2, ReturnKeeps DEF TransferFails, ReturnNull, TypeOK
<1>11. ASSUME EndOfText PROVE BufferInv'
  <2>1. record' \in HexRecords
    BY <1>1, <1>11 DEF EndOfText, ReturnNull, HexRecords
  <2>2. Len(lines) \in 0 .. Len(lines)
    BY <1>4
  <2> QED
    BY <1>1, <1>11, <2>1, <2>2, <1>2, ReturnKeeps
    DEF EndOfText, ReturnNull, AtEnd, TypeOK, LineEnds
<1>12. ASSUME LastLineWithoutEnd PROVE BufferInv'
  <2>1. CASE Room(index)
    <3>1. dataBuffer' \in [0 .. BufferSize - 1 -> Chars]
      BY <1>1, <1>12, <2>1, CharFacts DEF LastLineWithoutEnd, TypeOK
    <3>2. record' \in HexRecords /\ currentHighAddress' \in Addresses
      BY <1>1, <1>12, <2>1, ParseType DEF LastLineWithoutEnd, ReturnLine
    <3>3. lineStart' \in 0 .. fptr'
      BY <1>1, <1>12, <2>1 DEF LastLineWithoutEnd, TypeOK
    <3>4. Len(lines) \in 0 .. Len(lines)
      BY <1>4
    <3> QED
      BY <1>1, <1>12, <2>1, <3>1, <3>2, <3>3, <3>4, <1>2, ReturnKeeps
      DEF LastLineWithoutEnd, ReturnLine, AtEnd, TypeOK, LineEnds
  <2>2. CASE ~Room(index)
    <3>1. PICK k \in 0 .. n : /\ b[k] = fptr - index /\ k < n
                              /\ fptr <= b[k + 1]
      BY <1>1, <1>2, <1>4, <1>12, SMTT(30) DEF LastLineWithoutEnd, Readable, InLine, TypeOK
    <3>2. k + 1 \in 1 .. n /\ (k + 1) - 1 = k /\ k + 1 \in 0 .. n
      BY <1>4, <3>1
    <3>3. /\ b[k + 1] - b[k] <= Len(Terminated(lines[k + 1]))
          /\ Len(Terminated(lines[k + 1])) \in Nat
      BY <1>2, <1>4, <3>2 DEF LineEnds
    <3>4. /\ b[k + 1] \in Nat /\ fptr \in Nat /\ index \in Nat
          /\ index >= BufferSize
      BY <1>1, <1>5, <2>2, <3>2 DEF TypeOK, Room
    <3>5. Len(Terminated(lines[k + 1])) + 1 > BufferSize
      BY <1>1, <3>1, <3>3, <3>4
    <3> QED
      BY <1>4, <1>12, <2>2, <3>2, <3>5, OverrunKeeps DEF LastLineWithoutEnd
  <2> QED
    BY <2>1, <2>2
<1>13. ASSUME ReadChar PROVE BufferInv'
  <2> DEFINE ch == text[fptr + 1]
             stored == [dataBuffer EXCEPT ![index] = ch]
             ended == [stored EXCEPT ![index + 1] = Nul]
             ends == EndsLine(currentChar, ch)
  <2>1. /\ fptr \in Nat /\ fptr < Len(text) /\ index \in Nat /\ lineStart \in Nat
        /\ lineStart <= fptr /\ flag /\ mounted /\ pc = "reading"
        /\ ch \in Chars /\ index <= BufferSize
    BY <1>1, <1>13 DEF ReadChar, Readable, AtEnd, TypeOK
  <2>2. PICK k \in 0 .. n :
          /\ b[k] = fptr - index
          /\ index = 0 => currentChar = Nul
          /\ index # 0 => /\ currentChar = text[fptr] /\ k < n /\ fptr <= b[k + 1]
                          /\ fptr = b[k + 1] => k + 1 = n
    BY <1>2, <1>4, <2>1 DEF InLine
  <2>3. k < n
    BY <1>5, <2>1, <2>2
  <2>4. k + 1 \in 1 .. n /\ (k + 1) - 1 = k /\ k + 1 \in 0 .. n
    BY <1>4, <2>3
  <2>5. /\ b[k] < b[k + 1] /\ b[k + 1] <= Len(text)
        /\ Len(Terminated(lines[k + 1])) \in Nat
        /\ b[k + 1] - b[k] <= Len(Terminated(lines[k + 1]))
        /\ \A i \in b[k] + 1 .. b[k + 1] :
             text[i] = Cr => i = b[k + 1] - 1 /\ text[b[k + 1]] = Lf
        /\ k + 1 < n => /\ b[k] < b[k + 1] - 1
                        /\ text[b[k + 1] - 1] = Cr /\ text[b[k + 1]] = Lf
    BY <1>2, <1>4, <2>4 DEF LineEnds
  <2>6. b[k] \in Nat /\ b[k + 1] \in Nat
    BY <1>5, <2>4
  <2>7. fptr < b[k + 1]
    BY <1>5, <2>1, <2>2, <2>4, <2>5, <2>6
  <2>8. ends => fptr + 1 = b[k + 1]
    <3>1. SUFFICES ASSUME ends PROVE fptr + 1 = b[k + 1]
      OBVIOUS
    <3>2. currentChar = Cr /\ index # 0
      BY <2>2, <3>1, CharFacts DEF EndsLine
    <3>3. fptr \in b[k] + 1 .. b[k + 1] /\ text[fptr] = Cr
      BY <2>1, <2>2, <2>6, <2>7, <3>2
    <3> QED
      BY <2>1, <2>5, <2>6, <3>3
  <2>9. fptr + 1 = b[k + 1] /\ k + 1 < n => ends
    <3>1. SUFFICES ASSUME fptr + 1 = b[k + 1], k + 1 < n PROVE ends
      OBVIOUS
    <3>2. b[k + 1] - 1 = fptr /\ ch = Lf /\ text[fptr] = Cr /\ index # 0
      BY <2>1, <2>2, <2>5, <2>6, <3>1, SMTT(30)
    <3> QED
      BY <2>2, <3>2 DEF EndsLine
  <2>10. CASE ~Room(index) \/ (ends /\ ~Room(index + 1))
    <3>1. Overrun
      BY <1>13, <2>10 DEF ReadChar
    <3>2. Len(Terminated(lines[k + 1])) + 1 > BufferSize
      <4>1. index + 1 <= b[k + 1] - b[k]
        BY <2>1, <2>2, <2>6, <2>7
      <4>2. index >= BufferSize \/ index + 1 >= BufferSize
        BY <2>1, <2>10, <1>1 DEF Room
      <4> QED
        BY <1>1, <2>1, <2>5, <2>6, <4>1, <4>2
    <3> QED
      BY <1>4, <2>4, <3>1, <3>2, OverrunKeeps
  <2>11. CASE Room(index) /\ ~ends
    <3>1. /\ fptr' = fptr + 1 /\ index' = index + 1 /\ previousChar' = currentChar
          /\ currentChar' = ch /\ dataBuffer' = stored
          /\ UNCHANGED <<record, currentHighAddress, pc, lineStart>>
          /\ UNCHANGED <<cardVars, sspen, mounted, flag, currentFile, fault>>
      BY <1>13, <2>11 DEF ReadChar
    <3>2. dataBuffer' \in [0 .. BufferSize - 1 -> Chars]
      BY <1>1, <2>1, <3>1 DEF TypeOK
    <3>3. index' \in 0 .. BufferSize
      BY <1>1, <2>1, <2>11, <3>1 DEF Room
    <3>4. fptr' \in 0 .. Len(text)' /\ lineStart' \in 0 .. fptr'
      BY <1>1, <2>1, <3>1
    <3>5. TypeOK'
      BY <1>1, <2>1, <3>1, <3>2, <3>3, <3>4 DEF TypeOK
    <3>6. LineEnds(b)'
      BY <1>2, <3>1 DEF LineEnds
    <3>7. InLine(b)'
      <4>1. b[k] = (fptr + 1) - (index + 1)
        BY <2>1, <2>2
      <4>2. index + 1 # 0 /\ fptr + 1 <= b[k + 1]
            /\ (fptr + 1 = b[k + 1] => k + 1 = n)
        BY <1>4, <2>1, <2>4, <2>6, <2>7, <2>9, <2>11
      <4> QED
        BY <1>4, <2>3, <3>1, <4>1, <4>2 DEF InLine
    <3> QED
      BY <1>3, <2>1, <3>1, <3>5, <3>6, <3>7
      DEF BufferInv, OverrunOnlyByLongLine, Readable
  <2>12. CASE Room(index) /\ Room(index + 1) /\ ends
    <3>1. /\ fptr' = fptr + 1 /\ index' = index + 1 /\ previousChar' = currentChar
          /\ currentChar' = ch /\ dataBuffer' = ended
          /\ ReturnLine(ended) /\ lineStart' = fptr + 1
          /\ UNCHANGED <<cardVars, sspen, mounted, flag, currentFile, fault>>
      BY <1>13, <2>12 DEF ReadChar
    <3>2. ended \in [0 .. BufferSize - 1 -> Chars]
      BY <1>1, <2>1, CharFacts DEF TypeOK
    <3>3. index' \in 0 .. BufferSize
      BY <1>1, <2>1, <2>12, <3>1 DEF Room
    <3>4. fptr' \in 0 .. Len(text) /\ lineStart' \in 0 .. fptr'
      BY <1>1, <2>1, <3>1
    <3>5. /\ record' = ParseHexLine(ended, record, currentHighAddress)
          /\ currentHighAddress' = HighAfterParse(ended, currentHighAddress)
          /\ pc' = "idle"
      BY <3>1 DEF ReturnLine
    <3>6. b[k + 1] = fptr' /\ k + 1 \in 0 .. Len(lines)
      BY <1>4, <2>4, <2>8, <2>12, <3>1
    <3> HIDE DEF ended, ends
    <3>7. record' \in HexRecords /\ currentHighAddress' \in Addresses
      BY <1>1, <3>5, ParseType
    <3>8. /\ sspen' \in BOOLEAN /\ mounted' \in BOOLEAN
          /\ flag' \in BOOLEAN /\ currentFile' \in BOOLEAN /\ fault' \in BOOLEAN
          /\ currentChar' \in Chars /\ previousChar' \in Chars
          /\ dataBuffer' \in [0 .. BufferSize - 1 -> Chars]
      BY <1>1, <2>1, <3>1, <3>2 DEF TypeOK
    <3> QED
      BY <1>2, <3>1, <3>3, <3>4, <3>5, <3>6, <3>7, <3>8, ReturnKeeps
  <2> QED
    BY <2>10, <2>11, <2>12
<1>14. ASSUME Dispose PROVE BufferInv'
  BY <1>1, <1>14, <1>2, ReturnKeeps DEF Dispose, TypeOK, AtLine
<1>16. ASSUME OpenHangs PROVE BufferInv'
  <2>1. TypeOK'
    BY <1>1, <1>16 DEF OpenHangs, TypeOK, Addresses, AddressSpace
  <2>2. LineEnds(b)'
    BY <1>2, <1>16 DEF OpenHangs, LineEnds
  <2> QED
    BY <1>3, <1>16, <2>1, <2>2
    DEF OpenHangs, BufferInv, OverrunOnlyByLongLine
<1>15. ASSUME UNCHANGED vars PROVE BufferInv'
  <2>1. TypeOK'
    BY <1>1, <1>15 DEF vars, TypeOK
  <2>2. /\ LineEnds(b)' /\ (flag /\ pc = "idle" => AtLine(b))'
        /\ (flag /\ pc = "reading" => InLine(b))'
    BY <1>2, <1>15 DEF vars, LineEnds, InLine, AtLine
  <2> QED
    BY <1>3, <1>15, <2>1, <2>2
    DEF vars, BufferInv, OverrunOnlyByLongLine, Readable
<1> QED
  BY <1>6, <1>7, <1>8, <1>9, <1>10, <1>11, <1>12, <1>13, <1>14, <1>15, <1>16
  DEF Next, ReadLine, Lost


-----------------------------------------------------------------------------
(* The theorems.                                                           *)
LEMMA BufferHolds == Spec => []BufferInv
BY InitHolds, NextKeeps, PTL DEF Spec

(* Whatever is on the card, however often the card is pulled and the file  *)
(* opened again: the pointers of pf_read and of the line buffer stay in    *)
(* their bounds, and parse_hex_line gives 24-bit addresses and bytes.      *)
THEOREM TypeCorrect == Spec => []TypeOK
<1>1. BufferInv => TypeOK
  BY DEF BufferInv
<1> QED
  BY <1>1, BufferHolds, PTL

(* SDCARD_ReadLine has no bound for its index: only a line that is longer  *)
(* than the buffer takes it beyond the end, never the rest of another line *)
(* that a failed transfer, or a new start, has left.                       *)
THEOREM OverrunNeedsLongLine == Spec => []OverrunOnlyByLongLine
<1>1. BufferInv => OverrunOnlyByLongLine
  BY DEF BufferInv
<1> QED
  BY <1>1, BufferHolds, PTL

(* pf_read asks for a byte only through a port that is on, though RAM may  *)
(* hold a file that counts as open at a reset, and however often the card  *)
(* is initialized again: SDCARD_Initialize forgets the name, and a file is *)
(* open under its name only if it was opened since.                        *)
THEOREM ReadsOnPort == Spec => []ReadsOnLivePort
<1> DEFINE LivePort == /\ currentFile /\ Readable => sspen
                       /\ pc = "reading" => currentFile
<1>1. Init => LivePort
  BY DEF Init
<1>2. LivePort /\ [Next]_vars => LivePort'
  <2> SUFFICES ASSUME LivePort, [Next]_vars PROVE LivePort'
    OBVIOUS
  <2> USE DEF Readable
  <2>1. CASE Initialize \/ OpenSource \/ OpenHangs \/ Dispose
    BY <2>1 DEF Initialize, MountOrNot, OpenSource, SeekToStart, OpenNamed,
       OpenHangs, Dispose
  <2>2. CASE EnterReadLine \/ NotOpen \/ TransferFails \/ EndOfText
    BY <2>2 DEF EnterReadLine, NotOpen, TransferFails, EndOfText, ReturnNull
  <2>3. CASE LastLineWithoutEnd \/ ReadChar
    <3>1. UNCHANGED <<sspen, mounted, flag, currentFile>>
          /\ pc' \in {pc, "idle", "overrun"}
      BY <2>3 DEF LastLineWithoutEnd, ReadChar, ReturnLine, Overrun
    <3> QED
      BY <3>1
  <2>4. CASE UNCHANGED vars
    BY <2>4 DEF vars
  <2> QED
    BY <2>1, <2>2, <2>3, <2>4 DEF Next, ReadLine, Lost
<1>3. LivePort => ReadsOnLivePort
  BY DEF ReadsOnLivePort
<1> QED
  BY <1>1, <1>2, <1>3, PTL DEF Spec
=============================================================================
