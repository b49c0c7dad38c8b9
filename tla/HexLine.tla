------------------------------- MODULE HexLine -------------------------------
(***************************************************************************)
(* parse_hex_line and convert_hex_digit of hexreader.c: from the           *)
(* characters in a line buffer to a HexRecord.  A character that is a hex  *)
(* digit, of either case, is represented by its value; the few others that *)
(* matter have codes of their own.                                         *)
(***************************************************************************)
EXTENDS Integers, Sequences

Digits == 0 .. 15
Colon == 16
Cr == 17            \* 0x0D
Lf == 18            \* 0x0A
Nul == 19
OtherChar == 20     \* any other character

Chars == Digits \cup {Colon, Cr, Lf, Nul, OtherChar}

(* A UINT24.                                                               *)
AddressSpace == 16777216                                            \* 2^24

Addresses == {n \in Nat : n < AddressSpace}

ByteValues == {n \in Nat : n < 256}

HexRecords ==
  [RecordType : {"DATA", "EOF", "ELA", "OTHER"}, Address : Addresses,
   Data : Seq(ByteValues)]

(* Eight bits of -1 for what is not a digit.                               *)
ConvertHexDigit(c) == IF c \in Digits THEN c ELSE 255

TypeName(n) ==
  CASE n = 0 -> "DATA"
    [] n = 1 -> "EOF"
    [] n = 4 -> "ELA"
    [] OTHER -> "OTHER"

(* The buffer is read as far as the record's own length says, beyond the   *)
(* end of the line if need be.  A length above                             *)
(* MAX_HEX_PAYLOAD_SIZE_IN_BYTES would write beyond record->data: no line  *)
(* of the files here has one.                                              *)
DigitAt(buffer, i) == ConvertHexDigit(buffer[i])

ByteAt(buffer, i) == (16 * DigitAt(buffer, i) + DigitAt(buffer, i + 1)) % 256

AddressDigits(buffer) ==
  ((DigitAt(buffer, 3) * 4096) % 65536) + DigitAt(buffer, 4) * 256
    + DigitAt(buffer, 5) * 16 + DigitAt(buffer, 6)

TypeDigits(buffer) == 2 * DigitAt(buffer, 7) + DigitAt(buffer, 8)

DataBytes(buffer) ==
  [i \in 1 .. ByteAt(buffer, 1) |-> ByteAt(buffer, 7 + 2 * i)]

StartsWithColon(buffer) == buffer[0] = Colon

(* The checksum is converted and never looked at.                          *)
ParseHexLine(buffer, old, currentHigh) ==
  IF StartsWithColon(buffer)
    THEN [RecordType |-> TypeName(TypeDigits(buffer)),
          Address |-> (currentHigh + AddressDigits(buffer)) % AddressSpace,
          Data |-> DataBytes(buffer)]
    ELSE [RecordType |-> old.RecordType,
          Address |-> currentHigh,
          Data |-> <<>>]

IsEla(buffer) ==
  StartsWithColon(buffer) /\ TypeName(TypeDigits(buffer)) = "ELA"

(* record->data[k]: the bytes the line does not give are zero.             *)
DataAt(buffer, k) ==
  IF k < ByteAt(buffer, 1) THEN ByteAt(buffer, 9 + 2 * k) ELSE 0

HighAfterParseWide(buffer, currentHigh) ==   \* mutant: data[0] is kept
  IF IsEla(buffer)
    THEN DataAt(buffer, 0) * AddressSpace + DataAt(buffer, 1) * 65536
    ELSE currentHigh

(* data[0] is shifted out of the 24 bits of temp.                          *)
HighAfterParse(buffer, currentHigh) ==
  IF IsEla(buffer) THEN DataAt(buffer, 1) * 65536 ELSE currentHigh
==============================================================================
