-------------------------------- MODULE Packing --------------------------------
(***************************************************************************)
(* The bytes Codec writes and reads stanzas with (encoder.ts, decoder.ts): *)
(* lengths of strings and lists in one to four bytes, raw strings, and     *)
(* strings of digits packed two to a byte.  Input is a sequence of bytes;  *)
(* a reader answers with what it read and the rest, or has thrown.         *)
(***************************************************************************)
EXTENDS Naturals, Sequences

LIST_EMPTY == 0
LIST_8 == 248
LIST_16 == 249
HEX_8 == 251
BINARY_8 == 252
BINARY_20 == 253
BINARY_32 == 254
NIBBLE_8 == 255
PACKED_MAX == 127
MediumLength == 1048576                 \* 1 << 20
LargestLength == 2147483647             \* 2^31 - 1
LongestList == 65535

Digits == 48..57
Upper == 65..70                         \* A to F
Dash == 45
Dot == 46

\* What the bytes of a number weigh, highest first.
Weight == << 16777216, 65536, 256, 1 >>
PushInt(v, n) == [i \in 1..n |-> (v \div Weight[4 - n + i]) % 256]
PushInt20(v) == << (v \div 65536) % 16, (v \div 256) % 256, v % 256 >>

BugWriteByteLength(n) ==
  IF n >= MediumLength THEN << BINARY_32 >> \o PushInt(n, 4)
  ELSE IF n > 256 THEN << BINARY_20 >> \o PushInt20(n) ELSE << BINARY_8, n % 256 >>

WriteByteLength(n) ==
  IF n >= MediumLength THEN << BINARY_32 >> \o PushInt(n, 4)
  ELSE IF n >= 256 THEN << BINARY_20 >> \o PushInt20(n) ELSE << BINARY_8, n >>

WriteStringRaw(s) == WriteByteLength(Len(s)) \o s

PackNibble(c) == CASE c = Dash -> 10 [] c = Dot -> 11 [] OTHER -> c - 48
PackHex(c) == IF c \in Digits THEN c - 48 ELSE 10 + c - 65

\* Two characters a byte; an odd one is followed by 15, and the length's
\* highest bit is set.
WritePackedBytes(s, tag) ==
  LET Pack(c) == IF tag = NIBBLE_8 THEN PackNibble(c) ELSE PackHex(c)
      half    == (Len(s) + 1) \div 2
  IN  << tag, half + 128 * (Len(s) % 2) >>
      \o [i \in 1..half |-> 16 * Pack(s[2 * i - 1])
                            + IF 2 * i <= Len(s) THEN Pack(s[2 * i]) ELSE 15]

Packs(s, chars) == s # << >> /\ Len(s) <= PACKED_MAX /\ \A i \in DOMAIN s : s[i] \in chars
IsNibble(s) == Packs(s, Digits \cup {Dash, Dot})
IsHex(s) == Packs(s, Digits \cup Upper)

WriteListStart(n) ==
  IF n = 0 THEN << LIST_EMPTY >>
  ELSE IF n < 256 THEN << LIST_8, n >> ELSE << LIST_16 >> \o PushInt(n, 2)

-----------------------------------------------------------------------------
Thrown == [ok |-> FALSE, val |-> << >>, rest |-> << >>]
Ok(val, rest) == [ok |-> TRUE, val |-> val, rest |-> rest]
Then(r, F(_, _)) == IF r.ok THEN F(r.val, r.rest) ELSE Thrown

ReadBytes(n, in) == IF n > Len(in) THEN Thrown ELSE Ok(SubSeq(in, 1, n), SubSeq(in, n + 1, Len(in)))
ReadByte(in) == IF in = << >> THEN Thrown ELSE Ok(Head(in), Tail(in))
\* Numbers below 2^31: the code's shift by 24 turns larger ones negative.
ReadInt(n, in) == Then(ReadBytes(n, in), LAMBDA b, rest :
                    LET Octet(i) == IF i > n THEN 0 ELSE Weight[4 - n + i] * b[i]
                    IN  Ok(Octet(1) + Octet(2) + Octet(3) + Octet(4), rest))
ReadInt20(in) == Then(ReadBytes(3, in), LAMBDA b, rest :
                   Ok(65536 * (b[1] % 16) + 256 * b[2] + b[3], rest))

\* The length behind one of the BINARY tags.
ReadLength(tag, in) ==
  CASE tag = BINARY_8 -> ReadByte(in) [] tag = BINARY_20 -> ReadInt20(in)
    [] tag = BINARY_32 -> ReadInt(4, in)

Unpackable(tag, v) == tag = HEX_8 \/ v \in 0..11 \/ v = 15
Unpack(tag, v) ==
  CASE v < 10 -> 48 + v
    [] v >= 10 /\ tag = HEX_8 -> 65 + v - 10
    [] v = 10 /\ tag = NIBBLE_8 -> Dash
    [] v = 11 /\ tag = NIBBLE_8 -> Dot
    [] v = 15 /\ tag = NIBBLE_8 -> 0

\* The characters in bytes b; without the last if the start byte says so.
Unpacked(tag, start, b, rest) ==
  LET v == [i \in 1..(2 * Len(b)) |-> IF i % 2 = 1 THEN b[(i + 1) \div 2] \div 16
                                      ELSE b[i \div 2] % 16]
  IN  IF \E i \in DOMAIN v : ~Unpackable(tag, v[i]) THEN Thrown
      ELSE Ok([i \in 1..(Len(v) - IF start >= 128 /\ v # << >> THEN 1 ELSE 0) |-> Unpack(tag, v[i])], rest)

ReadPacked8(tag, in) ==
  Then(ReadByte(in), LAMBDA start, body :
    Then(ReadBytes(start % 128, body), LAMBDA b, rest : Unpacked(tag, start, b, rest)))

ListTags == {LIST_EMPTY, LIST_8, LIST_16}
ReadListSize(in) ==
  Then(ReadByte(in), LAMBDA tag, rest :
    CASE tag = LIST_EMPTY -> Ok(0, rest) [] tag = LIST_8 -> ReadByte(rest)
      [] tag = LIST_16 -> ReadInt(2, rest) [] OTHER -> Thrown)

-----------------------------------------------------------------------------
(***************************************************************************)
(* What survives: what is written is read back, and what follows is left.  *)
(***************************************************************************)

\* The length of a string, in one of three forms.
LengthReturns(n, more) ==
  LET w == WriteByteLength(n) \o more IN ReadLength(Head(w), Tail(w)) = Ok(n, more)

\* The length of a list, in one of three forms.
ListSizeReturns(n, more) == ReadListSize(WriteListStart(n) \o more) = Ok(n, more)

\* A packed string.
PackedReturns(s, tag, more) ==
  ReadPacked8(tag, Tail(WritePackedBytes(s, tag) \o more)) = Ok(s, more)

\* A string written raw.
RawReturns(s, more) ==
  LET w == WriteStringRaw(s) \o more
  IN  Then(ReadLength(Head(w), Tail(w)), LAMBDA n, rest : ReadBytes(n, rest)) = Ok(s, more)

=============================================================================
