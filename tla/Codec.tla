--------------------------------- MODULE Codec ---------------------------------
(***************************************************************************)
(* The binary form of stanzas (encoder.ts, decoder.ts, jid.ts): what a     *)
(* frame of Wire carries.  Pure functions, recursive as the code's are;    *)
(* lengths, packed strings and the readers' answers are Packing's.         *)
(*                                                                         *)
(* A string is a sequence of character codes.  The name of a server the    *)
(* code compares with counts as one character (codes from LidServer on):   *)
(* nothing looks inside.  UTF-8 (the identity here) and zlib are external. *)
(***************************************************************************)
EXTENDS Naturals, Sequences, SequencesExt, Packing

CONSTANTS
  SingleTokens,   \* SINGLE_BYTE_TOKENS, from the one of byte 1 on
  DoubleTokens,   \* DOUBLE_BYTE_TOKENS: sequence of dictionaries
  Strings, Nodes, Lengths    \* what the properties try

DICTIONARY_0 == 236
AD_JID == 247
JID_PAIR == 250
At == 64
Colon == 58
Underscore == 95

WhatsAppServer == << 200 >>
LidServer == << 201 >>
HostedServer == << 202 >>
HostedLidServer == << 203 >>

\* WAJIDDomains of a server, and back; any other domain is WhatsApp's.
DomainOf(server) ==
  CASE server = LidServer -> 1 [] server = HostedServer -> 128
    [] server = HostedLidServer -> 129 [] OTHER -> 0
ServerOf(domain) ==
  CASE domain = 1 -> LidServer [] domain = 128 -> HostedServer
    [] domain = 129 -> HostedLidServer [] OTHER -> WhatsAppServer

-----------------------------------------------------------------------------
(***************************************************************************)
(* JIDs.                                                                   *)
(***************************************************************************)

Has(s, c) == \E i \in DOMAIN s : s[i] = c
Before(s, c) == IF Has(s, c) THEN SubSeq(s, 1, SelectInSeq(s, LAMBDA x : x = c) - 1) ELSE s
After(s, c) == SubSeq(s, SelectInSeq(s, LAMBDA x : x = c) + 1, Len(s))

\* A number, or 0 for NaN: every use of one is "|| 0".
Number(s) == IF \A i \in DOMAIN s : s[i] \in Digits
             THEN FoldLeft(LAMBDA n, c : 10 * n + (c - 48), 0, s) ELSE 0

RECURSIVE Decimal(_)
Decimal(n) == IF n < 10 THEN << 48 + n >> ELSE Append(Decimal(n \div 10), 48 + (n % 10))

\* jidDecode() of a string with an @.  An agent counts only where the server
\* says no domain; no device is undefined.
JidDecode(s) ==
  LET combined == Before(s, At)
      server   == After(s, At)
      device   == IF Has(combined, Colon) THEN Before(After(combined, Colon), Colon) ELSE << >>
      named    == Before(combined, Colon)
      agent    == IF Has(named, Underscore) THEN Before(After(named, Underscore), Underscore)
                  ELSE << >>
  IN  [ user |-> Before(named, Underscore), server |-> server,
        domain |-> IF DomainOf(server) = 0 THEN Number(agent) ELSE DomainOf(server),
        hasDevice |-> device # << >>, device |-> Number(device) ]

JidEncode(user, server, device) ==
  user \o (IF device > 0 THEN << Colon >> \o Decimal(device) ELSE << >>) \o << At >> \o server

-----------------------------------------------------------------------------
(***************************************************************************)
(* Writing.                                                                *)
(***************************************************************************)

\* A string that is in no dictionary is written as digits, a JID or raw; the
\* empty string writes nothing at all.
RECURSIVE WriteString(_)
WriteJid(j) ==
  IF j.hasDevice THEN << AD_JID, j.domain % 256, j.device % 256 >> \o WriteString(j.user)
  ELSE << JID_PAIR >> \o (IF j.user = << >> THEN << LIST_EMPTY >> ELSE WriteString(j.user))
       \o WriteString(j.server)
WriteString(s) ==
  LET in == { d \in DOMAIN DoubleTokens : s \in Range(DoubleTokens[d]) }
  IN  CASE in # {} -> LET d == CHOOSE d \in in : TRUE
                      IN  << DICTIONARY_0 + d - 1, SelectInSeq(DoubleTokens[d], LAMBDA t : t = s) - 1 >>
        [] in = {} /\ s \in Range(SingleTokens) -> << SelectInSeq(SingleTokens, LAMBDA t : t = s) >>
        [] OTHER -> CASE s = << >> -> << >>
                      [] IsNibble(s) -> WritePackedBytes(s, NIBBLE_8)
                      [] IsHex(s) /\ ~IsNibble(s) -> WritePackedBytes(s, HEX_8)
                      [] OTHER -> IF Has(s, At) THEN WriteJid(JidDecode(s)) ELSE WriteStringRaw(s)

\* A node: its tag, its attributes in order, and its content, of one of the
\* kinds "none", "string", "bytes" and "nodes".
RECURSIVE EncodeNode(_)
EncodeContent(c) ==
  CASE c.kind = "none" -> << >>
    [] c.kind = "string" -> WriteString(c.of)
    [] c.kind = "bytes" -> WriteStringRaw(c.of)
    [] c.kind = "nodes" -> WriteListStart(Len(c.of))
                           \o FlattenSeq([i \in DOMAIN c.of |-> EncodeNode(c.of[i])])
EncodeNode(n) ==
  WriteListStart(2 * Len(n.attrs) + 1 + IF n.content.kind = "none" THEN 0 ELSE 1)
  \o WriteString(n.tag)
  \o FlattenSeq([i \in DOMAIN n.attrs |-> WriteString(n.attrs[i][1]) \o WriteString(n.attrs[i][2])])
  \o EncodeContent(n.content)

Encode(n) == << 0 >> \o EncodeNode(n)

-----------------------------------------------------------------------------
(***************************************************************************)
(* Reading: each reader takes the bytes that are left and answers with a   *)
(* value and what is left then, or throws.                                 *)
(***************************************************************************)

RECURSIVE ReadString(_)
ReadJidPair(in) ==
  Then(ReadString(in), LAMBDA i, in2 :
    Then(ReadString(in2), LAMBDA j, rest :
      IF j = << >> THEN Thrown ELSE Ok(i \o << At >> \o j, rest)))
ReadAdJid(in) ==
  Then(ReadBytes(2, in), LAMBDA b, in2 :
    Then(ReadString(in2), LAMBDA user, rest : Ok(JidEncode(user, ServerOf(b[1]), b[2]), rest)))
ReadString(in) ==
  Then(ReadByte(in), LAMBDA tag, rest :
    CASE tag \in DOMAIN SingleTokens -> Ok(SingleTokens[tag], rest)
      [] tag \in DICTIONARY_0..(DICTIONARY_0 + 3) ->
           Then(ReadByte(rest), LAMBDA i, rest2 :
             LET d == tag - DICTIONARY_0 + 1
             IN  IF d \in DOMAIN DoubleTokens /\ i + 1 \in DOMAIN DoubleTokens[d]
                 THEN Ok(DoubleTokens[d][i + 1], rest2) ELSE Thrown)
      [] tag = LIST_EMPTY -> Ok(<< >>, rest)
      [] tag \in {BINARY_8, BINARY_20, BINARY_32} ->
           Then(ReadLength(tag, rest), LAMBDA n, rest2 : ReadBytes(n, rest2))
      [] tag = JID_PAIR -> ReadJidPair(rest)
      [] tag = AD_JID -> ReadAdJid(rest)
      [] tag \in {HEX_8, NIBBLE_8} -> ReadPacked8(tag, rest)
      [] OTHER -> Thrown)

RECURSIVE ReadNode(_)
\* n times what Read reads, one behind the other.
Times(n, Read(_), in) ==
  FoldLeft(LAMBDA acc, i : Then(acc, LAMBDA xs, rest :
             Then(Read(rest), LAMBDA x, rest2 : Ok(Append(xs, x), rest2))),
           Ok(<< >>, in), [i \in 1..n |-> i])
ReadAttr(in) ==
  Then(ReadString(in), LAMBDA key, in2 : Then(ReadString(in2), LAMBDA v, rest : Ok(<< key, v >>, rest)))
ReadContent(in) ==
  IF in = << >> THEN Thrown
  ELSE LET kind == CASE Head(in) \in ListTags -> "nodes"
                     [] Head(in) \in {BINARY_8, BINARY_20, BINARY_32} -> "bytes"
                     [] OTHER -> "string"
       IN  Then(IF kind = "nodes"
                THEN Then(ReadListSize(in), LAMBDA n, in2 : Times(n, ReadNode, in2))
                ELSE ReadString(in),
                LAMBDA c, rest : Ok([kind |-> kind, of |-> c], rest))
ReadNode(in) ==
  Then(ReadListSize(in), LAMBDA size, in2 :
    Then(ReadString(in2), LAMBDA header, in3 :
      IF size = 0 \/ header = << >> THEN Thrown
      ELSE Then(Times((size - 1) \div 2, ReadAttr, in3), LAMBDA attrs, in4 :
        Then(IF size % 2 = 0 THEN ReadContent(in4) ELSE Ok([kind |-> "none", of |-> << >>], in4),
             LAMBDA c, rest : Ok([tag |-> header, attrs |-> attrs, content |-> c], rest)))))

\* The flag of compression is not set by Encode; inflating is Wire's.
Decode(in) == Then(ReadByte(in), LAMBDA flags, rest : ReadNode(rest))

-----------------------------------------------------------------------------
(***************************************************************************)
(* What survives.                                                          *)
(***************************************************************************)

\* A string without an @ does, unless it is empty.  A JID does as user@server,
\* or with a device from 1 to 255 of one of the four servers that have a
\* domain: an agent is lost, and so is the server of a group's "device".
RECURSIVE Survives(_)
Survives(s) ==
  LET user == Before(s, At)  server == After(s, At)
  IN  /\ s # << >>
      /\ Has(s, At) =>
           \/ ~Has(user, Colon) /\ ~Has(user, Underscore) /\ Survives(server)
           \/ /\ server \in {WhatsAppServer, LidServer, HostedServer, HostedLidServer}
              /\ Before(user, Colon) # << >> /\ ~Has(Before(user, Colon), Underscore)
              /\ After(user, Colon) \in {Decimal(d) : d \in 1..255}

\* What is written is read back, and reading stops where it ends, for the
\* strings that survive and for no other: an empty one, which writes nothing,
\* shifts all that follows (encoder.ts:206).  Lengths of strings and lists too,
\* at every boundary of their three forms.
Tails == { << >>, << 0, 7, 252 >> }
StringsReturn ==
  /\ \A s \in Strings, more \in Tails :
       (ReadString(WriteString(s) \o more) = Ok(s, more)) <=> Survives(s)
  /\ \A n \in Lengths, more \in Tails :
       LengthReturns(n, more) /\ (n <= LongestList => ListSizeReturns(n, more))

\* A content string comes back as bytes, unless it was packed or a token.
AsRead(c) ==
  IF c.kind = "string" /\ Head(WriteString(c.of)) \in {BINARY_8, BINARY_20, BINARY_32}
  THEN [c EXCEPT !.kind = "bytes"] ELSE c

\* A stanza whose strings survive is read back, children, attributes and all,
\* down to the last byte.
RECURSIVE NodeAsRead(_)
NodeAsRead(n) ==
  [n EXCEPT !.content = IF @.kind = "nodes" THEN [@ EXCEPT !.of = [i \in DOMAIN @ |-> NodeAsRead(@[i])]]
                        ELSE AsRead(@)]
RECURSIVE Sound(_)
Sound(n) ==
  /\ Survives(n.tag) /\ \A i \in DOMAIN n.attrs : Survives(n.attrs[i][1]) /\ Survives(n.attrs[i][2])
  /\ n.content.kind = "string" => Survives(n.content.of)
  /\ n.content.kind = "nodes" => \A i \in DOMAIN n.content.of : Sound(n.content.of[i])
NodesReturn == \A n \in Nodes : Sound(n) => Decode(Encode(n)) = Ok(NodeAsRead(n), << >>)

=============================================================================
