-------------------------------- MODULE MCWire --------------------------------
(***************************************************************************)
(* An instance of Wire for TLC: a compressed frame before small ones, one  *)
(* of which is no stanza.  And of Codec, for what a frame carries: strings *)
(* of up to three characters of every class the code tells apart, JIDs of  *)
(* every form, strings at the boundaries of the packed and the raw lengths.*)
(* And of Groups, whose changes come in frames: a creator and two others.  *)
(***************************************************************************)
EXTENDS GroupNotices, Codec

MCZipped    == {1}
MCMalformed == {3}

\* Codes: 103 is no hex digit, 200 to 204 are servers.
Chars == {48, Dash, 65, 103, At, Colon, Underscore}
Repeat(c, n) == [i \in 1..n |-> c]

MCSingle == << << 103 >>, WhatsAppServer >>
MCDouble == << << << 65, 65 >> >>, << << 48, 103 >>, << 204 >> >> >>

Users == { << >>, << 49, 48 >>, << 49, Colon, 53 >>, << 49, Colon, 48 >>, << Colon, 53 >>,
           << 49, Colon >>, << 49, Underscore, 50 >>, << 49, Underscore, 49, Colon, 53 >>,
           << 49, Colon, 50, 53, 53 >>, << 49, Colon, 50, 53, 54 >>, << 103, Colon, 103 >>,
           << 49, Colon, 53, Colon, 53 >>, << 49, Colon, 48, 53 >> }
Servers == { << >>, WhatsAppServer, LidServer, HostedServer, HostedLidServer, << 204 >>, << 103, 103 >>,
             << 103, At, 103 >>, << 103, At >> }

MCStrings ==
  { << >> } \cup (UNION { [1..n -> Chars] : n \in 1..3 })
  \cup { u \o << At >> \o s : u \in Users, s \in Servers }
  \cup { Repeat(c, n) : c \in {48, 65, 103}, n \in {126, 127, 128, 255, 256, 257} }

MCLengths == {0, 1, 255, 256, 65535, 65536, 2^20 - 1, 2^20, 2^24 + 5}

Content(kind, of) == [kind |-> kind, of |-> of]
Node(tag, attrs, content) == [tag |-> tag, attrs |-> attrs, content |-> content]
NoContent == Content("none", << >>)

Contents ==
  { NoContent, Content("nodes", << >>), Content("bytes", Repeat(7, 256)), Content("bytes", << >>),
    Content("string", << 48, Dash >>), Content("string", << 104, 105 >>), Content("string", << 103 >>),
    Content("string", << >>), Content("string", << 49, At, 204 >>) }
Leaves ==
  { Node(tag, attrs, c) :
      tag \in { << 103 >>, << 104 >> }, c \in Contents,
      attrs \in { << >>, << << << 65, 65 >>, << 49, Colon, 53, At >> \o LidServer >> >>,
                  << << << 104 >>, << >> >> >>,
                  << << << 104 >>, << 48 >> >>, << << 105 >>, << 104, 104 >> >> >> } }
MCNodes ==
  Leaves
  \cup { Node(<< 104 >>, << >>, Content("nodes", << a, b >>)) : a, b \in Leaves }
  \cup { Node(<< 104 >>, << >>, Content("nodes", << Node(<< 105 >>, << >>, Content("nodes", << a >>)) >>)) :
         a \in Leaves }
  \cup { Node(<< 104 >>, << >>, Content("nodes", Repeat(Node(<< 103 >>, << >>, NoContent), n))) :
         n \in {255, 256} }
  \cup { Node(<< 104 >>, [i \in 1..n |-> << Decimal(i), << 103 >> >>], c) :
         n \in {127, 128}, c \in {NoContent, Content("bytes", << 1 >>)} }

\* What the client is handed is what was written: for any stanza that frame n
\* may carry, every string, attribute, child and byte of it (see Codec).
StanzasReturn == \A n \in Range(delivered) : n \in MCMalformed \/ (StringsReturn /\ NodesReturn)

=============================================================================
