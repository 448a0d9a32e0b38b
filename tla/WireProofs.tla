------------------------------ MODULE WireProofs ------------------------------
(***************************************************************************)
(* Proofs about Wire, for any number of frames and stanzas, any cutting of *)
(* the byte stream, and any of the frames compressed or malformed.         *)
(***************************************************************************)
EXTENDS GroupNotices, Packing, SequenceTheorems, FiniteSetTheorems, WellFoundedInduction, TLAPS

-----------------------------------------------------------------------------
(***************************************************************************)
(* The way up: the client's ciphertexts and the pairs the server expects.  *)
(***************************************************************************)

\* The Noise state during the handshake, and after it.
Noise == [epoch : Nat, read : Nat, write : Nat, finished : BOOLEAN]
Handshaking(nz, e, w) == nz \in Noise /\ nz.epoch = e /\ nz.read = 0 /\ nz.write = w /\ ~nz.finished
Keyed == { nz \in Noise : nz.epoch = Transport /\ nz.finished }

HelloSent   == [type |-> "hello"]
FinishSent  == [type |-> "finish", static |-> << 2, 1 >>, payload |-> << 3, 0 >>]
FrameSent   == [type : {"frame"}, seal : {Transport} \X Nat]
FrameOf(n)  == [type |-> "frame", seal |-> << Transport, n >>]
Upward      == {HelloSent, FinishSent} \cup FrameSent
Server      == [phase : {"hello", "finish", "open"}, read : Nat, sent : Nat, broken : BOOLEAN]

Watch       == [on : BOOLEAN, ticks : Nat, quiet : Nat, reported : BOOLEAN]

NoiseInv ==
  /\ \/ phase \in {"dial", "connect", "hello", "failed"} /\ Handshaking(noise, 0, 0)
     \/ phase = "finish" /\ Handshaking(noise, 3, 1)
     \/ phase = "open" /\ noise \in Keyed
  /\ watch \in Watch /\ (watch.on => phase = "open")

\* How many frames the client sealed under the transport keys.
Sealings == IF phase = "open" THEN noise.write ELSE 0

\* The frames under way are those that the server expects next, in order.
UpInv ==
  /\ up \in Seq(Upward) /\ srv \in Server /\ ~srv.broken
  /\ srv.phase # "open" => srv.read = 0
  /\ \/ phase \in {"dial", "connect"} /\ srv.phase = "hello" /\ up = << >>
     \/ phase \in {"hello", "failed"} /\ srv.phase = "hello" /\ up \in {<< >>, << HelloSent >>}
     \/ phase \in {"hello", "failed"} /\ srv.phase = "finish" /\ up = << >>
     \/ /\ phase \in {"finish", "open"} /\ srv.phase = "finish"
        /\ Len(up) = Sealings + 1 /\ up[1] = FinishSent
        /\ \A i \in 1..Len(up) : i > 1 => up[i] = FrameOf(i - 2)
     \/ /\ phase \in {"finish", "open"} /\ srv.phase = "open"
        /\ srv.read + Len(up) = Sealings
        /\ \A i \in 1..Len(up) : up[i] = FrameOf(srv.read + i - 1)

-----------------------------------------------------------------------------
(***************************************************************************)
(* The way down: a piece has a position in the byte stream, and messages   *)
(* are stretches of it.                                                    *)
(***************************************************************************)

Piece  == [frame : Nat \ {0}, part : {1, 2}]
Pos(x) == 2 * x.frame + x.part

\* The pieces of s are those after position p.
Run(s, p) == \A i \in 1..Len(s) : Pos(s[i]) = p + i

Bytes    == [type : {"pieces"}, pieces : Seq(Piece)]
Greeting == [type : {"hello"}, static : {<< 1, 0 >>}, payload : {<< 2, 0 >>}, genuine : BOOLEAN]

Start(m) == Pos(m.pieces[1]) - 1
End(m)   == Start(m) + Len(m.pieces)

\* The messages of ms are the stream between two positions.
Stream(ms, p, q) ==
  /\ \A j \in 1..Len(ms) : ms[j] \in Bytes /\ Len(ms[j].pieces) > 0 /\ Run(ms[j].pieces, Start(ms[j]))
  /\ \A j \in 1..Len(ms) : Start(ms[j]) = IF j = 1 THEN p ELSE End(ms[j - 1])
  /\ q = IF ms = << >> THEN p ELSE End(ms[Len(ms)])

\* Where the client is: past the frames it opened and what it holds.
ReadTo == 2 * noise.read + 2 + Len(inBytes)

Pieced(s) == [type |-> "pieces", pieces |-> s]

Errors == [decrypt : BOOLEAN, decode : BOOLEAN, unheard : BOOLEAN]

DownInv ==
  /\ down \in Seq(Bytes \cup Greeting) /\ inBytes \in Seq(Piece) /\ errors \in Errors
  /\ phase # "open" => inBytes = << >> /\ decoding = << >> /\ delivered = << >>
  /\ \/ srv.phase = "hello" /\ srv.sent = 0 /\ down = << >>
     \/ /\ srv.phase = "finish" /\ srv.sent = 0
        /\ down = << >> \/ (phase \in {"hello", "failed"} /\ \E m \in Greeting : down = << m >>)
     \/ srv.phase = "open" /\ down \in Seq(Bytes)

\* Unless a message went unheard, the client holds what follows the frames it
\* opened, and the messages under way go on from there to what was sent.
StreamInv ==
  ~errors.unheard =>
    /\ ~errors.decrypt
    /\ Run(inBytes, 2 * noise.read + 2)
    /\ srv.phase # "open" => ReadTo = 2
    /\ srv.phase = "open" => Stream(down, ReadTo, 2 * srv.sent + 2)

-----------------------------------------------------------------------------
(***************************************************************************)
(* The order of delivery.                                                  *)
(***************************************************************************)

\* One frame is ahead of another that may come after it.
MayFollow(n, m) == n < m \/ (m \in ZippedFrames /\ n # m)

\* Of n frames opened, dec are decoding in the order they were opened, and
\* what was handed on may come before each of them.
Ordered(dec, done, n) ==
  /\ dec \in Seq(Nat) /\ done \in Seq(Nat)
  /\ \A i \in 1..Len(dec) : dec[i] <= n
  /\ \A i \in 1..Len(done) : done[i] <= n
  /\ \A i, j \in 1..Len(dec) : i < j => dec[i] < dec[j]
  /\ \A i \in 1..Len(done) : \A j \in 1..Len(dec) : MayFollow(done[i], dec[j])
  /\ \A i, j \in 1..Len(done) : i < j => MayFollow(done[i], done[j])

OrderInv == Ordered(decoding, delivered, noise.read)

WireInv == NoiseInv /\ UpInv /\ DownInv /\ StreamInv /\ OrderInv

-----------------------------------------------------------------------------

\* A ciphertext sealed or opened during the handshake, and a key mixed in.
LEMMA WrittenHandshaking ==
  ASSUME NEW nz, NEW e, NEW w \in Nat, NEW v \in Nat, v = w + 1, Handshaking(nz, e, w)
  PROVE  Handshaking(Written(nz), e, v)
BY DEF Handshaking, Noise, Written

LEMMA OpenedHandshaking ==
  ASSUME NEW nz, NEW e, NEW w \in Nat, NEW v \in Nat, v = w + 1, Handshaking(nz, e, w)
  PROVE  Handshaking(Opened(nz), e, v)
BY DEF Handshaking, Noise, Opened

LEMMA MixIntoKeyHandshaking ==
  ASSUME NEW nz, NEW e \in Nat, NEW f \in Nat, f = e + 1, NEW w, Handshaking(nz, e, w)
  PROVE  Handshaking(MixIntoKey(nz), f, 0)
<1>0. nz \in Noise /\ nz.epoch = e /\ ~nz.finished
  BY DEF Handshaking
<1> DEFINE a == [nz EXCEPT !.epoch = @ + 1]
           b == [a EXCEPT !.read = 0]
           c == [b EXCEPT !.write = 0]
<1>1. a \in Noise /\ a.epoch = f /\ a.finished = nz.finished
  BY <1>0 DEF Noise
<1> HIDE DEF a
<1>2. b \in Noise /\ b.epoch = f /\ b.read = 0 /\ b.finished = nz.finished
  BY <1>1 DEF Noise
<1> HIDE DEF b
<1>3. c \in Noise /\ c.epoch = f /\ c.read = 0 /\ c.write = 0 /\ c.finished = nz.finished
  BY <1>2 DEF Noise
<1>4. MixIntoKey(nz) = c
  BY DEF MixIntoKey, a, b
<1> HIDE DEF c
<1> QED
  BY <1>0, <1>3, <1>4 DEF Handshaking

\* processHandshake() as a whole.
LEMMA HandshakeResult ==
  ASSUME NEW nz, Handshaking(nz, 0, 0)
  PROVE  Handshaking(OurKey(nz), 2, 1) /\ Handshaking(Processed(nz), 3, 0)
<1>1. Handshaking(MixIntoKey(nz), 1, 0)
  BY MixIntoKeyHandshaking
<1>2. Handshaking(Opened(MixIntoKey(nz)), 1, 1)
  BY <1>1, OpenedHandshaking
<1>3. Handshaking(AfterStatic(nz), 2, 0)
  BY <1>2, MixIntoKeyHandshaking DEF AfterStatic
<1>4. Handshaking(OurKey(nz), 2, 1)
  BY <1>3, OpenedHandshaking DEF OurKey
<1>5. Handshaking(Written(OurKey(nz)), 2, 2)
  BY <1>4, WrittenHandshaking
<1>6. Handshaking(Processed(nz), 3, 0)
  BY <1>5, MixIntoKeyHandshaking DEF Processed
<1> QED
  BY <1>4, <1>6

\* The three outcomes of a turn.
TurnIdle(bytes, dec) ==
  /\ ~Whole(bytes)
  /\ inBytes' = bytes /\ decoding' = dec /\ noise' = noise /\ errors' = errors

TurnOpens(bytes, dec) ==
  /\ Whole(bytes) /\ bytes[1].frame = noise.read + 1
  /\ inBytes' = SubSeq(bytes, 3, Len(bytes)) /\ decoding' = Append(dec, noise.read + 1)
  /\ noise' = [noise EXCEPT !.read = @ + 1] /\ errors' = errors

TurnThrows(bytes, dec) ==
  /\ Whole(bytes) /\ bytes[1].frame # noise.read + 1
  /\ inBytes' = SubSeq(bytes, 3, Len(bytes)) /\ decoding' = dec
  /\ noise' = noise /\ errors' = [errors EXCEPT !.decrypt = TRUE]

LEMMA TurnCases ==
  ASSUME NEW bytes \in Seq(Piece), NEW dec, noise \in Keyed, errors \in Errors, TakeTurn(bytes, dec)
  PROVE  TurnIdle(bytes, dec) \/ TurnOpens(bytes, dec) \/ TurnThrows(bytes, dec)
<1>0. /\ noise.finished /\ noise.epoch = Transport /\ noise.read \in Nat
      /\ errors.decrypt \in BOOLEAN
  BY DEF Keyed, Noise, Errors
<1>1. errors = [errors EXCEPT !.decrypt = @ \/ FALSE]
  BY <1>0 DEF Errors
<1>2. errors' = [errors EXCEPT !.decrypt = @ \/ Turn(bytes, dec).threw]
      /\ inBytes' = Turn(bytes, dec).bytes /\ decoding' = Turn(bytes, dec).dec
      /\ noise' = Turn(bytes, dec).nz
  BY DEF TakeTurn
<1>3. CASE ~Whole(bytes)
  <2>1. Turn(bytes, dec) = [bytes |-> bytes, dec |-> dec, nz |-> noise, threw |-> FALSE]
    BY <1>3 DEF Turn
  <2>2. /\ Turn(bytes, dec).bytes = bytes /\ Turn(bytes, dec).dec = dec
        /\ Turn(bytes, dec).nz = noise /\ Turn(bytes, dec).threw = FALSE
    BY <2>1
  <2> QED
    BY <1>1, <1>2, <1>3, <2>2 DEF TurnIdle
<1>4. CASE Whole(bytes)
  <2> DEFINE frame == bytes[1].frame
             rest == SubSeq(bytes, 3, Len(bytes))
  <2>1. Len(bytes) \in Nat /\ Len(bytes) >= 2
    BY <1>4, LenProperties DEF Whole
  <2>2. bytes[1] \in Piece
    BY <2>1, ElementOfSeq
  <2>3. frame \in Nat \ {0}
    BY <2>2 DEF Piece
  <2>4. Turn(bytes, dec) = IF Opens(noise, << Transport, frame - 1 >>)
           THEN [bytes |-> rest, dec |-> Append(dec, frame), nz |-> Opened(noise), threw |-> FALSE]
           ELSE [bytes |-> rest, dec |-> dec, nz |-> noise, threw |-> TRUE]
    BY <1>4 DEF Turn
  <2>5. Opens(noise, << Transport, frame - 1 >>) <=> frame = noise.read + 1
    BY <1>0, <2>3 DEF Opens
  <2>6. Opened(noise) = [noise EXCEPT !.read = @ + 1]
    BY <1>0 DEF Opened
  <2>7. CASE frame = noise.read + 1
    <3>1. Turn(bytes, dec) = [bytes |-> rest, dec |-> Append(dec, noise.read + 1),
                              nz |-> Opened(noise), threw |-> FALSE]
      BY <2>4, <2>5, <2>7
    <3>2. /\ Turn(bytes, dec).bytes = rest /\ Turn(bytes, dec).dec = Append(dec, noise.read + 1)
          /\ Turn(bytes, dec).nz = Opened(noise) /\ Turn(bytes, dec).threw = FALSE
      BY <3>1
    <3>3. errors' = errors
      BY <1>1, <1>2, <3>2
    <3>4. noise' = [noise EXCEPT !.read = @ + 1] /\ inBytes' = rest
          /\ decoding' = Append(dec, noise.read + 1)
      BY <1>2, <2>6, <3>2
    <3>5. TurnOpens(bytes, dec)
      BY <1>4, <2>7, <3>3, <3>4 DEF TurnOpens
    <3> QED
      BY <3>5
  <2>8. CASE frame # noise.read + 1
    <3>1. Turn(bytes, dec) = [bytes |-> rest, dec |-> dec, nz |-> noise, threw |-> TRUE]
      BY <2>4, <2>5, <2>8
    <3>2. /\ Turn(bytes, dec).bytes = rest /\ Turn(bytes, dec).dec = dec
          /\ Turn(bytes, dec).nz = noise /\ Turn(bytes, dec).threw = TRUE
      BY <3>1
    <3>3. errors' = [errors EXCEPT !.decrypt = TRUE]
      BY <1>2, <3>2
    <3>4. TurnThrows(bytes, dec)
      BY <1>2, <1>4, <2>8, <3>2, <3>3 DEF TurnThrows
    <3> QED
      BY <3>4
  <2> QED
    BY <2>7, <2>8
<1> QED
  BY <1>3, <1>4

LEMMA WireInit == Init => WireInv
<1> SUFFICES ASSUME Init PROVE WireInv
  OBVIOUS
<1>1. NoiseInv
  BY DEF Init, NoiseInv, Handshaking, Noise, Watch
<1>2. UpInv
  BY EmptySeq DEF Init, UpInv, Server
<1>3. DownInv
  BY EmptySeq DEF Init, DownInv, Errors
<1>4. StreamInv
  BY EmptySeq DEF Init, StreamInv, Run, ReadTo
<1>5. OrderInv
  BY EmptySeq DEF Init, OrderInv, Ordered
<1> QED
  BY <1>1, <1>2, <1>3, <1>4, <1>5 DEF WireInv

\* Deliveries and turns happen on an open connection only.
LEMMA DeliverOpen ==
  ASSUME WireInv, NEW i \in 1..MaxFrames, Deliver(i)
  PROVE  phase = "open" /\ noise \in Keyed
<1>1. decoding # << >>
  BY EmptySeq DEF Deliver
<1> QED
  BY <1>1 DEF WireInv, DownInv, NoiseInv

LEMMA RemoveAtProperties ==
  ASSUME NEW S, NEW s \in Seq(S), NEW i \in 1..Len(s)
  PROVE  /\ RemoveAt(s, i) \in Seq(S) /\ Len(RemoveAt(s, i)) = Len(s) - 1
         /\ \A j \in 1..Len(s) - 1 : RemoveAt(s, i)[j] = IF j < i THEN s[j] ELSE s[j + 1]
<1> DEFINE a == SubSeq(s, 1, i - 1)
           b == SubSeq(s, i + 1, Len(s))
<1>1. Len(s) \in Nat /\ i \in Nat
  BY LenProperties
<1>2. \A j \in 1..Len(s) : s[j] \in S
  BY ElementOfSeq
<1>3. a \in Seq(S) /\ Len(a) = i - 1 /\ \A j \in 1..i - 1 : a[j] = s[j]
  <2>1. \A j \in 1..(i - 1) : s[j] \in S
    BY <1>1, <1>2
  <2>2. 1 \in Int /\ i - 1 \in Int
    BY <1>1
  <2> HIDE DEF a
  <2>3. /\ a \in Seq(S) /\ Len(a) = IF 1 <= i - 1 THEN (i - 1) - 1 + 1 ELSE 0
        /\ \A j \in 1 .. (i - 1) - 1 + 1 : a[j] = s[1 + j - 1]
    BY <2>1, <2>2, SubSeqProperties DEF a
  <2> QED
    BY <1>1, <2>3
<1>4. b \in Seq(S) /\ Len(b) = Len(s) - i /\ \A j \in 1..Len(s) - i : b[j] = s[i + j]
  <2>1. \A j \in (i + 1)..Len(s) : s[j] \in S
    BY <1>1, <1>2
  <2>2. i + 1 \in Int /\ Len(s) \in Int
    BY <1>1
  <2> HIDE DEF b
  <2>3. /\ b \in Seq(S) /\ Len(b) = IF i + 1 <= Len(s) THEN Len(s) - (i + 1) + 1 ELSE 0
        /\ \A j \in 1 .. Len(s) - (i + 1) + 1 : b[j] = s[(i + 1) + j - 1]
    BY <2>1, <2>2, SubSeqProperties DEF b
  <2> QED
    BY <1>1, <2>3
<1> HIDE DEF a, b
<1>5. RemoveAt(s, i) = a \o b
  BY DEF RemoveAt, a, b
<1>6. /\ a \o b \in Seq(S) /\ Len(a \o b) = Len(s) - 1
      /\ \A j \in 1..Len(s) - 1 : (a \o b)[j] = IF j <= i - 1 THEN a[j] ELSE b[j - (i - 1)]
  <2>1. a \in Seq(S) /\ b \in Seq(S)
    BY <1>3, <1>4
  <2>2. /\ a \o b \in Seq(S) /\ Len(a \o b) = Len(a) + Len(b)
        /\ \A j \in 1..Len(a) + Len(b) :
             (a \o b)[j] = IF j <= Len(a) THEN a[j] ELSE b[j - Len(a)]
    BY ONLY <2>1, ConcatProperties
  <2>3. Len(a) = i - 1 /\ Len(b) = Len(s) - i /\ (i - 1) + (Len(s) - i) = Len(s) - 1
    BY <1>1, <1>3, <1>4
  <2> QED
    BY <2>2, <2>3
<1>7. ASSUME NEW j \in 1..Len(s) - 1 PROVE (a \o b)[j] = IF j < i THEN s[j] ELSE s[j + 1]
  <2>1. CASE j <= i - 1
    BY <1>1, <1>3, <1>6, <2>1
  <2>2. CASE ~(j <= i - 1)
    <3>1. (a \o b)[j] = b[j - (i - 1)] /\ j - (i - 1) \in 1..Len(s) - i /\ i + (j - (i - 1)) = j + 1
      BY <1>1, <1>6, <2>2
    <3> QED
      BY <1>1, <1>4, <2>2, <3>1
  <2> QED
    BY <2>1, <2>2
<1> QED
  BY <1>5, <1>6, <1>7

\* What the pump takes up.
LEMMA ReceivedPieces ==
  ASSUME WireInv, Receive, phase = "open"
  PROVE  /\ down[1] \in Bytes /\ down \in Seq(Bytes) /\ srv.phase = "open"
         /\ inBytes \o down[1].pieces \in Seq(Piece)
<1>1. down # << >> /\ down[1].type = "pieces"
  BY DEF Receive
<1>2. srv.phase = "open" /\ down \in Seq(Bytes) /\ inBytes \in Seq(Piece)
  BY <1>1 DEF WireInv, DownInv
<1>3. 1 \in 1..Len(down)
  BY <1>1, <1>2, EmptySeq
<1>4. down[1] \in Bytes
  BY <1>2, <1>3, ElementOfSeq
<1>5. down[1].pieces \in Seq(Piece)
  BY <1>4 DEF Bytes
<1> QED
  BY <1>2, <1>4, <1>5, ConcatProperties

LEMMA NoiseStep ==
  ASSUME WireInv, [Next]_vars
  PROVE  NoiseInv'
<1>0. NoiseInv /\ errors \in Errors /\ inBytes \in Seq(Piece)
  BY DEF WireInv, DownInv
\* Sealing and opening on an open connection.
<1>1. ASSUME phase = "open", phase' = "open", noise' = noise \/ noise' = Written(noise), watch' \in Watch
      PROVE  NoiseInv'
  <2>1. noise \in Keyed
    BY <1>0, <1>1 DEF NoiseInv
  <2>2. noise' \in Keyed
    BY <1>1, <2>1 DEF Keyed, Noise, Written
  <2> QED
    BY <1>1, <2>2 DEF NoiseInv
<1>2. ASSUME phase = "open", phase' = "open", watch' \in Watch, NEW bytes \in Seq(Piece), NEW dec,
             TakeTurn(bytes, dec)
      PROVE  NoiseInv'
  <2>1. noise \in Keyed
    BY <1>0, <1>2 DEF NoiseInv
  <2>2. noise' = noise \/ noise' = [noise EXCEPT !.read = @ + 1]
    BY <1>0, <1>2, <2>1, TurnCases DEF TurnIdle, TurnOpens, TurnThrows
  <2>3. noise' \in Keyed
    BY <2>1, <2>2 DEF Keyed, Noise
  <2> QED
    BY <1>2, <2>3 DEF NoiseInv
<1>3. CASE SocketOpens \/ DialFails \/ Hello \/ HelloUnsent \/ HelloTimeout
  BY <1>0, <1>3 DEF NoiseInv, SocketOpens, DialFails, Hello, HelloUnsent, HelloTimeout
<1>4. CASE Finish
  <2>1. phase = "hello" /\ Handshaking(noise, 0, 0) /\ watch' = watch
    BY <1>0, <1>4 DEF Finish, NoiseInv
  <2>2. Handshaking(Written(Processed(noise)), 3, 1)
    BY <2>1, HandshakeResult, WrittenHandshaking
  <2>3. \/ phase' = "failed" /\ noise' = noise
        \/ phase' = "finish" /\ noise' = Written(Processed(noise))
    BY <1>4 DEF Finish
  <2> QED
    BY <1>0, <2>1, <2>2, <2>3 DEF NoiseInv
<1>5. CASE Open
  <2>1. phase' = "open" /\ noise' = FinishInit(noise) /\ watch' \in Watch /\ Handshaking(noise, 3, 1)
    BY <1>0, <1>5 DEF Open, NoiseInv, Watch
  <2>2. Handshaking(MixIntoKey(noise), 4, 0)
    BY <2>1, MixIntoKeyHandshaking
  <2>3. FinishInit(noise) \in Keyed
    BY <2>2 DEF FinishInit, Handshaking, Keyed, Noise, Transport
  <2> QED
    BY <2>1, <2>3 DEF NoiseInv
<1>6. CASE Receive
  <2>1. CASE phase = "open"
    <3>1. watch' \in Watch /\ phase' = "open"
      BY <1>0, <1>6, <2>1 DEF Receive, NoiseInv, Watch
    <3>2. TakeTurn(inBytes \o down[1].pieces, decoding)
      BY <1>6, <2>1 DEF Receive
    <3>3. inBytes \o down[1].pieces \in Seq(Piece)
      BY <1>6, <2>1, ReceivedPieces
    <3> QED
      BY <1>2, <2>1, <3>1, <3>2, <3>3
  <2>2. CASE phase # "open"
    BY <1>0, <1>6, <2>2 DEF Receive, NoiseInv
  <2> QED
    BY <2>1, <2>2
<1>7. ASSUME NEW i \in 1..MaxFrames, Deliver(i) PROVE NoiseInv'
  <2>1. phase = "open" /\ phase' = "open" /\ watch' = watch
    BY <1>7, DeliverOpen DEF Deliver
  <2>2. noise' = noise \/ TakeTurn(inBytes, RemoveAt(decoding, i))
    BY <1>7 DEF Deliver, NextTurn
  <2>3. watch' \in Watch
    BY <1>0, <2>1 DEF NoiseInv
  <2> QED
    BY <1>0, <1>1, <1>2, <2>1, <2>2, <2>3
<1>8. CASE SendNode
  BY <1>0, <1>1, <1>8 DEF SendNode, SendFrame, NoiseInv
<1>9. CASE Tick
  <2>1. phase = "open" /\ phase' = "open" /\ watch \in Watch /\ watch.on
    BY <1>0, <1>9 DEF Tick, NoiseInv
  <2>2. noise' = noise \/ noise' = Written(noise)
    BY <1>9 DEF Tick, SendFrame
  <2> DEFINE quiet == IF watch.quiet > Interval + Grace THEN watch.quiet ELSE watch.quiet + 1
             ticks == (watch.ticks + 1) % Interval
  <2>3. quiet \in Nat /\ ticks \in Nat
    BY <2>1, WireAssumption DEF Watch
  <2>4. \/ watch' = [watch EXCEPT !.ticks = ticks, !.quiet = quiet]
        \/ watch' = [watch EXCEPT !.ticks = ticks, !.quiet = quiet, !.reported = TRUE]
    BY <1>9 DEF Tick, AfterPing
  <2> HIDE DEF quiet, ticks
  <2>5. watch' \in Watch
    BY <2>1, <2>3, <2>4 DEF Watch
  <2> QED
    BY <1>1, <2>1, <2>2, <2>5
<1>10. CASE Dispose
  <2>1. phase = "open" /\ phase' = "open" /\ noise' = noise
    BY <1>10 DEF Dispose
  <2>2. watch' \in Watch
    BY <1>0, <1>10 DEF Dispose, NoiseInv, Watch
  <2> QED
    BY <1>1, <2>1, <2>2
<1>11. CASE Closes
  BY <1>0, <1>11 DEF Closes, NoiseInv, Watch
<1>12. CASE ServerHello \/ ServerReads \/ ServerSends \/ UNCHANGED vars
  BY <1>0, <1>12 DEF ServerHello, ServerReads, ServerSends, NoiseInv, vars
<1> QED
  BY <1>3, <1>4, <1>5, <1>6, <1>7, <1>8, <1>9, <1>10, <1>11, <1>12 DEF Next

\* What is sealed next is what the server expects after all that is under way.
LEMMA SealsNext ==
  ASSUME WireInv, phase = "open", SendFrame, UNCHANGED << phase, srv >>
  PROVE  UpInv'
<1>1. noise \in Keyed /\ up \in Seq(Upward) /\ srv \in Server /\ srv.read \in Nat
  BY DEF WireInv, NoiseInv, UpInv, Server
<1>2. noise.write \in Nat /\ noise'.write = noise.write + 1 /\ noise.epoch = Transport
  BY <1>1 DEF Keyed, Noise, SendFrame, Written
<1>3. up' = Append(up, FrameOf(noise.write))
  BY <1>2 DEF SendFrame, Sealed, FrameOf
<1>4. FrameOf(noise.write) \in Upward
  BY <1>2 DEF FrameOf, Upward, FrameSent
<1>5. /\ up' \in Seq(Upward) /\ Len(up') = Len(up) + 1 /\ Len(up) \in Nat
      /\ \A i \in 1..Len(up) : up'[i] = up[i]
      /\ up'[Len(up) + 1] = FrameOf(noise.write)
  BY <1>1, <1>3, <1>4, AppendProperties, LenProperties
<1>6. Sealings' = Sealings + 1 /\ Sealings = noise.write
  BY <1>2 DEF Sealings
<1>7. CASE srv.phase = "finish"
  <2>1. /\ srv.read = 0 /\ Len(up) = noise.write + 1 /\ up[1] = FinishSent
        /\ \A i \in 1..Len(up) : i > 1 => up[i] = FrameOf(i - 2)
    BY <1>6, <1>7 DEF WireInv, UpInv
  <2>2. Len(up') = Sealings' + 1 /\ up'[1] = FinishSent
    BY <1>2, <1>5, <1>6, <2>1, SMTT(30)
  <2>3. ASSUME NEW i \in 1..Len(up'), i > 1 PROVE up'[i] = FrameOf(i - 2)
    <3>1. CASE i \in 1..Len(up)
      BY <1>5, <2>1, <2>3, <3>1
    <3>2. CASE i = Len(up) + 1
      <4>1. i - 2 = noise.write
        BY <1>2, <2>1, <3>2
      <4> QED
        BY <1>5, <3>2, <4>1
    <3> QED
      BY <1>5, <3>1, <3>2
  <2> QED
    BY <1>1, <1>5, <1>7, <2>1, <2>2, <2>3 DEF WireInv, UpInv
<1>8. CASE srv.phase = "open"
  <2>1. /\ srv.read + Len(up) = noise.write
        /\ \A i \in 1..Len(up) : up[i] = FrameOf(srv.read + i - 1)
    BY <1>6, <1>8 DEF WireInv, UpInv
  <2>2. srv.read + Len(up') = Sealings'
    BY <1>1, <1>5, <1>6, <2>1
  <2>3. ASSUME NEW i \in 1..Len(up') PROVE up'[i] = FrameOf(srv.read + i - 1)
    <3>1. CASE i \in 1..Len(up)
      BY <1>5, <2>1, <3>1
    <3>2. CASE i = Len(up) + 1
      <4>1. srv.read + i - 1 = noise.write
        BY <1>1, <1>5, <2>1, <3>2
      <4> QED
        BY <1>5, <3>2, <4>1
    <3> QED
      BY <1>5, <3>1, <3>2
  <2> QED
    BY <1>1, <1>5, <1>8, <2>2, <2>3 DEF WireInv, UpInv
<1> QED
  BY <1>7, <1>8 DEF WireInv, UpInv

LEMMA UpStep ==
  ASSUME WireInv, [Next]_vars
  PROVE  UpInv'
<1>0. UpInv /\ NoiseInv /\ up \in Seq(Upward) /\ srv \in Server /\ Len(up) \in Nat
  BY LenProperties DEF WireInv, UpInv
\* Nothing goes up and nothing is read.
<1>1. ASSUME UNCHANGED << up, srv, phase >>, phase = "open" => noise'.write = noise.write
      PROVE  UpInv'
  BY <1>0, <1>1 DEF UpInv, Sealings
<1>2. ASSUME phase = "open", NEW bytes \in Seq(Piece), NEW dec, TakeTurn(bytes, dec), UNCHANGED << up, srv, phase >>
      PROVE  UpInv'
  <2>1. noise \in Keyed
    BY <1>0, <1>2 DEF NoiseInv
  <2>2. noise' = noise \/ noise' = [noise EXCEPT !.read = @ + 1]
    BY <1>2, <2>1, TurnCases DEF TurnIdle, TurnOpens, TurnThrows, WireInv, DownInv
  <2>3. noise'.write = noise.write
    BY <2>1, <2>2 DEF Keyed, Noise
  <2> QED
    BY <1>1, <1>2, <2>3
<1>3. CASE SocketOpens \/ DialFails \/ HelloUnsent \/ HelloTimeout
  BY <1>0, <1>3 DEF UpInv, SocketOpens, DialFails, HelloUnsent, HelloTimeout
<1>4. CASE Hello
  <2>1. phase' = "hello" /\ srv' = srv /\ srv.phase = "hello" /\ up' = << HelloSent >>
    BY <1>0, <1>4 DEF Hello, UpInv, HelloSent
  <2>2. up' \in Seq(Upward)
    BY <2>1 DEF Upward
  <2> QED
    BY <1>0, <2>1, <2>2 DEF UpInv
<1>5. CASE Finish
  <2>1. phase = "hello" /\ srv' = srv /\ down # << >> /\ Handshaking(noise, 0, 0)
    BY <1>0, <1>5 DEF Finish, NoiseInv
  <2>2. srv.phase = "finish" /\ up = << >>
    BY <1>0, <2>1 DEF UpInv, WireInv, DownInv
  <2>3. CASE phase' = "failed" /\ up' = up
    BY <1>0, <2>1, <2>2, <2>3 DEF UpInv
  <2>4. CASE phase' = "finish" /\ up' = Append(up, [type |-> "finish", static |-> Sealed(OurKey(noise)),
                                                   payload |-> Sealed(Processed(noise))])
    <3>1. Sealed(OurKey(noise)) = << 2, 1 >> /\ Sealed(Processed(noise)) = << 3, 0 >>
      BY <2>1, HandshakeResult DEF Handshaking, Sealed
    <3>2. up' = << FinishSent >>
      BY <2>2, <2>4, <3>1 DEF FinishSent
    <3>3. up' \in Seq(Upward) /\ Len(up') = 1 /\ up'[1] = FinishSent
      BY <3>2 DEF Upward
    <3>4. Sealings' = 0
      BY <2>4 DEF Sealings
    <3>5. srv.read = 0
      BY <1>0, <2>2 DEF UpInv
    <3> QED
      BY <1>0, <2>1, <2>2, <2>4, <3>3, <3>4, <3>5 DEF UpInv
  <2> QED
    BY <1>5, <2>3, <2>4 DEF Finish
<1>6. CASE Open
  <2>1. phase = "finish" /\ phase' = "open" /\ UNCHANGED << up, srv >> /\ Handshaking(noise, 3, 1)
        /\ noise' = FinishInit(noise)
    BY <1>0, <1>6 DEF Open, NoiseInv
  <2>2. Handshaking(MixIntoKey(noise), 4, 0)
    BY <2>1, MixIntoKeyHandshaking
  <2>3. noise'.write = 0
    BY <2>1, <2>2 DEF FinishInit, Handshaking, Noise
  <2>4. Sealings = 0 /\ Sealings' = 0
    BY <2>1, <2>3 DEF Sealings
  <2> QED
    BY <1>0, <2>1, <2>4 DEF UpInv
<1>7. CASE Receive
  <2>1. CASE phase = "open"
    <3>1. TakeTurn(inBytes \o down[1].pieces, decoding) /\ UNCHANGED << up, srv, phase >>
      BY <1>7, <2>1 DEF Receive
    <3> QED
      BY <1>2, <1>7, <2>1, <3>1, ReceivedPieces
  <2>2. CASE phase # "open"
    BY <1>1, <1>7, <2>2 DEF Receive
  <2> QED
    BY <2>1, <2>2
<1>8. ASSUME NEW i \in 1..MaxFrames, Deliver(i) PROVE UpInv'
  <2>1. UNCHANGED << up, srv, phase >> /\ phase = "open" /\ inBytes \in Seq(Piece)
    BY <1>8, DeliverOpen DEF Deliver, WireInv, DownInv
  <2>2. noise' = noise \/ TakeTurn(inBytes, RemoveAt(decoding, i))
    BY <1>8 DEF Deliver, NextTurn
  <2> QED
    BY <1>1, <1>2, <2>1, <2>2
<1>9. CASE SendNode
  BY <1>9, SealsNext DEF SendNode
<1>10. CASE Tick
  <2>1. phase = "open" /\ UNCHANGED << phase, srv >>
    BY <1>0, <1>10 DEF Tick, NoiseInv
  <2>2. SendFrame \/ UNCHANGED << up, noise >>
    BY <1>10 DEF Tick
  <2> QED
    BY <1>1, <2>1, <2>2, SealsNext
<1>11. CASE Dispose
  BY <1>1, <1>11 DEF Dispose
<1>12. CASE Closes
  <2>1. UNCHANGED << up, srv, noise >> /\ (phase' = phase \/ (phase = "hello" /\ phase' = "failed"))
    BY <1>12 DEF Closes
  <2>2. CASE phase' = phase
    BY <1>1, <2>1, <2>2
  <2>3. CASE phase = "hello" /\ phase' = "failed"
    BY <1>0, <2>1, <2>3 DEF UpInv
  <2> QED
    BY <2>1, <2>2, <2>3
<1>13. CASE ServerHello
  <2>1. srv.phase = "hello" /\ up # << >> /\ up' = Tail(up) /\ srv' = [srv EXCEPT !.phase = "finish"]
        /\ phase' = phase
    BY <1>13 DEF ServerHello
  <2>2. phase \in {"hello", "failed"} /\ up = << HelloSent >>
    BY <1>0, <2>1 DEF UpInv
  <2>3. up' = << >> /\ up' \in Seq(Upward)
    BY <2>1, <2>2, EmptySeq
  <2>4. srv' \in Server /\ ~srv'.broken /\ srv'.phase = "finish" /\ srv'.read = 0
    BY <1>0, <2>1 DEF UpInv, Server
  <2> QED
    BY <2>1, <2>2, <2>3, <2>4 DEF UpInv, Server
<1>14. CASE ServerReads
  <2>1. up # << >> /\ up[1].type # "hello" /\ up' = Tail(up) /\ UNCHANGED << phase, noise >>
    BY <1>14 DEF ServerReads
  <2>2. /\ up' \in Seq(Upward) /\ Len(up') = Len(up) - 1 /\ Len(up) > 0
        /\ \A i \in 1..Len(up') : up'[i] = up[i + 1]
    BY <1>0, <2>1, HeadTailProperties, EmptySeq
  <2>3. phase \in {"finish", "open"}
    <3>1. HelloSent.type = "hello" /\ << HelloSent >>[1] = HelloSent
      BY DEF HelloSent
    <3> QED
      BY <1>0, <2>1, <3>1 DEF UpInv
  <2>4. Sealings' = Sealings /\ srv.read \in Nat
    BY <1>0, <2>1 DEF Sealings, Server
  <2>5. CASE srv.phase = "finish"
    <3>1. /\ srv.read = 0 /\ Len(up) = Sealings + 1 /\ up[1] = FinishSent
          /\ \A i \in 1..Len(up) : i > 1 => up[i] = FrameOf(i - 2)
      BY <1>0, <2>3, <2>5 DEF UpInv
    <3>2. srv' \in Server /\ srv'.phase = "open" /\ ~srv'.broken /\ srv'.read = srv.read
      <4>1. up[1].type = "finish" /\ up[1].static = << 2, 1 >> /\ up[1].payload = << 3, 0 >>
        BY <3>1 DEF FinishSent
      <4>2. srv' = [srv EXCEPT !.phase = "open", !.broken = @ \/ FALSE]
        BY <1>14, <4>1 DEF ServerReads
      <4> QED
        BY <1>0, <4>2 DEF UpInv, Server
    <3>3. srv'.read + Len(up') = Sealings'
      <4>1. Sealings \in Nat
        BY <1>0 DEF Sealings, NoiseInv, Keyed, Noise
      <4> QED
        BY <1>0, <2>2, <2>4, <3>1, <3>2, <4>1
    <3>4. \A i \in 1..Len(up') : up'[i] = FrameOf(srv'.read + i - 1)
      <4> TAKE i \in 1..Len(up')
      <4>1. i + 1 \in 1..Len(up) /\ i + 1 > 1 /\ (i + 1) - 2 = srv'.read + i - 1
        BY <1>0, <2>2, <3>1, <3>2
      <4>2. up[i + 1] = FrameOf((i + 1) - 2)
        BY <3>1, <4>1
      <4> QED
        BY <2>2, <4>1, <4>2
    <3> QED
      BY <2>1, <2>2, <2>3, <3>2, <3>3, <3>4 DEF UpInv
  <2>6. CASE srv.phase = "open"
    <3>1. /\ srv.read + Len(up) = Sealings
          /\ \A i \in 1..Len(up) : up[i] = FrameOf(srv.read + i - 1)
      BY <1>0, <2>3, <2>6 DEF UpInv
    <3>2. srv' \in Server /\ srv'.phase = "open" /\ ~srv'.broken /\ srv'.read = srv.read + 1
      <4>1. up[1] = FrameOf(srv.read)
        <5>1. 1 \in 1..Len(up) /\ srv.read + 1 - 1 = srv.read
          BY <2>2, <2>4, <1>0
        <5> QED
          BY <3>1, <5>1
      <4>2. up[1].type = "frame" /\ up[1].seal = << Transport, srv.read >>
        BY <4>1 DEF FrameOf
      <4>3. srv' = [srv EXCEPT !.read = srv.read + 1, !.broken = srv.broken \/ FALSE]
        BY <1>14, <4>2 DEF ServerReads
      <4>4. (srv.broken \/ FALSE) = FALSE
        BY <1>0 DEF UpInv, Server
      <4> DEFINE s == [srv EXCEPT !.read = srv.read + 1]
      <4>5. s \in Server /\ s.phase = "open" /\ s.read = srv.read + 1
        BY <1>0, <2>4, <2>6 DEF Server
      <4>6. srv' = [s EXCEPT !.broken = FALSE]
        BY <4>3, <4>4
      <4> HIDE DEF s
      <4> QED
        BY <4>5, <4>6 DEF Server
    <3>3. srv'.read + Len(up') = Sealings'
      BY <1>0, <2>2, <2>4, <3>1, <3>2
    <3>4. \A i \in 1..Len(up') : up'[i] = FrameOf(srv'.read + i - 1)
      <4> TAKE i \in 1..Len(up')
      <4>1. i + 1 \in 1..Len(up) /\ srv.read + (i + 1) - 1 = srv'.read + i - 1
        BY <1>0, <2>2, <2>4, <3>2
      <4>2. up[i + 1] = FrameOf(srv.read + (i + 1) - 1)
        BY <3>1, <4>1
      <4> QED
        BY <2>2, <4>1, <4>2
    <3> QED
      BY <2>1, <2>2, <2>3, <3>2, <3>3, <3>4 DEF UpInv
  <2> QED
    BY <1>0, <2>3, <2>5, <2>6 DEF UpInv
<1>15. CASE ServerSends
  <2>1. PICK k \in 1..2 : srv' = [srv EXCEPT !.sent = srv.sent + k]
    BY <1>15 DEF ServerSends
  <2>2. UNCHANGED << phase, up, noise >>
    BY <1>15 DEF ServerSends
  <2>3. srv' \in Server /\ srv'.phase = srv.phase /\ srv'.read = srv.read /\ srv'.broken = srv.broken
    BY <1>0, <2>1 DEF Server
  <2> QED
    BY <1>0, <2>2, <2>3 DEF UpInv, Sealings
<1>16. CASE UNCHANGED vars
  BY <1>1, <1>16 DEF vars
<1> QED
  BY <1>3, <1>4, <1>5, <1>6, <1>7, <1>8, <1>9, <1>10, <1>11, <1>12, <1>13, <1>14, <1>15, <1>16 DEF Next

-----------------------------------------------------------------------------

LEMMA PosType ==
  ASSUME NEW s \in Seq(Piece), NEW i \in 1..Len(s)
  PROVE  s[i] \in Piece /\ Pos(s[i]) \in Nat
<1>1. s[i] \in Piece
  BY ElementOfSeq
<1> QED
  BY <1>1 DEF Piece, Pos

LEMMA RunOfConcat ==
  ASSUME NEW s \in Seq(Piece), NEW r \in Seq(Piece), NEW p \in Nat, Run(s, p), Run(r, p + Len(s))
  PROVE  s \o r \in Seq(Piece) /\ Len(s \o r) = Len(s) + Len(r) /\ Run(s \o r, p)
<1>1. Len(s) \in Nat /\ Len(r) \in Nat
  BY LenProperties
<1>2. /\ s \o r \in Seq(Piece) /\ Len(s \o r) = Len(s) + Len(r)
      /\ \A i \in 1..Len(s) + Len(r) : (s \o r)[i] = IF i <= Len(s) THEN s[i] ELSE r[i - Len(s)]
  BY ConcatProperties
<1>3. ASSUME NEW i \in 1..Len(s) + Len(r) PROVE Pos((s \o r)[i]) = p + i
  <2>1. CASE i <= Len(s)
    BY <1>1, <1>2, <2>1 DEF Run
  <2>2. CASE ~(i <= Len(s))
    <3>1. (s \o r)[i] = r[i - Len(s)] /\ i - Len(s) \in 1..Len(r)
      BY <1>1, <1>2, <2>2
    <3>2. Pos(r[i - Len(s)]) = p + Len(s) + (i - Len(s))
      BY <3>1 DEF Run
    <3> QED
      BY <1>1, <3>1, <3>2
  <2> QED
    BY <2>1, <2>2
<1> QED
  BY <1>2, <1>3 DEF Run

LEMMA RunOfSubSeq ==
  ASSUME NEW s \in Seq(Piece), NEW p \in Nat, Run(s, p),
         NEW m \in Nat \ {0}, NEW n \in Nat, n <= Len(s), m <= n + 1
  PROVE  /\ SubSeq(s, m, n) \in Seq(Piece) /\ Len(SubSeq(s, m, n)) = n - m + 1
         /\ Run(SubSeq(s, m, n), p + m - 1)
<1>1. Len(s) \in Nat /\ \A i \in m..n : s[i] \in Piece
  <2>1. Len(s) \in Nat
    BY LenProperties
  <2>2. \A i \in m..n : i \in 1..Len(s)
    BY <2>1
  <2> QED
    BY <2>1, <2>2, ElementOfSeq
<1> DEFINE r == SubSeq(s, m, n)
<1>2. /\ r \in Seq(Piece) /\ Len(r) = IF m <= n THEN n - m + 1 ELSE 0
      /\ \A i \in 1 .. n - m + 1 : r[i] = s[m + i - 1]
  <2>1. m \in Int /\ n \in Int
    OBVIOUS
  <2> HIDE DEF r
  <2> QED
    BY <1>1, <2>1, SubSeqProperties DEF r
<1> HIDE DEF r
<1>3. Len(r) = n - m + 1
  BY <1>2
<1>4. ASSUME NEW i \in 1..Len(r) PROVE Pos(r[i]) = (p + m - 1) + i
  <2>1. m + i - 1 \in 1..Len(s) /\ r[i] = s[m + i - 1]
    BY <1>1, <1>2, <1>3
  <2>2. Pos(s[m + i - 1]) = p + (m + i - 1)
    BY <2>1 DEF Run
  <2> QED
    BY <2>1, <2>2
<1> QED
  BY <1>2, <1>3, <1>4 DEF Run, r

\* The first message of a stream taken off.
LEMMA StreamOfTail ==
  ASSUME NEW ms \in Seq(Bytes), ms # << >>, NEW p \in Nat, NEW q \in Nat, Stream(ms, p, q)
  PROVE  /\ ms[1].pieces \in Seq(Piece) /\ Run(ms[1].pieces, p)
         /\ Tail(ms) \in Seq(Bytes) /\ Stream(Tail(ms), p + Len(ms[1].pieces), q)
<1>1. Len(ms) \in Nat \ {0} /\ 1 \in 1..Len(ms) /\ Len(ms) \in 1..Len(ms)
  BY EmptySeq
<1>2. ms[1] \in Bytes
  BY <1>1, ElementOfSeq
<1>3. ms[1].pieces \in Seq(Piece) /\ Start(ms[1]) = p /\ Run(ms[1].pieces, p)
      /\ End(ms[1]) = p + Len(ms[1].pieces)
  BY <1>1, <1>2 DEF Stream, Bytes, End
<1> DEFINE ts == Tail(ms)
<1>4. ts \in Seq(Bytes) /\ Len(ts) = Len(ms) - 1 /\ \A j \in 1..Len(ts) : ts[j] = ms[j + 1]
  BY HeadTailProperties
<1> HIDE DEF ts
<1>5. ASSUME NEW j \in 1..Len(ts)
      PROVE  /\ ts[j] \in Bytes /\ Len(ts[j].pieces) > 0 /\ Run(ts[j].pieces, Start(ts[j]))
             /\ Start(ts[j]) = IF j = 1 THEN p + Len(ms[1].pieces) ELSE End(ts[j - 1])
  <2>1. j + 1 \in 1..Len(ms) /\ j + 1 # 1 /\ ts[j] = ms[j + 1] /\ (j + 1) - 1 = j
    BY <1>1, <1>4
  <2>2. Start(ms[j + 1]) = End(ms[j])
    BY <2>1 DEF Stream
  <2>3. CASE j = 1
    BY <1>3, <2>1, <2>2, <2>3 DEF Stream
  <2>4. CASE j # 1
    <3>1. j - 1 \in 1..Len(ts) /\ (j - 1) + 1 = j
      BY <1>1, <1>4, <2>4
    <3>2. ts[j - 1] = ms[j]
      BY <1>4, <3>1
    <3> QED
      BY <2>1, <2>2, <2>4, <3>2 DEF Stream
  <2> QED
    BY <2>3, <2>4
<1>6. q = IF ts = << >> THEN p + Len(ms[1].pieces) ELSE End(ts[Len(ts)])
  <2>1. q = End(ms[Len(ms)])
    BY DEF Stream
  <2>2. CASE ts = << >>
    <3>1. Len(ms) = 1
      BY <1>1, <1>4, <2>2, EmptySeq
    <3> QED
      BY <1>3, <2>1, <2>2, <3>1
  <2>3. CASE ts # << >>
    <3>1. Len(ts) \in 1..Len(ts) /\ Len(ts) + 1 = Len(ms)
      BY <1>1, <1>4, <2>3, EmptySeq
    <3> QED
      BY <1>4, <2>1, <2>3, <3>1
  <2> QED
    BY <2>2, <2>3
<1>7. Stream(ts, p + Len(ms[1].pieces), q)
  BY <1>5, <1>6 DEF Stream
<1> QED
  BY <1>3, <1>4, <1>7 DEF ts

\* A message at its end.
LEMMA StreamOfAppend ==
  ASSUME NEW ms \in Seq(Bytes), NEW p \in Nat, NEW q \in Nat, Stream(ms, p, q),
         NEW s \in Seq(Piece), Len(s) > 0, Run(s, q)
  PROVE  Append(ms, Pieced(s)) \in Seq(Bytes) /\ Stream(Append(ms, Pieced(s)), p, q + Len(s))
<1> DEFINE m == Pieced(s)
           as == Append(ms, m)
<1>1. m \in Bytes /\ m.pieces = s
  BY DEF Bytes, Pieced
<1>2. Len(s) \in Nat /\ Len(ms) \in Nat
  BY LenProperties
<1>3. Start(m) = q /\ End(m) = q + Len(s)
  <2>1. 1 \in 1..Len(s)
    BY <1>2
  <2>2. Pos(s[1]) = q + 1
    BY <2>1 DEF Run
  <2> QED
    BY <1>1, <2>2 DEF Start, End
<1> HIDE DEF m
<1>4. /\ as \in Seq(Bytes) /\ as # << >> /\ Len(as) = Len(ms) + 1
      /\ \A j \in 1..Len(ms) : as[j] = ms[j]
      /\ as[Len(ms) + 1] = m
  BY <1>1, AppendProperties
<1> HIDE DEF as
<1>5. ASSUME NEW j \in 1..Len(as)
      PROVE  /\ as[j] \in Bytes /\ Len(as[j].pieces) > 0 /\ Run(as[j].pieces, Start(as[j]))
             /\ Start(as[j]) = IF j = 1 THEN p ELSE End(as[j - 1])
  <2>1. CASE j \in 1..Len(ms)
    <3>1. as[j] = ms[j] /\ (j # 1 => as[j - 1] = ms[j - 1])
      <4>1. j # 1 => j - 1 \in 1..Len(ms)
        BY <1>2, <2>1
      <4> QED
        BY <1>4, <2>1, <4>1
    <3> QED
      BY <2>1, <3>1 DEF Stream
  <2>2. CASE j = Len(ms) + 1
    <3>1. as[j] = m /\ Run(m.pieces, Start(m)) /\ Len(m.pieces) > 0
      BY <1>1, <1>3, <1>4, <2>2
    <3>2. CASE ms = << >>
      <4>1. j = 1 /\ p = q
        BY <2>2, <3>2, EmptySeq DEF Stream
      <4> QED
        BY <1>1, <1>3, <3>1, <4>1
    <3>3. CASE ms # << >>
      <4>1. Len(ms) \in 1..Len(ms) /\ j - 1 = Len(ms) /\ j # 1
        BY <1>2, <2>2, <3>3, EmptySeq
      <4>2. as[j - 1] = ms[Len(ms)]
        BY <1>4, <4>1
      <4>3. q = End(ms[Len(ms)])
        BY <3>3 DEF Stream
      <4> QED
        BY <1>1, <1>3, <3>1, <4>1, <4>2, <4>3
    <3> QED
      BY <3>2, <3>3
  <2>3. j \in 1..Len(ms) \/ j = Len(ms) + 1
    BY <1>2, <1>4
  <2> QED
    BY <2>1, <2>2, <2>3
<1>6. q + Len(s) = IF as = << >> THEN p ELSE End(as[Len(as)])
  BY <1>3, <1>4
<1>7. Stream(as, p, q + Len(s))
  BY <1>5, <1>6 DEF Stream
<1> QED
  BY <1>4, <1>7 DEF as, m

\* A turn on bytes that follow the frames opened so far opens the next frame,
\* if there is one.
LEMMA TurnStays ==
  ASSUME NEW bytes \in Seq(Piece), NEW dec, noise \in Keyed, errors \in Errors,
         Run(bytes, 2 * noise.read + 2), TakeTurn(bytes, dec)
  PROVE  /\ errors' = errors /\ Run(inBytes', 2 * noise'.read + 2)
         /\ ReadTo' = 2 * noise.read + 2 + Len(bytes)
<1>0. noise.read \in Nat /\ Len(bytes) \in Nat
  BY LenProperties DEF Keyed, Noise
<1>1. CASE TurnIdle(bytes, dec)
  BY <1>1 DEF TurnIdle, ReadTo
<1>2. CASE TurnOpens(bytes, dec)
  <2>1. Len(bytes) >= 2
    BY <1>2 DEF TurnOpens, Whole
  <2>2. noise'.read = noise.read + 1
    BY <1>2 DEF TurnOpens, Keyed, Noise
  <2>3. /\ Len(inBytes') = Len(bytes) - 3 + 1
        /\ Run(inBytes', 2 * noise.read + 2 + 3 - 1)
    <3>1. 3 \in Nat \ {0} /\ 3 <= Len(bytes) + 1 /\ Len(bytes) <= Len(bytes) /\ 2 * noise.read + 2 \in Nat
      BY <1>0, <2>1
    <3>2. /\ Len(SubSeq(bytes, 3, Len(bytes))) = Len(bytes) - 3 + 1
          /\ Run(SubSeq(bytes, 3, Len(bytes)), 2 * noise.read + 2 + 3 - 1)
      BY ONLY <1>0, <3>1, RunOfSubSeq, bytes \in Seq(Piece), Run(bytes, 2 * noise.read + 2)
    <3> QED
      BY <1>2, <3>2 DEF TurnOpens
  <2>4. 2 * noise.read + 2 + 3 - 1 = 2 * noise'.read + 2
    BY <1>0, <2>2
  <2>5. ReadTo' = 2 * noise.read + 2 + Len(bytes)
    BY <1>0, <2>2, <2>3 DEF ReadTo
  <2> QED
    BY <1>2, <2>3, <2>4, <2>5 DEF TurnOpens
<1>3. CASE TurnThrows(bytes, dec)
  <2>1. 1 \in 1..Len(bytes) /\ bytes[1].part = 1 /\ bytes[1].frame # noise.read + 1
    BY <1>0, <1>3 DEF TurnThrows, Whole
  <2>2. bytes[1].frame \in Nat /\ 2 * bytes[1].frame + 1 = 2 * noise.read + 2 + 1
    BY <2>1, PosType DEF Run, Pos, Piece
  <2> QED
    BY <1>0, <2>1, <2>2
<1> QED
  BY <1>1, <1>2, <1>3, TurnCases

-----------------------------------------------------------------------------

\* The server's frames go out in one message or in two.
LEMMA ServerSendsPieces ==
  ASSUME WireInv, ServerSends
  PROVE  \E s, r \in Seq(Piece) :
           /\ Len(s) > 0 /\ Run(s, 2 * srv.sent + 2) /\ Run(r, 2 * srv.sent + 2 + Len(s))
           /\ 2 * srv'.sent + 2 = 2 * srv.sent + 2 + Len(s) + Len(r)
           /\ down' = IF Len(r) = 0 THEN Append(down, Pieced(s)) ELSE Append(Append(down, Pieced(s)), Pieced(r))
<1> DEFINE n == srv.sent
           p == 2 * n + 2
<1>0. srv \in Server /\ n \in Nat /\ down \in Seq(Bytes \cup Greeting)
  BY DEF WireInv, UpInv, DownInv, Server
<1>1. PICK k \in 1..2 :
        /\ srv' = [srv EXCEPT !.sent = n + k]
        /\ \E cut \in 1..Len(IF k = 1 THEN Pieces(n + 1) ELSE Pieces(n + 1) \o Pieces(n + 2)) :
             LET bytes == IF k = 1 THEN Pieces(n + 1) ELSE Pieces(n + 1) \o Pieces(n + 2)
             IN  down' = down \o << [type |-> "pieces", pieces |-> SubSeq(bytes, 1, cut)] >>
                           \o IF cut = Len(bytes) THEN << >>
                              ELSE << [type |-> "pieces", pieces |-> SubSeq(bytes, cut + 1, Len(bytes))] >>
  BY DEF ServerSends
<1> DEFINE bytes == IF k = 1 THEN Pieces(n + 1) ELSE Pieces(n + 1) \o Pieces(n + 2)
<1>2. PICK cut \in 1..Len(bytes) :
        down' = down \o << Pieced(SubSeq(bytes, 1, cut)) >>
                  \o IF cut = Len(bytes) THEN << >> ELSE << Pieced(SubSeq(bytes, cut + 1, Len(bytes))) >>
  BY <1>1 DEF Pieced
<1>3. bytes \in Seq(Piece) /\ Len(bytes) = 2 * k /\ Run(bytes, p)
  <2>1. ASSUME NEW m \in Nat
        PROVE  Pieces(m + 1) \in Seq(Piece) /\ Len(Pieces(m + 1)) = 2 /\ Run(Pieces(m + 1), 2 * m + 2)
    <3> DEFINE x == [frame |-> m + 1, part |-> 1]
               y == [frame |-> m + 1, part |-> 2]
    <3>1. x \in Piece /\ y \in Piece /\ Pos(x) = 2 * m + 2 + 1 /\ Pos(y) = 2 * m + 2 + 2
      BY DEF Piece, Pos
    <3>2. Pieces(m + 1) = << x, y >>
      BY DEF Pieces
    <3> HIDE DEF x, y
    <3>3. << x, y >> \in Seq(Piece) /\ Len(<< x, y >>) = 2 /\ << x, y >>[1] = x /\ << x, y >>[2] = y
      BY <3>1
    <3>4. \A i \in 1..2 : i = 1 \/ i = 2
      OBVIOUS
    <3>5. \A i \in 1..2 : Pos(<< x, y >>[i]) = 2 * m + 2 + i
      BY <3>1, <3>3, <3>4
    <3> QED
      BY <3>2, <3>3, <3>5 DEF Run
  <2>2. CASE k = 1
    <3>1. bytes = Pieces(n + 1) /\ 2 * k = 2
      BY <2>2
    <3> QED
      BY <1>0, <2>1, <3>1
  <2>3. CASE k # 1
    <3>1. /\ Pieces(n + 1) \in Seq(Piece) /\ Len(Pieces(n + 1)) = 2 /\ Run(Pieces(n + 1), p)
      BY <1>0, <2>1
    <3>2. n + 1 \in Nat /\ (n + 1) + 1 = n + 2 /\ 2 * (n + 1) + 2 = p + 2 /\ p \in Nat
      BY <1>0, SMTT(30)
    <3>3. /\ Pieces(n + 2) \in Seq(Piece) /\ Len(Pieces(n + 2)) = 2 /\ Run(Pieces(n + 2), p + 2)
      BY <2>1, <3>2
    <3>4. bytes = Pieces(n + 1) \o Pieces(n + 2) /\ 2 * k = 4
      BY <2>3
    <3>5. /\ Pieces(n + 1) \o Pieces(n + 2) \in Seq(Piece)
          /\ Len(Pieces(n + 1) \o Pieces(n + 2)) = 2 + 2
          /\ Run(Pieces(n + 1) \o Pieces(n + 2), p)
      BY <3>1, <3>2, <3>3, RunOfConcat
    <3> QED
      BY <3>4, <3>5
  <2> QED
    BY <2>2, <2>3
<1> HIDE DEF bytes
<1> DEFINE s == SubSeq(bytes, 1, cut)
           r == SubSeq(bytes, cut + 1, Len(bytes))
<1>4. cut \in Nat \ {0} /\ cut <= Len(bytes) /\ Len(bytes) \in Nat /\ p \in Nat
  BY <1>0, <1>3
<1>5. s \in Seq(Piece) /\ Len(s) = cut /\ Run(s, p)
  <2>1. SubSeq(bytes, 1, cut) \in Seq(Piece) /\ Len(SubSeq(bytes, 1, cut)) = cut - 1 + 1
        /\ Run(SubSeq(bytes, 1, cut), p + 1 - 1)
    <3>1. 1 \in Nat \ {0} /\ cut \in Nat /\ 1 <= cut + 1
      BY <1>4
    <3> QED
      BY ONLY <1>3, <1>4, <3>1, RunOfSubSeq
  <2>2. p + 1 - 1 = p /\ cut - 1 + 1 = cut
    BY <1>4
  <2> QED
    BY <2>1, <2>2
<1>6. r \in Seq(Piece) /\ Len(r) = Len(bytes) - cut /\ Run(r, p + cut)
  <2>1. SubSeq(bytes, cut + 1, Len(bytes)) \in Seq(Piece)
        /\ Len(SubSeq(bytes, cut + 1, Len(bytes))) = Len(bytes) - (cut + 1) + 1
        /\ Run(SubSeq(bytes, cut + 1, Len(bytes)), p + (cut + 1) - 1)
    <3>1. cut + 1 \in Nat \ {0} /\ Len(bytes) <= Len(bytes) /\ cut + 1 <= Len(bytes) + 1
      BY <1>4
    <3> QED
      BY ONLY <1>3, <1>4, <3>1, RunOfSubSeq
  <2>2. p + (cut + 1) - 1 = p + cut /\ Len(bytes) - (cut + 1) + 1 = Len(bytes) - cut
    BY <1>4
  <2> QED
    BY <2>1, <2>2
<1>r. s \in Seq(Piece) /\ r \in Seq(Piece)
  BY <1>5, <1>6
<1> HIDE DEF s, r
<1>7. 2 * srv'.sent + 2 = p + Len(s) + Len(r)
  <2>1. srv'.sent = n + k
    BY <1>0, <1>1 DEF Server
  <2> QED
    BY <1>0, <1>3, <1>4, <1>5, <1>6, <2>1, SMTT(30)
<1>8. down' = IF Len(r) = 0 THEN Append(down, Pieced(s)) ELSE Append(Append(down, Pieced(s)), Pieced(r))
  <2> DEFINE M == Bytes \cup Greeting
             d == Append(down, Pieced(s))
  <2>1. Pieced(s) \in M /\ Pieced(r) \in M
    BY <1>5, <1>6 DEF Pieced, Bytes
  <2>2. d \in Seq(M) /\ down \o << Pieced(s) >> = d
    BY <1>0, <2>1, AppendProperties, AppendIsConcat
  <2>3. Len(r) = 0 <=> cut = Len(bytes)
    BY <1>4, <1>6
  <2>4. down' = d \o IF cut = Len(bytes) THEN << >> ELSE << Pieced(r) >>
    BY <1>2, <2>2 DEF s, r
  <2> HIDE DEF d, M
  <2>5. d \o << >> = d /\ d \o << Pieced(r) >> = Append(d, Pieced(r))
    BY <2>1, <2>2, ConcatEmptySeq, AppendIsConcat
  <2> QED
    BY <2>3, <2>4, <2>5 DEF d
<1> USE <1>r
<1> WITNESS s \in Seq(Piece), r \in Seq(Piece)
<1> QED
  BY <1>4, <1>5, <1>6, <1>7, <1>8

\* What a turn leaves is well-formed, and nothing it does goes unheard.
LEMMA TurnTypes ==
  ASSUME NEW bytes \in Seq(Piece), NEW dec, noise \in Keyed, errors \in Errors, TakeTurn(bytes, dec)
  PROVE  inBytes' \in Seq(Piece) /\ errors' \in Errors /\ errors'.unheard = errors.unheard
<1>1. CASE TurnIdle(bytes, dec)
  BY <1>1 DEF TurnIdle
<1>2. ASSUME Whole(bytes) PROVE SubSeq(bytes, 3, Len(bytes)) \in Seq(Piece)
  <2>1. Len(bytes) \in Nat /\ \A i \in 3..Len(bytes) : bytes[i] \in Piece
    <3>1. Len(bytes) \in Nat /\ \A i \in 3..Len(bytes) : i \in 1..Len(bytes)
      BY LenProperties
    <3> QED
      BY <3>1, ElementOfSeq
  <2> QED
    BY <2>1, SubSeqProperties
<1>3. CASE TurnOpens(bytes, dec)
  BY <1>2, <1>3 DEF TurnOpens
<1>4. CASE TurnThrows(bytes, dec)
  BY <1>2, <1>4 DEF TurnThrows, Errors
<1> QED
  BY <1>1, <1>3, <1>4, TurnCases

LEMMA DownStep ==
  ASSUME WireInv, [Next]_vars
  PROVE  DownInv'
<1>0. DownInv /\ UpInv /\ NoiseInv /\ inBytes \in Seq(Piece) /\ errors \in Errors /\ srv \in Server
  BY DEF WireInv, DownInv, UpInv
\* Nothing comes down.
<1>1. ASSUME UNCHANGED << down, srv, inBytes, errors, decoding, delivered >>,
             phase = "open" => phase' = "open",
             down = << >> \/ srv.phase = "open" \/ (phase = "hello" => phase' \in {"hello", "failed"}),
             phase = "failed" => phase' = "failed"
      PROVE  DownInv'
  BY <1>0, <1>1 DEF DownInv
<1>2. ASSUME phase = "open", phase' = "open", UNCHANGED << srv >>, down' \in Seq(Bytes \cup Greeting),
             srv.phase = "open" => down' \in Seq(Bytes), srv.phase # "open" => down' = down,
             inBytes' \in Seq(Piece), errors' \in Errors
      PROVE  DownInv'
  BY <1>0, <1>2 DEF DownInv
<1>3. CASE SocketOpens \/ DialFails \/ Hello \/ HelloUnsent
  <2>1. down = << >>
    BY <1>0, <1>3 DEF UpInv, DownInv, SocketOpens, DialFails, Hello, HelloUnsent
  <2> QED
    BY <1>1, <1>3, <2>1 DEF SocketOpens, DialFails, Hello, HelloUnsent
<1>4. CASE HelloTimeout \/ Open \/ SendNode \/ Tick \/ Dispose \/ Closes \/ ServerReads \/ UNCHANGED vars
  <2>1. CASE ServerReads
    <3>1. UNCHANGED << down, inBytes, errors, decoding, delivered, phase >>
      BY <2>1 DEF ServerReads
    <3>2. \/ srv' = [srv EXCEPT !.phase = "open", !.broken = srv'.broken] /\ up[1].type = "finish"
          \/ srv' = [srv EXCEPT !.read = srv'.read, !.broken = srv'.broken]
      BY <1>0, <2>1 DEF ServerReads, Server
    <3>3. srv'.sent = srv.sent /\ (srv'.phase = srv.phase \/ (srv'.phase = "open" /\ up[1].type = "finish"))
      BY <1>0, <3>2 DEF Server
    <3>4. CASE srv'.phase = srv.phase
      BY <1>0, <3>1, <3>3, <3>4 DEF DownInv
    <3>5. CASE srv'.phase = "open" /\ up[1].type = "finish" /\ srv.phase # "open"
      <4>1. up # << >> /\ up[1].type # "hello"
        BY <2>1 DEF ServerReads
      <4>2. phase \in {"finish", "open"} /\ srv.phase = "finish"
        <5>1. << HelloSent >>[1] = HelloSent /\ HelloSent.type = "hello"
          BY DEF HelloSent
        <5> QED
          BY <1>0, <3>5, <4>1, <5>1 DEF UpInv
      <4>3. down = << >> /\ << >> \in Seq(Bytes)
        BY <1>0, <4>2, EmptySeq DEF DownInv
      <4> QED
        BY <1>0, <3>1, <3>3, <3>5, <4>3 DEF DownInv
    <3> QED
      BY <3>3, <3>4, <3>5
  <2>2. CASE Tick \/ SendNode \/ Dispose \/ UNCHANGED vars
    BY <1>1, <2>2 DEF Tick, SendNode, SendFrame, Dispose, vars
  <2>3. CASE HelloTimeout \/ Closes
    BY <1>1, <2>3 DEF HelloTimeout, Closes
  <2>4. CASE Open
    <3>1. down = << >> \/ srv.phase = "open"
      BY <1>0, <2>4 DEF Open, UpInv, DownInv
    <3> QED
      BY <1>1, <2>4, <3>1 DEF Open
  <2> QED
    BY <1>4, <2>1, <2>2, <2>3, <2>4
<1>5. CASE Finish
  <2>1. phase = "hello" /\ down # << >> /\ down' = Tail(down) /\ phase' \in {"failed", "finish"}
        /\ UNCHANGED << srv, inBytes, errors, decoding, delivered >>
    BY <1>5 DEF Finish
  <2>2. srv.phase = "finish" /\ \E m \in Greeting : down = << m >>
    BY <1>0, <2>1 DEF UpInv, DownInv
  <2>3. down' = << >> /\ << >> \in Seq(Bytes \cup Greeting)
    BY <2>1, <2>2, EmptySeq
  <2> QED
    BY <1>0, <2>1, <2>2, <2>3 DEF DownInv
<1>6. CASE Receive
  <2>1. down # << >> /\ down[1].type = "pieces" /\ down' = Tail(down) /\ UNCHANGED << phase, srv >>
    BY <1>6 DEF Receive
  <2>2. srv.phase = "open" /\ down \in Seq(Bytes)
    <3>1. \A m \in Greeting : << m >>[1].type # "pieces"
      BY DEF Greeting
    <3> QED
      BY <1>0, <2>1, <3>1 DEF DownInv
  <2>3. down' \in Seq(Bytes) /\ down' \in Seq(Bytes \cup Greeting)
    <3>1. Tail(down) \in Seq(Bytes)
      BY <2>1, <2>2, HeadTailProperties
    <3>2. Bytes \subseteq Bytes \cup Greeting
      OBVIOUS
    <3> QED
      BY <2>1, <3>1, <3>2, SeqMonotonic
  <2>4. CASE phase = "open"
    <3>1. TakeTurn(inBytes \o down[1].pieces, decoding) /\ inBytes \o down[1].pieces \in Seq(Piece)
      BY <1>6, <2>4, ReceivedPieces DEF Receive
    <3>2. inBytes' \in Seq(Piece) /\ errors' \in Errors
      BY <1>0, <2>4, <3>1, TurnTypes DEF NoiseInv
    <3> QED
      BY <1>2, <2>1, <2>2, <2>3, <2>4, <3>2
  <2>5. CASE phase # "open"
    <3>1. errors' = [errors EXCEPT !.unheard = TRUE]
          /\ UNCHANGED << inBytes, decoding, delivered >>
      BY <1>6, <2>5 DEF Receive
    <3>2. errors' \in Errors
      BY <1>0, <3>1 DEF Errors
    <3> QED
      BY <1>0, <2>1, <2>2, <2>3, <2>5, <3>1, <3>2 DEF DownInv
  <2> QED
    BY <2>4, <2>5
<1>7. ASSUME NEW i \in 1..MaxFrames, Deliver(i) PROVE DownInv'
  <2>1. phase = "open" /\ phase' = "open" /\ noise \in Keyed /\ UNCHANGED << srv, down >>
    BY <1>7, DeliverOpen DEF Deliver
  <2>2. inBytes' \in Seq(Piece) /\ errors' \in Errors
    <3>1. CASE decoding[i] \in MalformedFrames
      BY <1>0, <1>7, <3>1 DEF Deliver, Errors
    <3>2. CASE decoding[i] \notin MalformedFrames
      <4>1. TakeTurn(inBytes, RemoveAt(decoding, i))
        BY <1>7, <3>2 DEF Deliver, NextTurn
      <4> QED
        BY <1>0, <2>1, <4>1, TurnTypes
    <3> QED
      BY <3>1, <3>2
  <2> QED
    BY <1>0, <1>2, <2>1, <2>2 DEF DownInv
<1>8. CASE ServerHello
  <2>1. /\ srv.phase = "hello" /\ up # << >> /\ srv' = [srv EXCEPT !.phase = "finish"]
        /\ UNCHANGED << phase, inBytes, decoding, delivered, errors >>
    BY <1>8 DEF ServerHello
  <2>2. PICK m \in Greeting : down' = Append(down, m)
    BY <1>8 DEF ServerHello, Greeting
  <2>3. down = << >> /\ phase \in {"hello", "failed"} /\ srv.sent = 0
    BY <1>0, <2>1 DEF UpInv, DownInv
  <2>4. down' = << m >> /\ << m >> \in Seq(Bytes \cup Greeting)
    BY <2>2, <2>3
  <2>5. srv'.phase = "finish" /\ srv'.sent = 0
    BY <1>0, <2>1, <2>3 DEF Server
  <2> QED
    BY <1>0, <2>1, <2>3, <2>4, <2>5 DEF DownInv
<1>9. CASE ServerSends
  <2>1. UNCHANGED << phase, inBytes, decoding, delivered, errors >> /\ srv.phase = "open"
        /\ \E x : srv' = [srv EXCEPT !.sent = x]
    BY <1>9 DEF ServerSends
  <2>2. srv'.phase = "open" /\ down \in Seq(Bytes)
    BY <1>0, <2>1 DEF DownInv, Server
  <2>3. PICK s, r \in Seq(Piece) :
          down' = IF Len(r) = 0 THEN Append(down, Pieced(s)) ELSE Append(Append(down, Pieced(s)), Pieced(r))
    BY <1>9, ServerSendsPieces
  <2>4. Pieced(s) \in Bytes /\ Pieced(r) \in Bytes
    BY DEF Pieced, Bytes
  <2>5. down' \in Seq(Bytes) /\ Bytes \subseteq Bytes \cup Greeting
    BY <2>2, <2>3, <2>4, AppendProperties
  <2>6. down' \in Seq(Bytes \cup Greeting)
    BY <2>5, SeqMonotonic
  <2> QED
    BY <1>0, <2>1, <2>2, <2>5, <2>6 DEF DownInv
<1> QED
  BY <1>3, <1>4, <1>5, <1>6, <1>7, <1>8, <1>9 DEF Next

LEMMA StreamStep ==
  ASSUME WireInv, [Next]_vars
  PROVE  StreamInv'
<1>0. /\ StreamInv /\ DownInv /\ UpInv /\ NoiseInv /\ inBytes \in Seq(Piece) /\ errors \in Errors
      /\ srv \in Server /\ srv.sent \in Nat
  BY DEF WireInv, DownInv, UpInv, Server
<1>n. noise.read \in Nat /\ (phase # "open" => noise.read = 0) /\ ReadTo \in Nat
  <2>1. noise.read \in Nat /\ (phase # "open" => noise.read = 0)
    BY <1>0 DEF NoiseInv, Handshaking, Keyed, Noise
  <2> QED
    BY <1>0, <2>1, LenProperties DEF ReadTo
<1>1. ASSUME UNCHANGED << down, srv, inBytes, errors >>, noise'.read = noise.read
      PROVE  StreamInv'
  BY <1>0, <1>1 DEF StreamInv, ReadTo, Run
\* A turn, on what was in inBytes or on that and a message.
<1>2. ASSUME NEW bytes \in Seq(Piece), NEW dec, noise \in Keyed, TakeTurn(bytes, dec), srv' = srv,
             ~errors.unheard => /\ Run(bytes, 2 * noise.read + 2)
                                /\ srv.phase = "open" => Stream(down', 2 * noise.read + 2 + Len(bytes), 2 * srv.sent + 2)
                                /\ srv.phase # "open" => 2 * noise.read + 2 + Len(bytes) = 2
      PROVE  StreamInv'
  <2>1. errors'.unheard = errors.unheard
    BY <1>0, <1>2, TurnTypes
  <2> SUFFICES ASSUME ~errors.unheard
               PROVE  /\ ~errors'.decrypt /\ Run(inBytes', 2 * noise'.read + 2)
                      /\ srv.phase # "open" => ReadTo' = 2
                      /\ srv.phase = "open" => Stream(down', ReadTo', 2 * srv.sent + 2)
    BY <1>2, <2>1 DEF StreamInv
  <2>2. /\ errors' = errors /\ Run(inBytes', 2 * noise'.read + 2)
        /\ ReadTo' = 2 * noise.read + 2 + Len(bytes)
    BY <1>0, <1>2, TurnStays
  <2> QED
    BY <1>0, <1>2, <2>2 DEF StreamInv
<1>3. CASE SocketOpens \/ DialFails \/ Hello \/ HelloUnsent \/ HelloTimeout \/ Dispose \/ Closes
  BY <1>1, <1>3 DEF SocketOpens, DialFails, Hello, HelloUnsent, HelloTimeout, Dispose, Closes
<1>4. CASE SendNode \/ Tick
  <2>1. phase = "open"
    BY <1>0, <1>4 DEF SendNode, Tick, NoiseInv
  <2>2. noise \in Keyed
    BY <1>0, <2>1 DEF NoiseInv
  <2>3. noise' = noise \/ noise' = Written(noise)
    BY <1>4 DEF SendNode, Tick, SendFrame
  <2>4. noise'.read = noise.read
    BY <2>2, <2>3 DEF Written, Keyed, Noise
  <2> QED
    BY <1>1, <1>4, <2>4 DEF SendNode, Tick
<1>5. CASE Finish
  <2>1. phase = "hello" /\ down # << >> /\ UNCHANGED << srv, inBytes, errors >> /\ phase' # "open"
    BY <1>5 DEF Finish
  <2>2. srv.phase = "finish"
    BY <1>0, <2>1 DEF UpInv, DownInv
  <2>3. noise'.read = noise.read
    <3>1. NoiseInv'
      BY NoiseStep
    <3>2. noise'.read = 0
      BY <2>1, <3>1 DEF NoiseInv, Handshaking
    <3> QED
      BY <1>n, <2>1, <3>2
  <2> QED
    BY <1>0, <2>1, <2>2, <2>3 DEF StreamInv, ReadTo, Run
<1>6. CASE Open
  <2>1. phase = "finish" /\ Handshaking(noise, 3, 1) /\ noise' = FinishInit(noise)
        /\ UNCHANGED << down, srv, inBytes, errors >>
    BY <1>0, <1>6 DEF Open, NoiseInv
  <2>2. Handshaking(MixIntoKey(noise), 4, 0)
    BY <2>1, MixIntoKeyHandshaking
  <2>3. noise'.read = 0
    BY <2>1, <2>2 DEF FinishInit, Handshaking, Noise
  <2> QED
    BY <1>1, <1>n, <2>1, <2>3
<1>7. CASE Receive
  <2>1. CASE phase = "open"
    <3>1. /\ down \in Seq(Bytes) /\ srv.phase = "open" /\ inBytes \o down[1].pieces \in Seq(Piece)
          /\ TakeTurn(inBytes \o down[1].pieces, decoding) /\ srv' = srv /\ down' = Tail(down) /\ down # << >>
      BY <1>7, <2>1, ReceivedPieces DEF Receive
    <3>2. noise \in Keyed
      BY <1>0, <2>1 DEF NoiseInv
    <3>3. ASSUME ~errors.unheard
          PROVE  /\ Run(inBytes \o down[1].pieces, 2 * noise.read + 2)
                 /\ Stream(down', 2 * noise.read + 2 + Len(inBytes \o down[1].pieces), 2 * srv.sent + 2)
      <4>1. Run(inBytes, 2 * noise.read + 2) /\ Stream(down, ReadTo, 2 * srv.sent + 2)
        BY <1>0, <3>1, <3>3 DEF StreamInv
      <4>2. /\ down[1].pieces \in Seq(Piece) /\ Run(down[1].pieces, ReadTo)
            /\ Stream(Tail(down), ReadTo + Len(down[1].pieces), 2 * srv.sent + 2)
        <5>1. 2 * srv.sent + 2 \in Nat
          BY <1>0
        <5> QED
          BY <1>n, <3>1, <4>1, <5>1, StreamOfTail
      <4>3. /\ Run(inBytes \o down[1].pieces, 2 * noise.read + 2)
            /\ Len(inBytes \o down[1].pieces) = Len(inBytes) + Len(down[1].pieces)
        <5>1. 2 * noise.read + 2 \in Nat /\ Run(down[1].pieces, 2 * noise.read + 2 + Len(inBytes))
          BY <1>n, <4>2 DEF ReadTo
        <5> QED
          BY <1>0, <4>1, <4>2, <5>1, RunOfConcat
      <4>4. ReadTo + Len(down[1].pieces) = 2 * noise.read + 2 + Len(inBytes \o down[1].pieces)
        <5>1. Len(inBytes) \in Nat /\ Len(down[1].pieces) \in Nat
          BY <1>0, <4>2, LenProperties
        <5> QED
          BY <1>n, <4>3, <5>1, SMTT(30) DEF ReadTo
      <4> QED
        BY <3>1, <4>2, <4>3, <4>4
    <3> QED
      BY <1>2, <3>1, <3>2, <3>3
  <2>2. CASE phase # "open"
    <3>1. errors' = [errors EXCEPT !.unheard = TRUE]
      BY <1>7, <2>2 DEF Receive
    <3>2. errors'.unheard
      BY <1>0, <3>1 DEF Errors
    <3> QED
      BY <3>2 DEF StreamInv
  <2> QED
    BY <2>1, <2>2
<1>8. ASSUME NEW i \in 1..MaxFrames, Deliver(i) PROVE StreamInv'
  <2>1. noise \in Keyed /\ UNCHANGED << srv, down >>
    BY <1>8, DeliverOpen DEF Deliver
  <2>2. CASE decoding[i] \in MalformedFrames
    <3>1. errors' = [errors EXCEPT !.decode = TRUE] /\ UNCHANGED << inBytes, noise >>
      BY <1>8, <2>2 DEF Deliver
    <3>2. errors'.unheard = errors.unheard /\ errors'.decrypt = errors.decrypt
      BY <1>0, <3>1 DEF Errors
    <3> QED
      BY <1>0, <2>1, <3>1, <3>2 DEF StreamInv, ReadTo, Run
  <2>3. CASE decoding[i] \notin MalformedFrames
    <3>1. TakeTurn(inBytes, RemoveAt(decoding, i))
      BY <1>8, <2>3 DEF Deliver, NextTurn
    <3>2. ~errors.unheard => /\ Run(inBytes, 2 * noise.read + 2)
                             /\ srv.phase = "open" => Stream(down', 2 * noise.read + 2 + Len(inBytes), 2 * srv.sent + 2)
                             /\ srv.phase # "open" => 2 * noise.read + 2 + Len(inBytes) = 2
      BY <1>0, <2>1 DEF StreamInv, ReadTo
    <3> QED
      BY <1>0, <1>2, <2>1, <3>1, <3>2
  <2> QED
    BY <2>2, <2>3
<1>9. CASE ServerHello
  <2>1. srv.phase = "hello" /\ srv' = [srv EXCEPT !.phase = "finish"] /\ UNCHANGED << inBytes, errors, noise >>
    BY <1>9 DEF ServerHello
  <2>2. srv'.phase = "finish"
    BY <1>0, <2>1 DEF Server
  <2> QED
    BY <1>0, <2>1, <2>2 DEF StreamInv, ReadTo, Run
<1>10. CASE ServerReads
  <2>1. UNCHANGED << down, inBytes, errors, noise >>
    BY <1>10 DEF ServerReads
  <2>2. \/ srv' = [srv EXCEPT !.phase = "open", !.broken = srv'.broken]
        \/ srv' = [srv EXCEPT !.read = srv'.read, !.broken = srv'.broken]
    BY <1>0, <1>10 DEF ServerReads, Server
  <2>3. srv'.sent = srv.sent /\ (srv'.phase = srv.phase \/ srv'.phase = "open")
    BY <1>0, <2>2 DEF Server
  <2>4. CASE srv'.phase = srv.phase
    BY <1>0, <2>1, <2>3, <2>4 DEF StreamInv, ReadTo, Run
  <2>5. CASE srv'.phase = "open" /\ srv.phase # "open"
    <3>1. up # << >> /\ up[1].type # "hello"
      BY <1>10 DEF ServerReads
    <3>2. phase \in {"finish", "open"} /\ srv.phase = "finish"
      <4>1. << HelloSent >>[1] = HelloSent /\ HelloSent.type = "hello"
        BY DEF HelloSent
      <4> QED
        BY <1>0, <2>5, <3>1, <4>1 DEF UpInv
    <3>3. down = << >> /\ srv.sent = 0 /\ Len(down) = 0
      BY <1>0, <3>2, EmptySeq DEF DownInv
    <3>4. Stream(down, 2, 2)
      BY <3>3 DEF Stream
    <3> QED
      BY <1>0, <2>1, <2>3, <2>5, <3>3, <3>4 DEF StreamInv, ReadTo, Run
  <2> QED
    BY <2>3, <2>4, <2>5
<1>11. CASE ServerSends
  <2>1. UNCHANGED << inBytes, errors, noise >> /\ srv.phase = "open"
        /\ \E x : srv' = [srv EXCEPT !.sent = x]
    BY <1>11 DEF ServerSends
  <2>2. srv'.phase = "open" /\ down \in Seq(Bytes)
    BY <1>0, <2>1 DEF DownInv, Server
  <2>3. PICK s, r \in Seq(Piece) :
           /\ Len(s) > 0 /\ Run(s, 2 * srv.sent + 2) /\ Run(r, 2 * srv.sent + 2 + Len(s))
           /\ 2 * srv'.sent + 2 = 2 * srv.sent + 2 + Len(s) + Len(r)
           /\ down' = IF Len(r) = 0 THEN Append(down, Pieced(s)) ELSE Append(Append(down, Pieced(s)), Pieced(r))
    BY <1>11, ServerSendsPieces
  <2> SUFFICES ASSUME ~errors.unheard PROVE Stream(down', ReadTo, 2 * srv'.sent + 2)
    BY <1>0, <2>1, <2>2 DEF StreamInv, ReadTo, Run
  <2> DEFINE q == 2 * srv.sent + 2
             d == Append(down, Pieced(s))
  <2>4. Stream(down, ReadTo, q) /\ q \in Nat /\ Len(s) \in Nat /\ Len(r) \in Nat
    BY <1>0, <2>1, LenProperties DEF StreamInv
  <2>5. d \in Seq(Bytes) /\ Stream(d, ReadTo, q + Len(s))
    BY <1>n, <2>2, <2>3, <2>4, StreamOfAppend
  <2>6. CASE Len(r) = 0
    BY <2>3, <2>4, <2>5, <2>6
  <2>7. CASE Len(r) # 0
    <3>1. Append(d, Pieced(r)) \in Seq(Bytes) /\ Stream(Append(d, Pieced(r)), ReadTo, q + Len(s) + Len(r))
      <4>1. q + Len(s) \in Nat /\ Len(r) > 0 /\ Run(r, q + Len(s))
        BY <2>3, <2>4, <2>7
      <4> HIDE DEF d, q
      <4> QED
        BY <1>n, <2>5, <4>1, StreamOfAppend
    <3> QED
      BY <2>3, <2>7, <3>1
  <2> QED
    BY <2>6, <2>7
<1>12. CASE UNCHANGED vars
  BY <1>1, <1>12 DEF vars
<1> QED
  BY <1>3, <1>4, <1>5, <1>6, <1>7, <1>8, <1>9, <1>10, <1>11, <1>12 DEF Next

-----------------------------------------------------------------------------

\* The frame opened last comes last.
LEMMA OrderOfOpened ==
  ASSUME NEW dec, NEW done, NEW n \in Nat, Ordered(dec, done, n)
  PROVE  Ordered(Append(dec, n + 1), done, n + 1)
<1> DEFINE s == Append(dec, n + 1)
<1>1. dec \in Seq(Nat) /\ done \in Seq(Nat) /\ n + 1 \in Nat
  BY DEF Ordered
<1>2. /\ s \in Seq(Nat) /\ Len(s) = Len(dec) + 1 /\ Len(dec) \in Nat /\ Len(done) \in Nat
      /\ \A i \in 1..Len(dec) : s[i] = dec[i]
      /\ s[Len(dec) + 1] = n + 1
  BY <1>1, AppendProperties, LenProperties
<1> HIDE DEF s
<1>3. \A i \in 1..Len(dec) : dec[i] \in Nat /\ dec[i] <= n
  BY <1>1, ElementOfSeq DEF Ordered
<1>4. \A i \in 1..Len(done) : done[i] \in Nat /\ done[i] <= n
  BY <1>1, ElementOfSeq DEF Ordered
<1>5. \A i \in 1..Len(s) : i \in 1..Len(dec) \/ i = Len(dec) + 1
  BY <1>2
<1>6. \A i \in 1..Len(s) : s[i] <= n + 1
  BY <1>2, <1>3, <1>5
<1>7. ASSUME NEW i \in 1..Len(s), NEW j \in 1..Len(s), i < j PROVE s[i] < s[j]
  <2>1. i \in 1..Len(dec)
    BY <1>2, <1>7
  <2>2. CASE j \in 1..Len(dec)
    BY <1>2, <1>7, <2>1, <2>2 DEF Ordered
  <2>3. CASE j = Len(dec) + 1
    BY <1>2, <1>3, <2>1, <2>3
  <2> QED
    BY <1>5, <2>2, <2>3
<1>8. ASSUME NEW i \in 1..Len(done), NEW j \in 1..Len(s) PROVE MayFollow(done[i], s[j])
  <2>1. CASE j \in 1..Len(dec)
    BY <1>2, <2>1 DEF Ordered
  <2>2. CASE j = Len(dec) + 1
    BY <1>2, <1>4, <2>2 DEF MayFollow
  <2> QED
    BY <1>5, <2>1, <2>2
<1>9. \A i \in 1..Len(done) : done[i] <= n + 1
  BY <1>4
<1> QED
  BY <1>1, <1>2, <1>6, <1>7, <1>8, <1>9 DEF Ordered, s

\* A frame that has been decoded leaves the others in order.
LEMMA OrderOfDropped ==
  ASSUME NEW dec, NEW done, NEW n \in Nat, Ordered(dec, done, n), NEW i \in 1..Len(dec)
  PROVE  Ordered(RemoveAt(dec, i), done, n)
<1> DEFINE s == RemoveAt(dec, i)
           At(j) == IF j < i THEN j ELSE j + 1
<1>1. dec \in Seq(Nat) /\ done \in Seq(Nat) /\ Len(dec) \in Nat
  BY LenProperties DEF Ordered
<1>2. /\ s \in Seq(Nat) /\ Len(s) = Len(dec) - 1
      /\ \A j \in 1..Len(s) : s[j] = dec[At(j)] /\ At(j) \in 1..Len(dec)
  <2>1. /\ s \in Seq(Nat) /\ Len(s) = Len(dec) - 1
        /\ \A j \in 1..Len(dec) - 1 : s[j] = IF j < i THEN dec[j] ELSE dec[j + 1]
    BY <1>1, RemoveAtProperties
  <2> HIDE DEF s
  <2>2. \A j \in 1..Len(s) : s[j] = dec[At(j)]
    BY <2>1
  <2>3. \A j \in 1..Len(s) : At(j) \in 1..Len(dec)
    BY <1>1, <2>1
  <2> QED
    BY <2>1, <2>2, <2>3
<1>3. \A j, l \in 1..Len(s) : j < l => At(j) < At(l)
  BY <1>1, <1>2, SMTT(30)
<1> HIDE DEF s, At
<1> QED
  BY <1>1, <1>2, <1>3 DEF Ordered, s

\* One that is handed on may come before each that is not yet: it is the first
\* of those that are not compressed, or none is left.
LEMMA OrderOfDelivered ==
  ASSUME Ordered(decoding, delivered, noise.read), noise.read \in Nat,
         NEW i \in 1..Len(decoding), Decodes(i)
  PROVE  Ordered(RemoveAt(decoding, i), Append(delivered, decoding[i]), noise.read)
<1> DEFINE s == RemoveAt(decoding, i)
           At(j) == IF j < i THEN j ELSE j + 1
           d == decoding[i]
           done == Append(delivered, d)
<1>1. decoding \in Seq(Nat) /\ delivered \in Seq(Nat) /\ Len(decoding) \in Nat /\ Len(delivered) \in Nat
  BY LenProperties DEF Ordered
<1>2. d \in Nat /\ d <= noise.read /\ \A j \in 1..Len(decoding) : decoding[j] \in Nat
  BY <1>1, ElementOfSeq DEF Ordered
<1>3. Ordered(s, delivered, noise.read)
  BY OrderOfDropped
<1>4. /\ Len(s) = Len(decoding) - 1
      /\ \A j \in 1..Len(s) : s[j] = decoding[At(j)] /\ At(j) \in 1..Len(decoding) /\ At(j) # i
  <2>1. /\ s \in Seq(Nat) /\ Len(s) = Len(decoding) - 1
        /\ \A j \in 1..Len(decoding) - 1 : s[j] = IF j < i THEN decoding[j] ELSE decoding[j + 1]
    BY <1>1, RemoveAtProperties
  <2> HIDE DEF s
  <2>2. \A j \in 1..Len(s) : s[j] = decoding[At(j)]
    BY <2>1
  <2>3. \A j \in 1..Len(s) : At(j) \in 1..Len(decoding) /\ At(j) # i
    <3> DEFINE n == Len(decoding)
    <3>1. i \in 1..n /\ n \in Nat /\ Len(s) = n - 1
      BY <1>1, <2>1
    <3> HIDE DEF n
    <3>2. \A j \in 1..(n - 1) : At(j) \in 1..n /\ At(j) # i
      BY <3>1, SMTT(30)
    <3> QED
      BY Zenon, <3>1, <3>2 DEF n
  <2> QED
    BY <2>1, <2>2, <2>3
<1> HIDE DEF s, At
<1>5. ASSUME NEW j \in 1..Len(decoding), j # i PROVE MayFollow(d, decoding[j])
  <2>1. CASE i < j
    BY <2>1 DEF Ordered, MayFollow
  <2>2. CASE ~(i < j)
    <3>1. j < i /\ decoding[j] < d /\ Zipped(decoding[j])
      BY <1>1, <1>5, <2>2 DEF Decodes, Ordered
    <3> QED
      BY <1>2, <3>1 DEF MayFollow, Zipped
  <2> QED
    BY <2>1, <2>2
<1>6. /\ done \in Seq(Nat) /\ Len(done) = Len(delivered) + 1
      /\ \A j \in 1..Len(delivered) : done[j] = delivered[j]
      /\ done[Len(delivered) + 1] = d
  BY <1>1, <1>2, AppendProperties
<1>7. \A j \in 1..Len(delivered) : MayFollow(delivered[j], d)
  BY DEF Ordered
<1> HIDE DEF done, d
<1>8. \A j \in 1..Len(done) : j \in 1..Len(delivered) \/ j = Len(delivered) + 1
  BY <1>1, <1>6
<1>9. \A j \in 1..Len(done) : done[j] <= noise.read
  BY <1>2, <1>3, <1>6, <1>8 DEF Ordered
<1>10. ASSUME NEW j \in 1..Len(done), NEW l \in 1..Len(s) PROVE MayFollow(done[j], s[l])
  <2>1. CASE j \in 1..Len(delivered)
    BY <1>3, <1>6, <2>1 DEF Ordered
  <2>2. CASE j = Len(delivered) + 1
    BY <1>4, <1>5, <1>6, <2>2
  <2> QED
    BY <1>8, <2>1, <2>2
<1>11. ASSUME NEW j \in 1..Len(done), NEW l \in 1..Len(done), j < l PROVE MayFollow(done[j], done[l])
  <2>1. j \in 1..Len(delivered)
    BY <1>1, <1>6, <1>11
  <2>2. CASE l \in 1..Len(delivered)
    BY <1>3, <1>6, <1>11, <2>1, <2>2 DEF Ordered
  <2>3. CASE l = Len(delivered) + 1
    BY <1>6, <1>7, <2>1, <2>3
  <2> QED
    BY <1>8, <2>2, <2>3
<1> QED
  BY <1>3, <1>6, <1>9, <1>10, <1>11 DEF Ordered, s, done, d

LEMMA OrderStep ==
  ASSUME WireInv, [Next]_vars
  PROVE  OrderInv'
<1>0. /\ Ordered(decoding, delivered, noise.read) /\ NoiseInv /\ inBytes \in Seq(Piece) /\ errors \in Errors
      /\ phase # "open" => decoding = << >> /\ delivered = << >>
  BY DEF WireInv, OrderInv, DownInv
<1>n. noise.read \in Nat
  BY <1>0 DEF NoiseInv, Handshaking, Keyed, Noise
\* Outside of turns no frame is opened.
<1>1. ASSUME UNCHANGED << decoding, delivered >>, phase = "open" => noise'.read = noise.read
      PROVE  OrderInv'
  <2>1. CASE phase = "open"
    BY <1>0, <1>1, <2>1 DEF OrderInv
  <2>2. CASE phase # "open"
    <3>1. decoding' = << >> /\ delivered' = << >>
      BY <1>0, <1>1, <2>2
    <3>2. << >> \in Seq(Nat) /\ Len(<< >>) = 0
      BY EmptySeq
    <3> QED
      BY <3>1, <3>2 DEF OrderInv, Ordered
  <2> QED
    BY <2>1, <2>2
<1>2. ASSUME noise \in Keyed, NEW bytes \in Seq(Piece), NEW dec, TakeTurn(bytes, dec),
             Ordered(dec, delivered', noise.read)
      PROVE  OrderInv'
  <2>1. CASE TurnIdle(bytes, dec) \/ TurnThrows(bytes, dec)
    BY <1>2, <2>1 DEF TurnIdle, TurnThrows, OrderInv
  <2>2. CASE TurnOpens(bytes, dec)
    <3>1. decoding' = Append(dec, noise.read + 1) /\ noise'.read = noise.read + 1
      BY <1>2, <2>2 DEF TurnOpens, Keyed, Noise
    <3>2. Ordered(Append(dec, noise.read + 1), delivered', noise.read + 1)
      BY <1>2, <1>n, OrderOfOpened
    <3> QED
      BY <3>1, <3>2 DEF OrderInv
  <2> QED
    BY <1>0, <1>2, <2>1, <2>2, TurnCases
<1>3. CASE Receive
  <2>1. CASE phase = "open"
    BY <1>0, <1>2, <1>3, <2>1, ReceivedPieces DEF Receive, NoiseInv
  <2>2. CASE phase # "open"
    BY <1>1, <1>3, <2>2 DEF Receive
  <2> QED
    BY <2>1, <2>2
<1>4. ASSUME NEW i \in 1..MaxFrames, Deliver(i) PROVE OrderInv'
  <2>1. i \in 1..Len(decoding) /\ Decodes(i) /\ noise \in Keyed
    BY <1>4, DeliverOpen DEF Deliver
  <2>2. CASE decoding[i] \in MalformedFrames
    BY <1>0, <1>4, <1>n, <2>1, <2>2, OrderOfDropped DEF Deliver, OrderInv
  <2>3. CASE decoding[i] \notin MalformedFrames
    <3>1. delivered' = Append(delivered, decoding[i]) /\ TakeTurn(inBytes, RemoveAt(decoding, i))
      BY <1>4, <2>3 DEF Deliver, NextTurn
    <3>2. Ordered(RemoveAt(decoding, i), delivered', noise.read)
      BY <1>0, <1>n, <2>1, <3>1, OrderOfDelivered
    <3> QED
      BY <1>0, <1>2, <2>1, <3>1, <3>2
  <2> QED
    BY <2>2, <2>3
<1>5. CASE SocketOpens \/ DialFails \/ Hello \/ HelloUnsent \/ HelloTimeout \/ Finish \/ Open
  <2>1. UNCHANGED << decoding, delivered >> /\ phase # "open"
    BY <1>5 DEF SocketOpens, DialFails, Hello, HelloUnsent, HelloTimeout, Finish, Open
  <2> QED
    BY <1>1, <2>1
<1>6. CASE SendNode \/ Tick
  <2>1. UNCHANGED << decoding, delivered >> /\ (noise' = noise \/ noise' = Written(noise))
    BY <1>6 DEF SendNode, Tick, SendFrame
  <2>2. ASSUME phase = "open" PROVE noise'.read = noise.read
    <3>1. noise \in Keyed
      BY <1>0, <2>2 DEF NoiseInv
    <3> QED
      BY <2>1, <3>1 DEF Written, Keyed, Noise
  <2> QED
    BY <1>1, <2>1, <2>2
<1>7. CASE Dispose \/ Closes \/ ServerHello \/ ServerReads \/ ServerSends \/ UNCHANGED vars
  <2>1. UNCHANGED << decoding, delivered, noise >>
    BY <1>7 DEF Dispose, Closes, ServerHello, ServerReads, ServerSends, vars
  <2> QED
    BY <1>1, <2>1
<1> QED
  BY <1>3, <1>4, <1>5, <1>6, <1>7 DEF Next

-----------------------------------------------------------------------------

LEMMA WireInvCorrect == Spec => []WireInv
<1>1. Init => WireInv
  BY WireInit
<1>2. WireInv /\ [Next]_vars => WireInv'
  BY NoiseStep, UpStep, DownStep, StreamStep, OrderStep DEF WireInv
<1> QED
  BY <1>1, <1>2, PTL DEF Spec

\* However the stream is cut, however many calls of decodeFrame() wait at a
\* time, and in whatever order they come back, both ends seal and open under
\* the same keys and counters, unless a message came before the pump was
\* attached.
THEOREM StaysInStep == Spec => []InStep
<1>1. WireInv => InStep
  <2> SUFFICES ASSUME WireInv PROVE InStep
    OBVIOUS
  <2>1. ~srv.broken
    BY DEF WireInv, UpInv
  <2>2. errors.decrypt => errors.unheard
    BY DEF WireInv, StreamInv
  <2> QED
    BY <2>1, <2>2 DEF InStep
<1> QED
  BY <1>1, WireInvCorrect, PTL

\* onFrame gets frames once each and in the order they were sent, but for
\* compressed ones that smaller ones overtake, even after a message was lost.
THEOREM FramesInOrder == Spec => []DeliveredInOrder
<1>1. WireInv => DeliveredInOrder
  BY DEF WireInv, OrderInv, Ordered, MayFollow, DeliveredInOrder
<1> QED
  BY <1>1, WireInvCorrect, PTL

-----------------------------------------------------------------------------
(***************************************************************************)
(* Groups: the metadata an application keeps.                              *)
(***************************************************************************)

\* The states of a group that changes lead to, and the changes.
Group ==
  { g \in [subject : Subjects \cup {0}, description : Nat, ephemeral : Nat, flags : SUBSET Settings,
           members : SUBSET Persons, admins : SUBSET Persons, pending : SUBSET Persons] :
      /\ Creator \in g.members /\ Creator \notin g.admins
      /\ g.admins \subseteq g.members /\ g.pending \cap g.members = {} }

Change ==
  [tag : {"subject"}, who : {{}}, value : Subjects, prev : {0}]
  \cup [tag : {"description", "ephemeral"}, who : {{}}, value : Nat, prev : Nat]
  \cup [tag : {"not_ephemeral"} \cup Settings, who : {{}}, value : {0}, prev : {0}]
  \cup [tag : Actions \cup {"approve", "reject", "leave"}, who : SUBSET Persons, value : {0}, prev : {0}]

\* A person as metadata names them.
Member(g, u) == [id |-> u, isAdmin |-> u # Creator /\ u \in g.admins, isSuperAdmin |-> u = Creator]
MembersIn(g) == { Member(g, u) : u \in g.members }

\* A view of a group that agrees with the metadata read from it.
IsView(view, g) ==
  /\ view = [f \in DOMAIN view |-> view[f]]
  /\ {"subject", "ephemeralDuration", "participants"} \subseteq DOMAIN view
  /\ view.subject = g.subject /\ view.ephemeralDuration = g.ephemeral /\ view.participants = MembersIn(g)

\* The answer names every member once.
LEMMA NodeParticipants ==
  ASSUME NEW g \in Group, NEW b \in BOOLEAN
  PROVE  /\ { Participant(p) : p \in GroupNode(g, b).participants } = MembersIn(g)
         /\ Cardinality(GroupNode(g, b).participants) = Cardinality(g.members)
<1> DEFINE Named(u) == [jid |-> u, type |-> IF u = Creator THEN "superadmin"
                                           ELSE IF u \in g.admins THEN "admin" ELSE ""]
           ps == { Named(u) : u \in g.members }
           to == [u \in g.members |-> Named(u)]
<1>1. GroupNode(g, b).participants = ps
  BY DEF GroupNode
<1>2. \A u : Participant(Named(u)) = Member(g, u)
  BY DEF Participant, Member
<1>3. \A u, v : Named(u) = Named(v) => u = v
  OBVIOUS
<1>4. { Participant(p) : p \in ps } = MembersIn(g)
  <2> HIDE DEF Named
  <2> QED
    BY <1>2 DEF MembersIn
<1>5. Cardinality(ps) = Cardinality(g.members)
  <2> HIDE DEF Named
  <2>1. to \in [g.members -> ps] /\ \A s \in ps : \E u \in g.members : to[u] = s
    OBVIOUS
  <2>2. IsInjective(to)
    BY <1>3 DEF IsInjective
  <2>3. ExistsBijection(g.members, ps)
    <3> HIDE DEF to, ps
    <3> QED
      BY <2>1, <2>2 DEF ExistsBijection, Bijection, Injection, Surjection
  <2>4. IsFiniteSet(g.members)
    BY GroupsAssumption, FS_Subset DEF Group
  <2> QED
    BY <2>3, <2>4, FS_Bijection
<1> HIDE DEF ps
<1> QED
  BY <1>1, <1>4, <1>5

\* What is read of a group, with the size or without.
LEMMA MetadataRead ==
  ASSUME NEW g \in Group, NEW b \in BOOLEAN
  PROVE  ExtractGroupMetadata(GroupNode(g, b)) =
           [id |-> NotifiedFrom, subject |-> g.subject, descId |-> g.description,
            size |-> Cardinality(g.members),
            restrict |-> "locked" \in g.flags, announce |-> "announcement" \in g.flags,
            ephemeralDuration |-> g.ephemeral, participants |-> MembersIn(g)]
<1> DEFINE node == GroupNode(g, b)
<1>1. /\ { Participant(p) : p \in node.participants } = MembersIn(g)
      /\ Cardinality(node.participants) = Cardinality(g.members)
  BY NodeParticipants
<1>2. (IF Len(node.id) = 2 THEN node.id ELSE << node.id[1], "g.us" >>) = NotifiedFrom
  <2>1. CASE b
    <3>1. node.id = << "g", "g.us" >>
      BY <2>1 DEF GroupNode
    <3> QED
      BY <3>1 DEF NotifiedFrom
  <2>2. CASE ~b
    <3>1. node.id = << "g" >>
      BY <2>2 DEF GroupNode
    <3> QED
      BY <3>1 DEF NotifiedFrom
  <2> QED
    BY <2>1, <2>2
<1>3. (IF node.size # 0 THEN node.size ELSE Cardinality(node.participants)) = Cardinality(g.members)
  BY <1>1 DEF GroupNode
<1>4. node.subject = g.subject /\ node.description = g.description /\ node.ephemeral = g.ephemeral
  BY DEF GroupNode
<1>5. ("locked" \in node.flags) = ("locked" \in g.flags) /\ ("announcement" \in node.flags) = ("announcement" \in g.flags)
  BY DEF GroupNode
<1> HIDE DEF node
<1>6. ExtractGroupMetadata(node) =
        [id |-> IF Len(node.id) = 2 THEN node.id ELSE << node.id[1], "g.us" >>, subject |-> node.subject, descId |-> node.description,
         size |-> IF node.size # 0 THEN node.size ELSE Cardinality(node.participants),
         restrict |-> "locked" \in node.flags, announce |-> "announcement" \in node.flags,
         ephemeralDuration |-> node.ephemeral,
         participants |-> { Participant(p) : p \in node.participants }]
  BY Zenon DEF ExtractGroupMetadata
<1>7. ExtractGroupMetadata(node) =
           [id |-> NotifiedFrom, subject |-> g.subject, descId |-> g.description,
            size |-> Cardinality(g.members),
            restrict |-> "locked" \in g.flags, announce |-> "announcement" \in g.flags,
            ephemeralDuration |-> g.ephemeral, participants |-> MembersIn(g)]
  BY Zenon, <1>1, <1>2, <1>3, <1>4, <1>5, <1>6
<1> QED
  BY <1>7 DEF node
LEMMA DescriptionRead ==
  ASSUME NEW g \in Group
  PROVE  Metadata(g).descId = g.description
<1> DEFINE m == Metadata(g)
<1>1. m = [id |-> NotifiedFrom, subject |-> g.subject, descId |-> g.description,
           size |-> Cardinality(g.members),
           restrict |-> "locked" \in g.flags, announce |-> "announcement" \in g.flags,
           ephemeralDuration |-> g.ephemeral, participants |-> MembersIn(g)]
  BY MetadataRead DEF Metadata
<1> HIDE DEF m
<1>2. m.descId = g.description
  BY <1>1
<1> QED
  BY <1>2 DEF m

\* What a change makes of each part of the group.
LEMMA AppliedParts ==
  ASSUME NEW g \in Group, NEW r \in Change, Accepts(g, r)
  PROVE  LET h   == Applied(g, r)
             who == Reached(g, r)
         IN  /\ h.subject = IF r.tag = "subject" THEN r.value ELSE g.subject
             /\ h.description = IF r.tag = "description" THEN r.value ELSE g.description
             /\ h.ephemeral = IF r.tag \in {"ephemeral", "not_ephemeral"} THEN r.value ELSE g.ephemeral
             /\ h.flags \in SUBSET Settings
             /\ h.members = CASE r.tag \in {"add", "approve"} -> g.members \cup who
                               [] r.tag \in {"remove", "leave"} -> g.members \ who
                               [] OTHER -> g.members
             /\ h.pending = g.pending \ who
             /\ h.admins = CASE r.tag = "promote" -> g.admins \cup who
                              [] r.tag \in {"remove", "leave", "demote"} -> g.admins \ who
                              [] OTHER -> g.admins
             /\ h = [subject |-> h.subject, description |-> h.description, ephemeral |-> h.ephemeral,
                     flags |-> h.flags, members |-> h.members, admins |-> h.admins, pending |-> h.pending]
<1> DEFINE who == Reached(g, r)
           s == IF r.tag = "subject" THEN r.value ELSE g.subject
           d == IF r.tag = "description" THEN r.value ELSE g.description
           e == IF r.tag \in {"ephemeral", "not_ephemeral"} THEN r.value ELSE g.ephemeral
           f == CASE r.tag = "announcement" -> g.flags \cup {r.tag}
                  [] r.tag = "locked" -> g.flags \cup {r.tag}
                  [] r.tag = "not_announcement" -> g.flags \ {"announcement"}
                  [] r.tag = "unlocked" -> g.flags \ {"locked"}
                  [] OTHER -> g.flags
           m == CASE r.tag \in {"add", "approve"} -> g.members \cup who
                  [] r.tag \in {"remove", "leave"} -> g.members \ who
                  [] OTHER -> g.members
           p == g.pending \ who
           a == CASE r.tag = "promote" -> g.admins \cup who
                  [] r.tag \in {"remove", "leave", "demote"} -> g.admins \ who
                  [] OTHER -> g.admins
<1>1. Applied(g, r) = [g EXCEPT !.subject = s, !.description = d, !.ephemeral = e, !.flags = f,
                                !.members = m, !.pending = p, !.admins = a]
  BY Zenon DEF Applied
<1>2. f \in SUBSET Settings
  BY DEF Group, Settings
<1>3. g \in [subject : Subjects \cup {0}, description : Nat, ephemeral : Nat, flags : SUBSET Settings,
           members : SUBSET Persons, admins : SUBSET Persons, pending : SUBSET Persons]
  BY DEF Group
<1> HIDE DEF s, d, e, f, m, p, a, who
<1>4. Applied(g, r) = [subject |-> s, description |-> d, ephemeral |-> e, flags |-> f,
                       members |-> m, admins |-> a, pending |-> p]
  BY <1>1, <1>3
<1> DEFINE h == Applied(g, r)
<1>5. /\ h.subject = s /\ h.description = d /\ h.ephemeral = e /\ h.flags = f
      /\ h.members = m /\ h.admins = a /\ h.pending = p
  BY <1>4
<1>6. h = [subject |-> h.subject, description |-> h.description, ephemeral |-> h.ephemeral,
           flags |-> h.flags, members |-> h.members, admins |-> h.admins, pending |-> h.pending]
  BY Zenon, <1>4, <1>5
<1> HIDE DEF h
<1> QED
  BY Zenon, <1>2, <1>5, <1>6 DEF s, d, e, m, p, a, who, h

\* Whom a change reaches.
LEMMA ReachedBy ==
  ASSUME NEW g \in Group, NEW r \in Change
  PROVE  /\ Reached(g, r) \subseteq r.who /\ Reached(g, r) \subseteq Persons
         /\ r.tag \in {"add", "approve"} => Reached(g, r) \cap g.members = {}
         /\ r.tag \in {"remove", "leave", "promote", "demote"} =>
              Reached(g, r) \subseteq g.members \ {Creator}
<1>1. r.who \subseteq Persons
  BY DEF Change
<1> QED
  BY <1>1 DEF Reached, Group

\* A change leads from a group to a group.
LEMMA AppliedGroup ==
  ASSUME NEW g \in Group, NEW r \in Change
  PROVE  Applied(g, r) \in Group
<1> DEFINE who == Reached(g, r)
           hs == Applied(g, r).subject
           hd == Applied(g, r).description
           he == Applied(g, r).ephemeral
           hf == Applied(g, r).flags
           hm == Applied(g, r).members
           ha == Applied(g, r).admins
           hp == Applied(g, r).pending
<1>1. CASE ~Accepts(g, r)
  BY <1>1 DEF Applied
<1>2. CASE Accepts(g, r)
  <2>1. /\ hs = IF r.tag = "subject" THEN r.value ELSE g.subject
        /\ hd = IF r.tag = "description" THEN r.value ELSE g.description
        /\ he = IF r.tag \in {"ephemeral", "not_ephemeral"} THEN r.value ELSE g.ephemeral
        /\ hf \in SUBSET Settings
        /\ hm = CASE r.tag \in {"add", "approve"} -> g.members \cup who
                   [] r.tag \in {"remove", "leave"} -> g.members \ who
                   [] OTHER -> g.members
        /\ hp = g.pending \ who
        /\ ha = CASE r.tag = "promote" -> g.admins \cup who
                   [] r.tag \in {"remove", "leave", "demote"} -> g.admins \ who
                   [] OTHER -> g.admins
        /\ Applied(g, r) = [subject |-> hs, description |-> hd, ephemeral |-> he,
                            flags |-> hf, members |-> hm, admins |-> ha, pending |-> hp]
    BY Zenon, <1>2, AppliedParts
  <2>2. hs \in Subjects \cup {0} /\ hd \in Nat /\ he \in Nat
    BY <2>1 DEF Group, Change, Settings, Actions
  <2>3. /\ who \subseteq Persons
        /\ r.tag \in {"add", "approve"} => who \cap g.members = {}
        /\ r.tag \in {"remove", "leave", "promote", "demote"} => who \subseteq g.members \ {Creator}
    BY ReachedBy
  <2>4. /\ g.members \subseteq Persons /\ g.admins \subseteq Persons /\ g.pending \subseteq Persons
        /\ Creator \in g.members /\ Creator \notin g.admins
        /\ g.admins \subseteq g.members /\ g.pending \cap g.members = {}
    BY DEF Group
  <2> HIDE DEF who, hs, hd, he, hf, hm, ha, hp
  <2>5. /\ hm \subseteq Persons /\ ha \subseteq Persons /\ hp \subseteq Persons
        /\ Creator \in hm /\ Creator \notin ha
        /\ ha \subseteq hm /\ hp \cap hm = {}
    <3>1. CASE r.tag \in {"add", "approve"}
      BY <2>1, <2>3, <2>4, <3>1
    <3>2. CASE r.tag \in {"remove", "leave"}
      BY <2>1, <2>3, <2>4, <3>2
    <3>3. CASE r.tag \in {"promote", "demote"}
      BY <2>1, <2>3, <2>4, <3>3
    <3>4. CASE r.tag \notin {"add", "approve", "remove", "leave", "promote", "demote"}
      BY <2>1, <2>3, <2>4, <3>4
    <3> QED
      BY <3>1, <3>2, <3>3, <3>4
  <2> QED
    BY <2>1, <2>2, <2>5 DEF Group
<1> QED
  BY <1>1, <1>2

\* An event changes the view as its change does the group; of a change that
\* has none, the view holds nothing.
LEMMA ChangeFollowed ==
  ASSUME NEW g \in Group, NEW r \in Change, NEW view, IsView(view, g)
  PROVE  LET events == EventsOf(Child(g, r))
         IN  \/ events = << >> /\ IsView(view, Applied(g, r))
             \/ \E e : events = << e >> /\ IsView(Heard(view, e), Applied(g, r))
<1> DEFINE h == Applied(g, r)
           c == Child(g, r)
           who == Reached(g, r)
           told == [event |-> "group-participants.update", action |-> c.tag,
                    participants |-> { Participant(p) : p \in c.participants }]
<1>1. view = [f \in DOMAIN view |-> view[f]] /\ {"subject", "ephemeralDuration", "participants"} \subseteq DOMAIN view
      /\ view.subject = g.subject /\ view.ephemeralDuration = g.ephemeral /\ view.participants = MembersIn(g)
  BY DEF IsView
<1>2. CASE r.tag = "description" \/ r.tag \in Settings \/ r.tag = "reject"
  <2>1. EventsOf(c) = << >>
    <3>1. c.tag = r.tag
      BY <1>2 DEF Child, Settings
    <3> HIDE DEF c
    <3> QED
      BY <1>2, <3>1 DEF EventsOf, Settings, Actions
  <2>2. h.subject = g.subject /\ h.ephemeral = g.ephemeral /\ MembersIn(h) = MembersIn(g)
    <3>1. CASE ~Accepts(g, r)
      BY <3>1 DEF Applied
    <3>2. CASE Accepts(g, r)
      <4>1. r.tag \notin {"subject", "ephemeral", "not_ephemeral", "add", "approve", "remove", "leave", "promote", "demote"}
        BY <1>2 DEF Settings
      <4>2. /\ h.subject = IF r.tag = "subject" THEN r.value ELSE g.subject
            /\ h.ephemeral = IF r.tag \in {"ephemeral", "not_ephemeral"} THEN r.value ELSE g.ephemeral
            /\ h.members = CASE r.tag \in {"add", "approve"} -> g.members \cup who
                              [] r.tag \in {"remove", "leave"} -> g.members \ who
                              [] OTHER -> g.members
            /\ h.admins = CASE r.tag = "promote" -> g.admins \cup who
                             [] r.tag \in {"remove", "leave", "demote"} -> g.admins \ who
                             [] OTHER -> g.admins
        BY Zenon, <3>2, AppliedParts
      <4>3. h.subject = g.subject /\ h.ephemeral = g.ephemeral /\ h.members = g.members /\ h.admins = g.admins
        <5> HIDE DEF h, who
        <5> QED
          BY <4>1, <4>2
      <4> HIDE DEF h
      <4> QED
        BY <4>3 DEF MembersIn, Member
    <3> QED
      BY <3>1, <3>2
  <2> QED
    BY Zenon, <2>1, <2>2 DEF IsView
<1>3. CASE r.tag = "subject"
  <2> DEFINE fields == [subject |-> r.value]
             e == [event |-> "groups.update", fields |-> fields]
  <2>1. c.tag = "subject" /\ c.value = r.value
    BY <1>3 DEF Child
  <2>2. EventsOf(c) = << e >>
    <3> HIDE DEF c
    <3> QED
      <4>1. EventsOf(c) = GroupsUpdate([subject |-> c.value])
        BY <2>1 DEF EventsOf, Actions
      <4> QED
        BY Zenon, <2>1, <4>1 DEF GroupsUpdate
  <2>3. Heard(view, e) = Assigned(view, fields)
    BY DEF Heard
  <2>4. h.subject = r.value /\ h.ephemeral = g.ephemeral /\ MembersIn(h) = MembersIn(g)
    <3>1. Accepts(g, r)
      BY <1>3 DEF Accepts
    <3>2. h.subject = r.value /\ h.ephemeral = g.ephemeral /\ h.members = g.members /\ h.admins = g.admins
      BY <1>3, <3>1, AppliedParts
    <3> HIDE DEF h
    <3> QED
      BY <3>2 DEF MembersIn, Member
  <2>5. IsView(Assigned(view, fields), h)
    <3> HIDE DEF h
    <3> QED
      BY <1>1, <2>4 DEF IsView, Assigned
  <2> QED
    BY Zenon, <2>2, <2>3, <2>5
<1>4. CASE r.tag \in {"ephemeral", "not_ephemeral"}
  <2> DEFINE fields == [ephemeralDuration |-> r.value]
             e == [event |-> "groups.update", fields |-> fields]
  <2>1. c.tag = r.tag /\ c.value = r.value /\ (r.tag = "not_ephemeral" => r.value = 0)
    BY <1>4 DEF Child, Change, Actions
  <2>2. EventsOf(c) = << e >>
    <3> HIDE DEF c
    <3>1. EventsOf(c) = GroupsUpdate([ephemeralDuration |-> r.value])
      BY <1>4, <2>1 DEF EventsOf, Actions
    <3> QED
      BY Zenon, <3>1 DEF GroupsUpdate
  <2>3. Heard(view, e) = Assigned(view, fields)
    BY DEF Heard
  <2>4. h.subject = g.subject /\ h.ephemeral = r.value /\ MembersIn(h) = MembersIn(g)
    <3>1. Accepts(g, r)
      BY <1>4 DEF Accepts
    <3>2. h.subject = g.subject /\ h.ephemeral = r.value /\ h.members = g.members /\ h.admins = g.admins
      BY <1>4, <3>1, AppliedParts
    <3> HIDE DEF h
    <3> QED
      BY <3>2 DEF MembersIn, Member
  <2>5. IsView(Assigned(view, fields), h)
    <3> HIDE DEF h
    <3> QED
      BY <1>1, <2>4 DEF IsView, Assigned
  <2> QED
    BY Zenon, <2>2, <2>3, <2>5
<1>5. CASE r.tag \in Actions \cup {"approve", "leave"}
  <2> DEFINE named == { p.id : p \in told.participants }
             those == { p \in view.participants : p.id \in named }
             rest  == view.participants \ those
             shown == CASE c.tag = "add" -> rest \cup told.participants
                        [] c.tag = "remove" -> rest
                        [] c.tag \in {"promote", "demote"} ->
                             rest \cup { [p EXCEPT !.isAdmin = c.tag = "promote"] : p \in those }
             New(u) == [id |-> u, isAdmin |-> r.tag = "promote", isSuperAdmin |-> FALSE]
  <2>1. c.tag = (CASE r.tag = "approve" -> "add" [] r.tag = "leave" -> "remove" [] OTHER -> r.tag) /\ c.tag \in Actions
    BY <1>5 DEF Child, Actions
  <2>2. EventsOf(c) = << told >>
    <3> HIDE DEF c
    <3> QED
      BY <2>1 DEF EventsOf, Actions
  <2>3. Heard(view, told) = [view EXCEPT !.participants = shown]
    BY Zenon DEF Heard
  <2>4. told.participants = { New(u) : u \in who } /\ named = who
    <3> DEFINE Sent(u) == [jid |-> u, type |-> IF r.tag = "promote" THEN "admin" ELSE ""]
    <3>1. c.participants = { Sent(u) : u \in who }
      BY DEF Child
    <3>2. \A u : Participant(Sent(u)) = New(u)
      BY DEF Participant
    <3>3. told.participants = { Participant(p) : p \in c.participants }
      OBVIOUS
    <3>4. \A u : New(u).id = u
      OBVIOUS
    <3> HIDE DEF Sent, New, c, told, who
    <3>5. told.participants = { New(u) : u \in who }
      BY <3>1, <3>2, <3>3
    <3> QED
      BY <3>4, <3>5
  <2>5. those = { Member(g, u) : u \in g.members \cap who } /\ rest = { Member(g, u) : u \in g.members \ who }
    <3>1. \A u : Member(g, u).id = u
      BY DEF Member
    <3> HIDE DEF named, who
    <3> QED
      BY <1>1, <2>4, <3>1 DEF MembersIn
  <2>6. /\ h.subject = g.subject /\ h.ephemeral = g.ephemeral
        /\ h.members = CASE r.tag \in {"add", "approve"} -> g.members \cup who
                          [] r.tag \in {"remove", "leave"} -> g.members \ who
                          [] OTHER -> g.members
        /\ h.admins = CASE r.tag = "promote" -> g.admins \cup who
                         [] r.tag \in {"remove", "leave", "demote"} -> g.admins \ who
                         [] OTHER -> g.admins
    <3>1. Accepts(g, r)
      BY <1>5 DEF Accepts, Actions
    <3>2. r.tag # "subject" /\ r.tag \notin {"ephemeral", "not_ephemeral"}
      BY <1>5 DEF Actions
    <3> QED
      BY Zenon, <3>1, <3>2, AppliedParts
  <2>7. shown = MembersIn(h)
    <3>1. g.admins \subseteq g.members /\ Creator \notin g.admins
          /\ Creator \in g.members /\ (r.tag \in {"add", "approve"} => who \cap g.members = {})
          /\ (r.tag \in {"remove", "leave", "promote", "demote"} => who \subseteq g.members \ {Creator})
      BY ReachedBy DEF Group
    <3> DEFINE kept == { Member(g, u) : u \in g.members \ who }
    <3> HIDE DEF h, who, those, rest
    <3>2. CASE r.tag \in {"add", "approve"}
      <4>1. h.members = g.members \cup who /\ h.admins = g.admins
        BY <2>6, <3>2
      <4>2. \A u \in g.members : Member(h, u) = Member(g, u)
        BY <4>1 DEF Member
      <4>3. \A u \in who : Member(h, u) = New(u)
        <5>1. \A u \in who : u # Creator /\ u \notin h.admins
          BY <3>1, <3>2, <4>1
        <5>2. r.tag # "promote"
          BY <3>2
        <5> QED
          BY <5>1, <5>2 DEF Member
      <4>4. shown = rest \cup told.participants
        BY <2>1, <3>2
      <4> HIDE DEF New, shown
      <4> QED
        BY <2>4, <2>5, <3>1, <3>2, <4>1, <4>2, <4>3, <4>4 DEF MembersIn
    <3>3. CASE r.tag \in {"remove", "leave"}
      <4>1. h.members = g.members \ who /\ h.admins = g.admins \ who
        BY <2>6, <3>3
      <4>2. \A u \in g.members \ who : Member(h, u) = Member(g, u)
        BY <4>1 DEF Member
      <4>3. shown = rest
        BY <2>1, <3>3
      <4> HIDE DEF shown
      <4> QED
        BY <2>5, <4>1, <4>2, <4>3 DEF MembersIn
    <3>4. CASE r.tag \in {"promote", "demote"}
      <4> DEFINE Set(p) == [p EXCEPT !.isAdmin = c.tag = "promote"]
      <4>1. h.members = g.members /\ h.admins = IF r.tag = "promote" THEN g.admins \cup who ELSE g.admins \ who
        BY <2>6, <3>4
      <4>2. \A u \in g.members \ who : Member(h, u) = Member(g, u)
        BY <4>1 DEF Member
      <4>3. \A u \in who : Set(Member(g, u)) = Member(h, u)
        BY <2>1, <3>1, <3>4, <4>1 DEF Member
      <4>4. shown = rest \cup { Set(p) : p \in those }
        BY <2>1, <3>4
      <4> HIDE DEF shown, Set
      <4> QED
        BY <2>5, <3>1, <3>4, <4>1, <4>2, <4>3, <4>4 DEF MembersIn
    <3> QED
      BY <1>5, <3>2, <3>3, <3>4 DEF Actions
  <2>8. IsView([view EXCEPT !.participants = shown], h)
    <3> HIDE DEF h, shown
    <3> QED
      BY <1>1, <2>6, <2>7 DEF IsView
  <2> QED
    BY Zenon, <2>2, <2>3, <2>8
<1>6. \/ r.tag = "description" \/ r.tag \in Settings \/ r.tag = "reject" \/ r.tag = "subject"
      \/ r.tag \in {"ephemeral", "not_ephemeral"} \/ r.tag \in Actions \cup {"approve", "leave"}
  BY DEF Change
<1> QED
  BY Zenon, <1>2, <1>3, <1>4, <1>5, <1>6

\* What is heard of no event, of one, and of two.
LEMMA HeardInOrder ==
  ASSUME NEW view
  PROVE  /\ HeardAll(view, << >>) = view
         /\ \A e : HeardAll(view, << e >>) = Heard(view, e)
         /\ \A events : Len(events) = 2 =>
              HeardAll(view, events) = Heard(Heard(view, events[1]), events[2])
<1>1. ASSUME NEW events, Len(events) \in {0, 1, 2}
      PROVE  HeardAll(view, events) =
               IF Len(events) = 0 THEN view
               ELSE IF Len(events) = 1 THEN Heard(view, events[1]) ELSE Heard(Heard(view, events[1]), events[2])
  <2> DEFINE D == 0..Len(events)
             Recurs(f) == f = [i \in D |-> IF i = 0 THEN view ELSE Heard(f[i - 1], events[i])]
             after == CHOOSE f : Recurs(f)
             F == [i \in D |-> IF i = 0 THEN view
                               ELSE IF i = 1 THEN Heard(view, events[1]) ELSE Heard(Heard(view, events[1]), events[2])]
  <2>1. Recurs(F)
    <3>1. \A i \in D : F[i] = IF i = 0 THEN view ELSE Heard(F[i - 1], events[i])
      BY <1>1
    <3> HIDE DEF D
    <3> QED
      BY <3>1
  <2>2. Recurs(after)
    <3> HIDE DEF F, Recurs
    <3> QED
      BY Zenon, <2>1
  <2>3. HeardAll(view, events) = after[Len(events)]
    BY Zenon DEF HeardAll
  <2>4. PICK f : f = after
    OBVIOUS
  <2>5. f = [i \in D |-> IF i = 0 THEN view ELSE Heard(f[i - 1], events[i])]
    BY Zenon, <2>2, <2>4
  <2>6. HeardAll(view, events) = f[Len(events)]
    BY Zenon, <2>3, <2>4
  <2> HIDE DEF after
  <2> QED
    BY <1>1, <2>5, <2>6
<1>2. HeardAll(view, << >>) = view
  BY <1>1
<1>3. \A e : HeardAll(view, << e >>) = Heard(view, e)
  BY <1>1
<1>4. \A events : Len(events) = 2 => HeardAll(view, events) = Heard(Heard(view, events[1]), events[2])
  BY <1>1
<1> QED
  BY <1>2, <1>3, <1>4

\* The groups and the changes that the properties are about.
LEMMA GroupsAndChanges ==
  /\ GroupStates \subseteq Group
  /\ \A g \in Group : Requests(Metadata(g)) \subseteq Change
<1>1. GroupStates \subseteq Group
  <2>1. ASSUME NEW s \in Subjects, NEW who \in SUBSET Persons
        PROVE  Created(GroupCreate(s, who)) \in Group
    BY GroupsAssumption DEF Created, GroupCreate, Request, Group
  <2>2. ASSUME NEW d \in Texts \cup {0}, NEW e \in Durations \cup {0},
               NEW m \in { s \in SUBSET Persons : Creator \in s },
               NEW a \in SUBSET (Persons \ {Creator}), NEW q \in SUBSET (Persons \ {Creator}),
               a \subseteq m, q \cap m = {}
        PROVE  [subject |-> 0, description |-> d, ephemeral |-> e, flags |-> {},
                members |-> m, admins |-> a, pending |-> q] \in Group
    BY <2>2, GroupsAssumption DEF Group
  <2> QED
    BY <2>1, <2>2 DEF GroupStates
<1>2. ASSUME NEW g \in Group
      PROVE  Requests(Metadata(g)) \subseteq Change
  <2>1. Metadata(g).descId \in Nat
    BY DescriptionRead DEF Group
  <2>2. \A s \in Subjects : GroupUpdateSubject(s) \in Change
    BY DEF GroupUpdateSubject, Request, Change
  <2>3. \A s \in Settings : GroupSettingUpdate(s) \in Change
    BY DEF GroupSettingUpdate, Request, Change
  <2>4. \A d \in Durations \cup {0} : GroupToggleEphemeral(d) \in Change
    BY GroupsAssumption DEF GroupToggleEphemeral, Request, Change
  <2>5. \A t \in Texts \cup {0} : GroupUpdateDescription(Metadata(g), t) \in Change
    BY <2>1, GroupsAssumption DEF GroupUpdateDescription, Request, Change
  <2>6. \A who \in SUBSET Persons, a \in Actions : GroupParticipantsUpdate(who, a) \in Change
    BY DEF GroupParticipantsUpdate, Request, Change
  <2>7. \A who \in SUBSET Persons, a \in {"approve", "reject"} : GroupRequestParticipantsUpdate(who, a) \in Change
    BY DEF GroupRequestParticipantsUpdate, Request, Change
  <2>8. \A u \in Persons : GroupLeave(u) \in Change
    BY DEF GroupLeave, Request, Change
  <2> QED
    BY <2>2, <2>3, <2>4, <2>5, <2>6, <2>7, <2>8 DEF Requests
<1> QED
  BY <1>1, <1>2

\* Metadata that was just read is a view.
LEMMA MetadataIsView ==
  ASSUME NEW g \in Group
  PROVE  IsView(Metadata(g), g)
<1> DEFINE view == Metadata(g)
<1>1. view = [id |-> NotifiedFrom, subject |-> g.subject, descId |-> g.description,
              size |-> Cardinality(g.members),
              restrict |-> "locked" \in g.flags, announce |-> "announcement" \in g.flags,
              ephemeralDuration |-> g.ephemeral, participants |-> MembersIn(g)]
  BY MetadataRead DEF Metadata
<1> HIDE DEF view
<1>2. IsView(view, g)
  BY <1>1 DEF IsView
<1> QED
  BY <1>2 DEF view

\* The events of two changes, one after the other.
LEMMA TwoChangesFollowed ==
  ASSUME NEW g \in Group, NEW r1 \in Change, NEW r2 \in Change
  PROVE  LET g1 == Applied(g, r1)
             events == EventsOf(Child(g, r1)) \o EventsOf(Child(g1, r2))
         IN  IsView(HeardAll(Metadata(g), events), Applied(g1, r2))
<1> DEFINE g1 == Applied(g, r1)
           g2 == Applied(g1, r2)
           s1 == EventsOf(Child(g, r1))
           s2 == EventsOf(Child(g1, r2))
           view == Metadata(g)
<1>1. IsView(view, g)
  BY Zenon, MetadataIsView
<1>2. g1 \in Group /\ g2 \in Group
  BY AppliedGroup
<1>3. \/ s1 = << >> /\ IsView(view, g1)
      \/ \E e : s1 = << e >> /\ IsView(Heard(view, e), g1)
  BY Zenon, <1>1, ChangeFollowed
<1>4. \A v : IsView(v, g1) => \/ s2 = << >> /\ IsView(v, g2)
                             \/ \E e : s2 = << e >> /\ IsView(Heard(v, e), g2)
  BY Zenon, <1>2, ChangeFollowed
<1> HIDE DEF view, g1, g2, s1, s2
<1>5. CASE s1 = << >> /\ IsView(view, g1)
  <2>1. CASE s2 = << >> /\ IsView(view, g2)
    <3>1. s1 \o s2 = << >>
      BY <1>5, <2>1
    <3> QED
      BY Zenon, <2>1, <3>1, HeardInOrder DEF view, g1, g2, s1, s2
  <2>2. ASSUME NEW e, s2 = << e >>, IsView(Heard(view, e), g2)
        PROVE  IsView(HeardAll(view, s1 \o s2), g2)
    <3>1. s1 \o s2 = << e >>
      BY <1>5, <2>2
    <3> QED
      BY Zenon, <2>2, <3>1, HeardInOrder
  <2> QED
    BY Zenon, <1>4, <1>5, <2>1, <2>2 DEF view, g1, g2, s1, s2
<1>6. ASSUME NEW e1, s1 = << e1 >>, IsView(Heard(view, e1), g1)
      PROVE  IsView(HeardAll(view, s1 \o s2), g2)
  <2>1. CASE s2 = << >> /\ IsView(Heard(view, e1), g2)
    <3>1. s1 \o s2 = << e1 >>
      BY <1>6, <2>1
    <3> QED
      BY Zenon, <2>1, <3>1, HeardInOrder
  <2>2. ASSUME NEW e, s2 = << e >>, IsView(Heard(Heard(view, e1), e), g2)
        PROVE  IsView(HeardAll(view, s1 \o s2), g2)
    <3> DEFINE S == {e1, e}
               events == s1 \o s2
    <3>1. s1 \in Seq(S) /\ s2 \in Seq(S) /\ Len(s1) = 1 /\ Len(s2) = 1 /\ s1[1] = e1 /\ s2[1] = e
      BY <1>6, <2>2
    <3> HIDE DEF S
    <3>2. Len(events) = 2 /\ events[1] = e1 /\ events[2] = e
      BY <3>1, ConcatProperties
    <3> HIDE DEF events
    <3>3. HeardAll(view, events) = Heard(Heard(view, e1), e)
      BY Zenon, <3>2, HeardInOrder
    <3> QED
      BY Zenon, <2>2, <3>3 DEF events
  <2> QED
    BY Zenon, <1>4, <1>6, <2>1, <2>2
<1> QED
  BY Zenon, <1>3, <1>5, <1>6 DEF view, g1, g2, s1, s2

\* What the caller is told is what became of each participant.
LEMMA StatusesTold ==
  ASSUME NEW g \in Group, NEW r \in Change
  PROVE  { s.jid : s \in { t \in Statuses(Answer(g, r)) : t.status = "200" } } = Reached(g, r)
<1> DEFINE who == Reached(g, r)
           Line(u) == [jid |-> u, status |-> IF u \in who THEN "200" ELSE "409"]
<1>1. who \subseteq r.who
  BY ReachedBy
<1>2. Statuses(Answer(g, r)) = { Line(u) : u \in r.who }
  <2> DEFINE Said(u) == [jid |-> u, error |-> IF u \in who THEN "" ELSE "409"]
             Read(p) == [jid |-> p.jid, status |-> IF p.error # "" THEN p.error ELSE "200"]
  <2>1. Answer(g, r) = { Said(u) : u \in r.who }
    BY Zenon DEF Answer
  <2>2. Statuses(Answer(g, r)) = { Read(p) : p \in Answer(g, r) }
    BY Zenon DEF Statuses
  <2>3. \A u : Read(Said(u)) = Line(u)
    OBVIOUS
  <2> HIDE DEF Said, Read, Line
  <2> QED
    BY <2>1, <2>2, <2>3
<1>3. \A u : Line(u).jid = u /\ (Line(u).status = "200" <=> u \in who)
  OBVIOUS
<1> HIDE DEF Line, who
<1>4. { s.jid : s \in { t \in { Line(u) : u \in r.who } : t.status = "200" } } = who
  BY <1>1, <1>3
<1> QED
  BY Zenon, <1>2, <1>4 DEF who

\* Views of a group that are kept up to date with events agree with the group,
\* for any people, subjects, durations and descriptions; and a description is
\* replaced only by one who read it (handleNotificationStanza() in client.ts,
\* groups/index.ts).
THEOREM GroupViewsAgree == GroupsAgree
<1>1. ViewsFollow
  <2> SUFFICES ASSUME NEW g \in GroupStates, NEW r1 \in Requests(Metadata(g)),
                      NEW r2 \in Requests(Metadata(Applied(g, r1)))
               PROVE  LET g1 == Applied(g, r1)  g2 == Applied(g1, r2)
                          events == EventsOf(Child(g, r1)) \o EventsOf(Child(g1, r2))
                      IN  /\ Followed(HeardAll(Metadata(g), events)) = Followed(Metadata(g2))
                          /\ ExtractGroupMetadata(GroupNode(g2, TRUE)) = Metadata(g2)
                          /\ GroupFetchAllParticipating({GroupNode(g2, FALSE)})[NotifiedFrom] = Metadata(g2)
                          /\ { s.jid : s \in { t \in Statuses(Answer(g, r1)) : t.status = "200" } } = Reached(g, r1)
    BY Zenon DEF ViewsFollow
  <2> DEFINE g1 == Applied(g, r1)
             g2 == Applied(g1, r2)
             events == EventsOf(Child(g, r1)) \o EventsOf(Child(g1, r2))
             heard == HeardAll(Metadata(g), events)
  <2>1. g \in Group /\ r1 \in Change
    BY GroupsAndChanges
  <2>2. g1 \in Group
    BY <2>1, AppliedGroup
  <2>3. r2 \in Change
    BY <2>2, GroupsAndChanges
  <2>4. g2 \in Group
    BY <2>2, <2>3, AppliedGroup
  <2>5. IsView(heard, g2)
    BY Zenon, <2>1, <2>3, TwoChangesFollowed
  <2>6. \A b \in BOOLEAN : ExtractGroupMetadata(GroupNode(g2, b)) =
           [id |-> NotifiedFrom, subject |-> g2.subject, descId |-> g2.description,
            size |-> Cardinality(g2.members),
            restrict |-> "locked" \in g2.flags, announce |-> "announcement" \in g2.flags,
            ephemeralDuration |-> g2.ephemeral, participants |-> MembersIn(g2)]
    BY Zenon, <2>4, MetadataRead
  <2>7. { s.jid : s \in { t \in Statuses(Answer(g, r1)) : t.status = "200" } } = Reached(g, r1)
    BY Zenon, <2>1, StatusesTold
  <2> HIDE DEF heard, g2
  <2> DEFINE m == Metadata(g2)
  <2>8. ExtractGroupMetadata(GroupNode(g2, TRUE)) = m /\ ExtractGroupMetadata(GroupNode(g2, FALSE)) = m
    BY Zenon, <2>6 DEF Metadata
  <2>9. m.id = NotifiedFrom /\ m.subject = g2.subject /\ m.ephemeralDuration = g2.ephemeral
        /\ m.participants = MembersIn(g2)
    <3>1. PICK b \in BOOLEAN : b = FALSE
      OBVIOUS
    <3>2. m = [id |-> NotifiedFrom, subject |-> g2.subject, descId |-> g2.description,
            size |-> Cardinality(g2.members),
            restrict |-> "locked" \in g2.flags, announce |-> "announcement" \in g2.flags,
            ephemeralDuration |-> g2.ephemeral, participants |-> MembersIn(g2)]
      BY Zenon, <2>6, <2>8, <3>1
    <3> HIDE DEF m
    <3> QED
      BY <3>2
  <2>10. Followed(heard) = Followed(m)
    BY Zenon, <2>5, <2>9 DEF Followed, IsView
  <2>11. GroupFetchAllParticipating({GroupNode(g2, FALSE)})[NotifiedFrom] = m
    <3> DEFINE node == GroupNode(g2, FALSE)
               data == { ExtractGroupMetadata(x) : x \in {node} }
    <3>1. data = {m}
      <4> HIDE DEF m, node
      <4>1. ExtractGroupMetadata(node) = m
        BY Zenon, <2>8 DEF node
      <4> QED
        BY <4>1
    <3>2. GroupFetchAllParticipating({node}) =
            [id \in { x.id : x \in data } |-> CHOOSE x \in data : x.id = id]
      BY Zenon DEF GroupFetchAllParticipating
    <3> HIDE DEF m, node, data
    <3>3. GroupFetchAllParticipating({node})[NotifiedFrom] = m
      BY <2>9, <3>1, <3>2
    <3> QED
      BY Zenon, <3>3 DEF node
  <2> QED
    BY Zenon, <2>7, <2>8, <2>10, <2>11 DEF heard, g2
<1>2. DescriptionsRead
  <2> SUFFICES ASSUME NEW g \in GroupStates, NEW others, NEW text
               PROVE  LET g1 == Applied(g, others)
                          g2 == Applied(g1, GroupUpdateDescription(Metadata(g), text))
                      IN  g2.description # g1.description => g1.description = g.description
    BY Zenon DEF DescriptionsRead
  <2> DEFINE g1 == Applied(g, others)
             r == GroupUpdateDescription(Metadata(g), text)
  <2>1. Metadata(g).descId = g.description
    <3>1. g \in Group
      BY GroupsAndChanges
    <3> QED
      BY <3>1, DescriptionRead
  <2>2. r.tag = "description" /\ r.prev = g.description
    BY <2>1 DEF GroupUpdateDescription, Request
  <2> HIDE DEF r, g1
  <2>3. ~Accepts(g1, r) => Applied(g1, r) = g1
    BY Zenon DEF Applied
  <2>4. Accepts(g1, r) => g1.description = g.description
    BY <2>2 DEF Accepts
  <2> QED
    BY Zenon, <2>3, <2>4 DEF r, g1
<1> QED
  BY Zenon, <1>1, <1>2 DEF GroupsAgree

\* Induction over the natural numbers, for sets.
LEMMA Induction ==
  ASSUME NEW S, 0 \in S, \A n \in Nat : n \in S => n + 1 \in S
  PROVE  \A n \in Nat : n \in S
<1> DEFINE R == {p \in Nat \X Nat : p[1] < p[2]}
           T == {n \in Nat : n \notin S}
<1> SUFFICES ASSUME T # {} PROVE FALSE
  OBVIOUS
<1>1. T \subseteq Nat
  OBVIOUS
<1>2. PICK m \in T : \A y \in T : ~(<< y, m >> \in R)
  <2>1. IsWellFoundedOn(R, Nat)
    BY NatLessThanWellFounded DEF OpToRel
  <2> HIDE DEF R, T
  <2> QED
    BY <1>1, <2>1, WFMin
<1>3. m # 0 /\ m \in Nat
  OBVIOUS
<1>4. m - 1 \notin T
  <2>1. << m - 1, m >> \in R
    BY <1>3
  <2> HIDE DEF R, T
  <2> QED
    BY <1>2, <2>1
<1> QED
  BY <1>3, <1>4

\* And of any number of changes: a view that was read once and kept up to
\* date with the events of each change since agrees with the group (as above).
THEOREM GroupViewsKept ==
  ASSUME NEW n \in Nat, NEW gs, NEW rs, NEW views,
         gs[0] \in GroupStates, views[0] = Metadata(gs[0]),
         \A i \in 1..n : /\ rs[i] \in Requests(Metadata(gs[i - 1]))
                         /\ gs[i] = Applied(gs[i - 1], rs[i])
                         /\ views[i] = HeardAll(views[i - 1], EventsOf(Child(gs[i - 1], rs[i])))
  PROVE  Followed(views[n]) = Followed(Metadata(gs[n]))
<1> DEFINE Kept(i) == gs[i] \in Group /\ IsView(views[i], gs[i])
           S == {i \in Nat : i <= n => Kept(i)}
<1>1. gs[0] \in Group
  BY GroupsAndChanges
<1>2. Kept(0)
  BY Zenon, <1>1, MetadataIsView
<1>3. ASSUME NEW i \in Nat, i \in S PROVE i + 1 \in S
  <2> SUFFICES ASSUME i + 1 <= n PROVE Kept(i + 1)
    OBVIOUS
  <2> DEFINE N == i + 1
  <2>1. N \in 1..n /\ N - 1 = i /\ Kept(i)
    BY <1>3
  <2> HIDE DEF N, Kept
  <2> DEFINE g == gs[i]
             r == rs[N]
  <2>2. r \in Requests(Metadata(g)) /\ gs[N] = Applied(g, r) /\ views[N] = HeardAll(views[i], EventsOf(Child(g, r)))
    BY <2>1
  <2>3. g \in Group /\ IsView(views[i], g)
    BY <2>1 DEF Kept
  <2> HIDE DEF g, r
  <2>4. r \in Change
    BY <2>2, <2>3, GroupsAndChanges
  <2>5. gs[N] \in Group
    BY Zenon, <2>2, <2>3, <2>4, AppliedGroup
  <2> DEFINE events == EventsOf(Child(g, r))
  <2>6. \/ events = << >> /\ IsView(views[i], gs[N])
        \/ \E e : events = << e >> /\ IsView(Heard(views[i], e), gs[N])
    BY Zenon, <2>2, <2>3, <2>4, ChangeFollowed
  <2>7. IsView(HeardAll(views[i], events), gs[N])
    <3> HIDE DEF events
    <3>1. HeardAll(views[i], << >>) = views[i] /\ \A e : HeardAll(views[i], << e >>) = Heard(views[i], e)
      BY Zenon, HeardInOrder
    <3> QED
      BY Zenon, <2>6, <3>1
  <2>8. Kept(N)
    BY Zenon, <2>2, <2>5, <2>7 DEF Kept
  <2> QED
    BY <2>8 DEF N
<1>4. \A i \in Nat : i \in S
  <2>1. 0 \in S
    BY <1>2
  <2> HIDE DEF S
  <2> QED
    BY <1>3, <2>1, Induction
<1>5. Kept(n)
  <2> HIDE DEF Kept
  <2> QED
    BY <1>4
<1> HIDE DEF S
<1>6. IsView(Metadata(gs[n]), gs[n])
  BY Zenon, <1>5, MetadataIsView
<1> QED
  BY Zenon, <1>5, <1>6 DEF Followed, IsView

\* The application's view of a group is the group's, for any frames and
\* groups, whichever notifications the frames are (handleNotificationStanza()
\* in client.ts, groups/index.ts).
THEOREM GroupsAreFollowed == Spec => []GroupsFollow
<1>1. GroupsFollow
  BY Zenon, GroupViewsAgree DEF GroupsFollow
<1> QED
  BY <1>1, PTL

-----------------------------------------------------------------------------
(***************************************************************************)
(* Packing: what the client writes in a frame, it reads back.              *)
(***************************************************************************)

\* A byte is read, and what follows is left.
LEMMA ReadByteOf ==
  ASSUME NEW x, NEW more \in Seq(Nat), x \in Nat
  PROVE  ReadByte(<< x >> \o more) = Ok(x, more)
<1>1. << x >> \o more # << >> /\ Head(<< x >> \o more) = x /\ Tail(<< x >> \o more) = more
  BY SMT
<1> QED BY <1>1, Zenon DEF ReadByte

\* So are as many bytes as there are.
LEMMA ReadBytesOf ==
  ASSUME NEW w \in Seq(Nat), NEW more \in Seq(Nat), NEW n, n = Len(w)
  PROVE  ReadBytes(n, w \o more) = Ok(w, more)
<1>1. ~(n > Len(w \o more)) BY SMT
<1>2. SubSeq(w \o more, 1, n) = w
  BY SMT
<1>3. SubSeq(w \o more, n + 1, Len(w \o more)) = more
  BY SMT
<1> QED BY <1>1, <1>2, <1>3, Zenon DEF ReadBytes

\* And numbers of two and of four bytes.
LEMMA ReadInt2Of ==
  ASSUME NEW w \in Seq(Nat), NEW more \in Seq(Nat), Len(w) = 2
  PROVE  ReadInt(2, w \o more) = Ok(256 * w[1] + w[2], more)
<1>1. ReadBytes(2, w \o more) = Ok(w, more) BY ReadBytesOf, ZenonT(60)
<1>2. 1 \in 1..Len(w) /\ 2 \in 1..Len(w) BY SMT
<1>3. w[1] \in Nat /\ w[2] \in Nat BY <1>2, ElementOfSeq, Zenon
<1> DEFINE Octet(i) == IF i > 2 THEN 0 ELSE Weight[4 - 2 + i] * w[i]
<1>5. Octet(1) = 256 * w[1] /\ Octet(2) = w[2] /\ Octet(3) = 0 /\ Octet(4) = 0
  BY <1>3, SMT DEF Weight
<1>6. ReadInt(2, w \o more) = Ok(Octet(1) + Octet(2) + Octet(3) + Octet(4), more)
  <2>1. Ok(w, more).ok /\ Ok(w, more).val = w /\ Ok(w, more).rest = more BY SMT DEF Ok
  <2> QED BY <1>1, <2>1, Zenon DEF ReadInt, Then
<1> HIDE DEF Octet
<1>7. Octet(1) + Octet(2) + Octet(3) + Octet(4) = 256 * w[1] + w[2] BY <1>3, <1>5, SMT
<1> QED BY <1>6, <1>7, Zenon

\* A number is the sum of its bytes, as far as their number goes.
LEMMA Recombined ==
  ASSUME NEW n \in Nat
  PROVE  /\ n < 65536 => 256 * ((n \div 256) % 256) + (n % 256) = n
         /\ n < 1048576 => 65536 * (((n \div 65536) % 16) % 16) + 256 * ((n \div 256) % 256) + (n % 256) = n
         /\ n < 2147483648 => 16777216 * ((n \div 16777216) % 256) + 65536 * ((n \div 65536) % 256)
                              + 256 * ((n \div 256) % 256) + (n % 256) = n
<1>1. n < 65536 => 256 * ((n \div 256) % 256) + (n % 256) = n BY SMT
<1>2. n < 1048576 => 65536 * (((n \div 65536) % 16) % 16) + 256 * ((n \div 256) % 256) + (n % 256) = n
  BY SMT
<1>3. n < 2147483648 => 16777216 * ((n \div 16777216) % 256) + 65536 * ((n \div 65536) % 256)
                        + 256 * ((n \div 256) % 256) + (n % 256) = n
  BY SMT
<1> QED BY <1>1, <1>2, <1>3, SMT

LEMMA ReadInt4Of ==
  ASSUME NEW w \in Seq(Nat), NEW more \in Seq(Nat), Len(w) = 4
  PROVE  ReadInt(4, w \o more)
         = Ok(Weight[1] * w[1] + Weight[2] * w[2] + Weight[3] * w[3] + w[4], more)
<1>1. ReadBytes(4, w \o more) = Ok(w, more) BY ReadBytesOf, ZenonT(60)
<1>2. 1 \in 1..Len(w) /\ 2 \in 1..Len(w) /\ 3 \in 1..Len(w) /\ 4 \in 1..Len(w) BY SMT
<1>3. w[1] \in Nat /\ w[2] \in Nat /\ w[3] \in Nat /\ w[4] \in Nat BY <1>2, ElementOfSeq, Zenon
<1> DEFINE Octet(i) == IF i > 4 THEN 0 ELSE Weight[4 - 4 + i] * w[i]
<1>4. /\ Octet(1) = Weight[1] * w[1] /\ Octet(2) = Weight[2] * w[2]
      /\ Octet(3) = Weight[3] * w[3] /\ Octet(4) = w[4]
  BY <1>3, SMT DEF Weight
<1>5. ReadInt(4, w \o more) = Ok(Octet(1) + Octet(2) + Octet(3) + Octet(4), more)
  <2>1. Ok(w, more).ok /\ Ok(w, more).val = w /\ Ok(w, more).rest = more BY SMT DEF Ok
  <2> QED BY <1>1, <2>1, Zenon DEF ReadInt, Then
<1> QED BY <1>4, <1>5, Zenon

\* A tag in front of bytes.
LEMMA TaggedBytes ==
  ASSUME NEW tag \in Nat, NEW w \in Seq(Nat), NEW more \in Seq(Nat)
  PROVE  /\ Head((<< tag >> \o w) \o more) = tag
         /\ Tail((<< tag >> \o w) \o more) = w \o more
         /\ (<< tag >> \o w) \o more = << tag >> \o (w \o more)
         /\ w \o more \in Seq(Nat)
<1> DEFINE in == w \o more
<1>1. in \in Seq(Nat) BY ConcatProperties, Zenon
<1>2. << tag >> \in Seq(Nat) BY SMT
<1>3. (<< tag >> \o w) \o more = << tag >> \o (w \o more)
  BY <1>2, ConcatAssociative, SMTT(60)
<1> HIDE DEF in
<1>4. Head(<< tag >> \o in) = tag /\ Tail(<< tag >> \o in) = in BY <1>1, SMT
<1> QED BY <1>1, <1>3, <1>4, Zenon DEF in

\* The bytes of a number.
LEMMA PushInt2Is ==
  ASSUME NEW n \in Nat
  PROVE  /\ PushInt(n, 2) \in Seq(Nat) /\ Len(PushInt(n, 2)) = 2
         /\ PushInt(n, 2)[1] = (n \div 256) % 256 /\ PushInt(n, 2)[2] = n % 256
<1> DEFINE a == (n \div 256) % 256
           b == n % 256
<1>1. PushInt(n, 2) = << a, b >> BY SMT DEF PushInt, Weight
<1>2. a \in Nat /\ b \in Nat BY SMT
<1> HIDE DEF a, b
<1>3. << a, b >> \in Seq(Nat) /\ Len(<< a, b >>) = 2 /\ << a, b >>[1] = a /\ << a, b >>[2] = b
  BY <1>2, SMT
<1> QED BY <1>1, <1>3, Zenon DEF a, b

LEMMA PushInt4Is ==
  ASSUME NEW n \in Nat
  PROVE  /\ PushInt(n, 4) \in Seq(Nat) /\ Len(PushInt(n, 4)) = 4
         /\ PushInt(n, 4)[1] = (n \div Weight[1]) % 256 /\ PushInt(n, 4)[2] = (n \div Weight[2]) % 256
         /\ PushInt(n, 4)[3] = (n \div Weight[3]) % 256 /\ PushInt(n, 4)[4] = n % 256
<1> DEFINE a == (n \div Weight[1]) % 256
           b == (n \div Weight[2]) % 256
           c == (n \div Weight[3]) % 256
           d == n % 256
<1>1. PushInt(n, 4) = << a, b, c, d >> BY SMT DEF PushInt, Weight
<1>2. a \in Nat /\ b \in Nat /\ c \in Nat /\ d \in Nat BY SMT DEF Weight
<1> HIDE DEF a, b, c, d
<1>3. /\ << a, b, c, d >> \in Seq(Nat) /\ Len(<< a, b, c, d >>) = 4
      /\ << a, b, c, d >>[1] = a /\ << a, b, c, d >>[2] = b
      /\ << a, b, c, d >>[3] = c /\ << a, b, c, d >>[4] = d
  BY <1>2, SMT
<1> QED BY <1>1, <1>3, ZenonT(30) DEF a, b, c, d

\* A length is read back when its bytes are, by its tag.
LEMMA ReadBack ==
  ASSUME NEW n \in Nat, NEW tag \in Nat, NEW w \in Seq(Nat), NEW more \in Seq(Nat),
         WriteByteLength(n) = << tag >> \o w, ReadLength(tag, w \o more) = Ok(n, more)
  PROVE  LengthReturns(n, more)
<1>1. Head((<< tag >> \o w) \o more) = tag /\ Tail((<< tag >> \o w) \o more) = w \o more
  BY TaggedBytes, ZenonT(60)
<1>2. ReadLength(Head((<< tag >> \o w) \o more), Tail((<< tag >> \o w) \o more)) = Ok(n, more)
  BY <1>1, Zenon
<1> QED BY <1>2, Zenon DEF LengthReturns

LEMMA LargeReturns ==
  ASSUME NEW n \in Nat, n <= LargestLength, n >= MediumLength, NEW more \in Seq(Nat)
  PROVE  LengthReturns(n, more)
<1> DEFINE b == PushInt(n, 4)
<1>1. WriteByteLength(n) = << BINARY_32 >> \o b BY Zenon DEF WriteByteLength
<1>2. /\ b \in Seq(Nat) /\ Len(b) = 4
      /\ b[1] = (n \div Weight[1]) % 256 /\ b[2] = (n \div Weight[2]) % 256
      /\ b[3] = (n \div Weight[3]) % 256 /\ b[4] = n % 256
  BY PushInt4Is, Zenon
<1> HIDE DEF b
<1>3. ReadLength(BINARY_32, b \o more) = ReadInt(4, b \o more)
  BY SMT DEF ReadLength, BINARY_8, BINARY_20, BINARY_32
<1>4. ReadInt(4, b \o more) = Ok(Weight[1] * b[1] + Weight[2] * b[2] + Weight[3] * b[3] + b[4], more)
  BY <1>2, ReadInt4Of, ZenonT(60)
<1>5. Weight[1] * b[1] + Weight[2] * b[2] + Weight[3] * b[3] + b[4] = n
  <2>1. n < 2147483648 BY SMT DEF LargestLength
  <2>2. 16777216 * ((n \div 16777216) % 256) + 65536 * ((n \div 65536) % 256)
        + 256 * ((n \div 256) % 256) + (n % 256) = n
    BY <2>1, SMT
  <2> QED BY <1>2, <2>2, SMT DEF Weight
<1>6. BINARY_32 \in Nat BY SMT DEF BINARY_32
<1> QED BY <1>1, <1>2, <1>3, <1>4, <1>5, <1>6, ReadBack, ZenonT(60)

LEMMA MediumReturns ==
  ASSUME NEW n \in Nat, ~(n >= MediumLength), n >= 256, NEW more \in Seq(Nat)
  PROVE  LengthReturns(n, more)
<1> DEFINE x == (n \div 65536) % 16
           y == (n \div 256) % 256
           z == n % 256
           b == << x, y, z >>
<1>1. WriteByteLength(n) = << BINARY_20 >> \o b
  <2>1. WriteByteLength(n) = << BINARY_20 >> \o PushInt20(n) BY Zenon DEF WriteByteLength
  <2>2. PushInt20(n) = b BY SMT DEF PushInt20
  <2> HIDE DEF b
  <2> QED BY <2>1, <2>2, Zenon
<1>2. x \in 0..15 /\ y \in Nat /\ z \in Nat BY SMT
<1>3. 65536 * (x % 16) + 256 * y + z = n
  <2>1. n < 1048576 BY SMT DEF MediumLength
  <2> QED BY <2>1, SMT
<1> HIDE DEF x, y, z
<1>4. b \in Seq(Nat) /\ Len(b) = 3 /\ b[1] = x /\ b[2] = y /\ b[3] = z BY <1>2, SMT
<1> HIDE DEF b
<1>5. ReadLength(BINARY_20, b \o more) = ReadInt20(b \o more)
  BY SMT DEF ReadLength, BINARY_8, BINARY_20, BINARY_32
<1>6. ReadInt20(b \o more) = Ok(65536 * (b[1] % 16) + 256 * b[2] + b[3], more)
  <2>1. ReadBytes(3, b \o more) = Ok(b, more) BY <1>4, ReadBytesOf, ZenonT(60)
  <2>2. Ok(b, more).ok /\ Ok(b, more).val = b /\ Ok(b, more).rest = more BY SMT DEF Ok
  <2> QED BY <2>1, <2>2, SMT DEF ReadInt20, Then
<1>7. ReadInt20(b \o more) = Ok(n, more) BY <1>3, <1>4, <1>6, SMT
<1>8. BINARY_20 \in Nat BY SMT DEF BINARY_20
<1> QED BY <1>1, <1>4, <1>5, <1>7, <1>8, ReadBack, ZenonT(60)

LEMMA SmallReturns ==
  ASSUME NEW n \in Nat, n < 256, NEW more \in Seq(Nat)
  PROVE  LengthReturns(n, more)
<1>1. WriteByteLength(n) = << BINARY_8, n >> BY SMT DEF WriteByteLength, MediumLength
<1>2. << BINARY_8, n >> = << BINARY_8 >> \o << n >> BY SMT
<1>3. << n >> \in Seq(Nat) /\ BINARY_8 \in Nat BY SMT DEF BINARY_8
<1>4. ReadLength(BINARY_8, << n >> \o more) = ReadByte(<< n >> \o more)
  BY SMT DEF ReadLength, BINARY_8, BINARY_20, BINARY_32
<1>5. ReadByte(<< n >> \o more) = Ok(n, more) BY ReadByteOf, ZenonT(60)
<1> QED BY <1>1, <1>2, <1>3, <1>4, <1>5, ReadBack, ZenonT(60)

\* The length of a string is read back from what was written, and what is
\* behind it is left, for every length below 2^31 (writeByteLength() in encoder.ts,
\* readString() in decoder.ts).
THEOREM LengthsReturn ==
  ASSUME NEW n \in Nat, n <= LargestLength, NEW more \in Seq(Nat)
  PROVE  LengthReturns(n, more)
<1>1. CASE n >= MediumLength BY <1>1, LargeReturns, Zenon
<1>2. CASE ~(n >= MediumLength) /\ n >= 256 BY <1>2, MediumReturns, Zenon
<1>3. CASE ~(n >= 256)
  <2>1. n < 256 BY <1>3, SMT
  <2> QED BY <2>1, SmallReturns, Zenon
<1> QED BY <1>1, <1>2, <1>3, Zenon

\* A length is written in bytes.
LEMMA LengthBytes ==
  ASSUME NEW n \in Nat
  PROVE  WriteByteLength(n) \in Seq(Nat)
<1>1. << BINARY_32 >> \in Seq(Nat) /\ << BINARY_20 >> \in Seq(Nat) BY SMT DEF BINARY_32, BINARY_20
<1>2. PushInt(n, 4) \in Seq(Nat) BY PushInt4Is, Zenon
<1>3. PushInt20(n) \in Seq(Nat) BY SMT DEF PushInt20
<1>4. << BINARY_8, n >> \in Seq(Nat) BY SMT DEF BINARY_8
<1>5. << BINARY_32 >> \o PushInt(n, 4) \in Seq(Nat) /\ << BINARY_20 >> \o PushInt20(n) \in Seq(Nat)
  BY <1>1, <1>2, <1>3, ConcatProperties, Zenon
<1> QED BY <1>4, <1>5, Zenon DEF WriteByteLength

\* So is a string written raw: its length, then its bytes (writeStringRaw() in
\* encoder.ts, readString() in decoder.ts).
THEOREM RawStringsReturn ==
  ASSUME NEW s \in Seq(Nat), Len(s) <= LargestLength, NEW more \in Seq(Nat)
  PROVE  RawReturns(s, more)
<1> DEFINE n == Len(s)
           w == WriteByteLength(n) \o (s \o more)
<1>1. n \in Nat /\ n <= LargestLength BY SMT
<1>2. s \o more \in Seq(Nat) BY ConcatProperties, Zenon
<1>3. WriteStringRaw(s) \o more = w
  <2>1. WriteByteLength(n) \in Seq(Nat) BY <1>1, LengthBytes, Zenon
  <2>2. (WriteByteLength(n) \o s) \o more = WriteByteLength(n) \o (s \o more)
    <3>1. ASSUME NEW a \in Seq(Nat) PROVE (a \o s) \o more = a \o (s \o more)
      BY ConcatAssociative, SMTT(60)
    <3> QED BY <2>1, <3>1, Zenon
  <2> QED BY <2>2, Zenon DEF WriteStringRaw
<1>4. ReadLength(Head(w), Tail(w)) = Ok(n, s \o more)
  <2>1. LengthReturns(n, s \o more)
    <3> HIDE DEF n
    <3> QED BY <1>1, <1>2, LengthsReturn, Zenon
  <2> QED BY <2>1, Zenon DEF LengthReturns
<1>5. ReadBytes(n, s \o more) = Ok(s, more) BY ReadBytesOf, ZenonT(60)
<1> HIDE DEF w, n
<1>6. Ok(n, s \o more).ok /\ Ok(n, s \o more).val = n /\ Ok(n, s \o more).rest = s \o more BY SMT DEF Ok
<1>7. Then(ReadLength(Head(w), Tail(w)), LAMBDA m, rest : ReadBytes(m, rest)) = Ok(s, more)
  BY <1>4, <1>5, <1>6, Zenon DEF Then
<1> QED BY <1>3, <1>7, Zenon DEF RawReturns

\* And the length of a list, up to 65535 (writeListStart() in encoder.ts,
\* readListSize() in decoder.ts).
THEOREM ListSizesReturn ==
  ASSUME NEW n \in Nat, n <= LongestList, NEW more \in Seq(Nat)
  PROVE  ListSizeReturns(n, more)
<1> DEFINE After(tag, rest) ==
             CASE tag = LIST_EMPTY -> Ok(0, rest) [] tag = LIST_8 -> ReadByte(rest)
               [] tag = LIST_16 -> ReadInt(2, rest) [] OTHER -> Thrown
<1>1. ASSUME NEW tag \in Nat, NEW rest \in Seq(Nat)
      PROVE  ReadListSize(<< tag >> \o rest) = After(tag, rest)
  <2>1. ReadByte(<< tag >> \o rest) = Ok(tag, rest) BY ReadByteOf, ZenonT(60)
  <2>2. Ok(tag, rest).ok /\ Ok(tag, rest).val = tag /\ Ok(tag, rest).rest = rest BY SMT DEF Ok
  <2> QED BY <2>1, <2>2, Zenon DEF ReadListSize, Then
<1>2. LIST_EMPTY \in Nat /\ LIST_8 \in Nat /\ LIST_16 \in Nat BY SMT DEF LIST_EMPTY, LIST_8, LIST_16
<1>3. /\ \A rest : After(LIST_EMPTY, rest) = Ok(0, rest)
      /\ \A rest : After(LIST_8, rest) = ReadByte(rest)
      /\ \A rest : After(LIST_16, rest) = ReadInt(2, rest)
  BY SMT DEF LIST_EMPTY, LIST_8, LIST_16
<1> HIDE DEF After
<1>4. CASE n = 0
  <2>1. WriteListStart(n) = << LIST_EMPTY >> BY <1>4, Zenon DEF WriteListStart
  <2> QED BY <1>1, <1>2, <1>3, <1>4, <2>1, Zenon DEF ListSizeReturns
<1>5. CASE n # 0 /\ n < 256
  <2>1. WriteListStart(n) = << LIST_8, n >> BY <1>5, Zenon DEF WriteListStart
  <2>2. << LIST_8, n >> = << LIST_8 >> \o << n >> BY SMT
  <2>3. n \in Nat /\ << n >> \in Seq(Nat) BY SMT
  <2>4. (<< LIST_8 >> \o << n >>) \o more = << LIST_8 >> \o (<< n >> \o more) /\ << n >> \o more \in Seq(Nat)
    BY <1>2, <2>3, TaggedBytes, ZenonT(60)
  <2>5. ReadByte(<< n >> \o more) = Ok(n, more) BY <2>3, ReadByteOf, ZenonT(60)
  <2> QED BY <1>1, <1>2, <1>3, <2>1, <2>2, <2>4, <2>5, ZenonT(60) DEF ListSizeReturns
<1>6. CASE n # 0 /\ ~(n < 256)
  <2> DEFINE b == PushInt(n, 2)
  <2>1. WriteListStart(n) = << LIST_16 >> \o b BY <1>6, Zenon DEF WriteListStart
  <2>3. /\ b \in Seq(Nat) /\ Len(b) = 2 /\ b[1] = (n \div 256) % 256 /\ b[2] = n % 256
    BY PushInt2Is, ZenonT(60)
  <2> HIDE DEF b
  <2>4. (<< LIST_16 >> \o b) \o more = << LIST_16 >> \o (b \o more) /\ b \o more \in Seq(Nat)
    BY <1>2, <2>3, TaggedBytes, ZenonT(60)
  <2>5. ReadInt(2, b \o more) = Ok(256 * b[1] + b[2], more) BY <2>3, ReadInt2Of, ZenonT(60)
  <2>6. 256 * b[1] + b[2] = n
    <3>1. n < 65536 BY SMT DEF LongestList
    <3> QED BY <2>3, <3>1, Recombined, SMT
  <2>7. ReadInt(2, b \o more) = Ok(n, more) BY <2>5, <2>6, Zenon
  <2> QED BY <1>1, <1>2, <1>3, <2>1, <2>4, <2>7, Zenon DEF ListSizeReturns
<1> QED BY <1>4, <1>5, <1>6, Zenon

\* The four bits for a character, and the characters a tag packs.
Code(tag, c) == IF tag = NIBBLE_8 THEN PackNibble(c) ELSE PackHex(c)
Chars(tag) == IF tag = NIBBLE_8 THEN Digits \cup {Dash, Dot} ELSE Digits \cup Upper

\* A character packed and unpacked is the same.
LEMMA CodesReturn ==
  ASSUME NEW tag \in {NIBBLE_8, HEX_8}, NEW c \in Chars(tag)
  PROVE  Code(tag, c) \in 0..15 /\ Unpackable(tag, Code(tag, c)) /\ Unpack(tag, Code(tag, c)) = c
<1>1. CASE tag = NIBBLE_8
  <2>1. c \in 48..57 \/ c = 45 \/ c = 46 BY <1>1, SMT DEF Chars, Digits, Dash, Dot
  <2>2. Code(tag, c) = (IF c = 45 THEN 10 ELSE IF c = 46 THEN 11 ELSE c - 48)
    BY <1>1, SMT DEF Code, PackNibble, Dash, Dot
  <2> QED BY <1>1, <2>1, <2>2, SMT DEF Unpackable, Unpack, Dash, Dot, NIBBLE_8, HEX_8
<1>2. CASE tag = HEX_8
  <2>1. c \in 48..57 \/ c \in 65..70 BY <1>2, SMT DEF Chars, Digits, Upper, NIBBLE_8, HEX_8
  <2>2. Code(tag, c) = (IF c \in 48..57 THEN c - 48 ELSE 10 + c - 65)
    BY <1>2, SMT DEF Code, PackHex, Digits, NIBBLE_8, HEX_8
  <2> QED BY <1>2, <2>1, <2>2, SMT DEF Unpackable, Unpack, NIBBLE_8, HEX_8
<1> QED BY <1>1, <1>2, Zenon

\* A byte has two halves.
LEMMA NibblesOf ==
  ASSUME NEW x \in 0..15, NEW y \in 0..15
  PROVE  16 * x + y \in Nat /\ (16 * x + y) \div 16 = x /\ (16 * x + y) % 16 = y
<1>1. 16 * x + y \in Nat BY SMT
<1>2. (16 * x + y) \div 16 = x BY SMT
<1>3. (16 * x + y) % 16 = y BY SMT
<1> QED BY <1>1, <1>2, <1>3, Zenon

\* And a string of digits, up to 127 of them, of even or odd length, in either
\* of the two packed forms (writePackedBytes() in encoder.ts, readPacked8() in
\* decoder.ts).
THEOREM DigitsReturn ==
  ASSUME NEW tag \in {NIBBLE_8, HEX_8}, NEW s \in Seq(Nat), NEW more \in Seq(Nat),
         tag = NIBBLE_8 => IsNibble(s), tag = HEX_8 => IsHex(s)
  PROVE  PackedReturns(s, tag, more)
<1> DEFINE half  == (Len(s) + 1) \div 2
           start == half + 128 * (Len(s) % 2)
           At(j) == IF j <= Len(s) THEN Code(tag, s[j]) ELSE 15
           b     == [i \in 1..half |-> 16 * At(2 * i - 1) + At(2 * i)]
           v     == [i \in 1..(2 * Len(b)) |-> IF i % 2 = 1 THEN b[(i + 1) \div 2] \div 16
                                               ELSE b[i \div 2] % 16]
<1>1. Len(s) \in 1..PACKED_MAX /\ \A i \in 1..Len(s) : s[i] \in Chars(tag)
  <2>1. Packs(s, Chars(tag)) BY SMT DEF IsNibble, IsHex, Chars, NIBBLE_8, HEX_8
  <2>2. s # << >> /\ Len(s) <= PACKED_MAX /\ \A i \in DOMAIN s : s[i] \in Chars(tag)
    BY <2>1, Zenon DEF Packs
  <2>3. DOMAIN s = 1..Len(s) /\ Len(s) \in Nat BY SMT
  <2>4. Len(s) \in Nat \ {0} BY <2>2, EmptySeq, Zenon
  <2>5. Len(s) \in 1..PACKED_MAX
    <3>1. Len(s) <= PACKED_MAX BY <2>2, Zenon
    <3>2. ASSUME NEW n \in Nat \ {0}, n <= 127 PROVE n \in 1..127 BY <3>2, SMT
    <3> QED BY <2>4, <3>1, <3>2, Zenon DEF PACKED_MAX
  <2> QED BY <2>2, <2>3, <2>5, Zenon
<1>2. half \in 1..64 /\ 2 * half = Len(s) + (Len(s) % 2) /\ Len(s) % 2 \in 0..1
  <2>1. \A m \in 1..127 : /\ (m + 1) \div 2 \in 1..64 /\ 2 * ((m + 1) \div 2) = m + (m % 2)
                          /\ m % 2 \in 0..1
    BY SMT
  <2> QED BY <1>1, <2>1, Zenon DEF PACKED_MAX
<1>3. \A j \in 1..(2 * half) : At(j) \in 0..15
  <2> SUFFICES ASSUME NEW j \in 1..(2 * half) PROVE At(j) \in 0..15 OBVIOUS
  <2>1. CASE j <= Len(s)
    <3>1. j \in 1..Len(s)
      <4> HIDE DEF half
      <4> QED BY <1>1, <1>2, <2>1, SMT
    <3> QED BY <1>1, <2>1, <3>1, CodesReturn, Zenon
  <2>2. CASE ~(j <= Len(s))
    <3>1. 15 \in 0..15 BY SMT
    <3> QED BY <2>2, <3>1, Zenon
  <2> QED BY <2>1, <2>2, Zenon
<1>4. /\ b \in Seq(Nat) /\ Len(b) = half
      /\ \A i \in 1..half : b[i] \div 16 = At(2 * i - 1) /\ b[i] % 16 = At(2 * i)
  <2>1. \A i \in 1..half : 2 * i - 1 \in 1..(2 * half) /\ 2 * i \in 1..(2 * half)
    <3>1. half \in 1..64 BY <1>2, Zenon
    <3> HIDE DEF half
    <3> QED BY <3>1, SMTT(30)
  <2>2. \A i \in 1..half : At(2 * i - 1) \in 0..15 /\ At(2 * i) \in 0..15 BY <1>3, <2>1, Zenon
  <2> HIDE DEF At, half
  <2>3. half \in Nat BY <1>2, SMT
  <2>4. \A i \in 1..half : 16 * At(2 * i - 1) + At(2 * i) \in Nat BY <2>2, NibblesOf, Zenon
  <2>5. b \in Seq(Nat) /\ Len(b) = half
    <3>1. b \in [1..half -> Nat] BY <2>4, Zenon
    <3> QED BY <2>3, <3>1, SMT
  <2>6. \A i \in 1..half : b[i] = 16 * At(2 * i - 1) + At(2 * i) BY Zenon
  <2> HIDE DEF b
  <2>7. ASSUME NEW i \in 1..half PROVE b[i] \div 16 = At(2 * i - 1) /\ b[i] % 16 = At(2 * i)
    <3>1. b[i] = 16 * At(2 * i - 1) + At(2 * i) BY <2>6, Zenon
    <3>2. /\ (16 * At(2 * i - 1) + At(2 * i)) \div 16 = At(2 * i - 1)
          /\ (16 * At(2 * i - 1) + At(2 * i)) % 16 = At(2 * i)
      BY <2>2, NibblesOf, Zenon
    <3> QED BY <3>1, <3>2, Zenon
  <2> QED BY <2>5, <2>7, Zenon
<1>5. WritePackedBytes(s, tag) = << tag, start >> \o b
  <2> DEFINE written == [i \in 1..half |-> 16 * Code(tag, s[2 * i - 1])
                                           + IF 2 * i <= Len(s) THEN Code(tag, s[2 * i]) ELSE 15]
  <2>1. WritePackedBytes(s, tag) = << tag, start >> \o written BY Zenon DEF WritePackedBytes, Code
  <2>2. \A i \in 1..half : 2 * i - 1 <= Len(s) BY <1>1, <1>2, SMT
  <2>3. written = b
    <3> HIDE DEF half
    <3> QED BY <2>2, Zenon
  <2> QED BY <2>1, <2>3, Zenon
<1>6. start \in Nat /\ start % 128 = half /\ (start >= 128 <=> Len(s) % 2 = 1)
  <2> DEFINE odd == Len(s) % 2
  <2>1. half \in 1..64 /\ odd \in 0..1 BY <1>2, SMT
  <2> HIDE DEF half, odd
  <2>2. half + 128 * odd \in Nat /\ (half + 128 * odd) % 128 = half /\ (half + 128 * odd >= 128 <=> odd = 1)
    BY <2>1, SMT
  <2> QED BY <2>2, Zenon DEF odd
<1>7. Len(v) = 2 * half /\ \A j \in 1..(2 * half) : v[j] = At(j)
  <2>1. ASSUME NEW j \in 1..(2 * half), j % 2 = 1 PROVE (j + 1) \div 2 \in 1..half /\ 2 * ((j + 1) \div 2) - 1 = j
    <3>1. half \in 1..64 BY <1>2, Zenon
    <3> HIDE DEF half
    <3> QED BY <2>1, <3>1, SMT
  <2>2. ASSUME NEW j \in 1..(2 * half), j % 2 # 1 PROVE j \div 2 \in 1..half /\ 2 * (j \div 2) = j
    <3>1. half \in 1..64 BY <1>2, Zenon
    <3> HIDE DEF half
    <3> QED BY <2>2, <3>1, SMT
  <2> HIDE DEF At, half, b
  <2>3. DOMAIN v = 1..(2 * half) BY <1>4, Zenon
  <2>4. Len(v) = 2 * half BY <1>2, <1>4, SMT
  <2>5. ASSUME NEW j \in 1..(2 * half) PROVE v[j] = At(j)
    <3>1. CASE j % 2 = 1
      <4>1. v[j] = b[(j + 1) \div 2] \div 16 BY <1>4, <3>1, Zenon
      <4> QED BY <1>4, <2>1, <3>1, <4>1, Zenon
    <3>2. CASE j % 2 # 1
      <4>1. v[j] = b[j \div 2] % 16 BY <1>4, <3>2, Zenon
      <4> QED BY <1>4, <2>2, <3>2, <4>1, Zenon
    <3> QED BY <3>1, <3>2, Zenon
  <2> QED BY <2>4, <2>5, Zenon
<1>8. Tail(WritePackedBytes(s, tag) \o more) = << start >> \o (b \o more) /\ b \o more \in Seq(Nat)
  <2> HIDE DEF start, b
  <2>1. tag \in Nat /\ << start >> \in Seq(Nat) /\ << tag, start >> = << tag >> \o << start >> /\ << tag >> \in Seq(Nat)
    BY <1>6, SMT DEF NIBBLE_8, HEX_8
  <2>2. (<< tag >> \o << start >>) \o b = << tag >> \o (<< start >> \o b) /\ << start >> \o b \in Seq(Nat)
    BY <1>4, <2>1, TaggedBytes, ZenonT(60)
  <2>3. Tail((<< tag >> \o (<< start >> \o b)) \o more) = (<< start >> \o b) \o more
    BY <2>1, <2>2, TaggedBytes, ZenonT(60)
  <2>4. (<< start >> \o b) \o more = << start >> \o (b \o more) /\ b \o more \in Seq(Nat)
    BY <1>4, <1>6, TaggedBytes, ZenonT(60)
  <2> QED BY <1>5, <2>1, <2>2, <2>3, <2>4, Zenon
<1>9. ReadByte(<< start >> \o (b \o more)) = Ok(start, b \o more) /\ ReadBytes(start % 128, b \o more) = Ok(b, more)
  <2> HIDE DEF start, b, half
  <2>1. ReadByte(<< start >> \o (b \o more)) = Ok(start, b \o more) BY <1>6, <1>8, ReadByteOf, ZenonT(60)
  <2>2. ReadBytes(half, b \o more) = Ok(b, more) BY <1>4, ReadBytesOf, ZenonT(60)
  <2> QED BY <1>6, <2>1, <2>2, Zenon
<1>10. \A j \in 1..(2 * half) : Unpackable(tag, v[j])
  <2>1. Unpackable(tag, 15) BY SMT DEF Unpackable
  <2>2. ASSUME NEW j \in 1..(2 * half), j <= Len(s) PROVE Unpackable(tag, At(j))
    <3>1. s[j] \in Chars(tag) BY <1>1, <2>2, SMT
    <3> QED BY <2>2, <3>1, CodesReturn, Zenon
  <2>3. ASSUME NEW j \in 1..(2 * half), ~(j <= Len(s)) PROVE Unpackable(tag, At(j))
    BY <2>1, <2>3, Zenon
  <2> HIDE DEF At, v
  <2> QED BY <1>7, <2>2, <2>3, Zenon
<1>11. \A i \in 1..Len(s) : Unpack(tag, v[i]) = s[i]
  <2> SUFFICES ASSUME NEW i \in 1..Len(s) PROVE Unpack(tag, v[i]) = s[i] OBVIOUS
  <2>1. i \in 1..(2 * half) /\ i <= Len(s)
    <3>1. half \in 1..64 /\ 2 * half = Len(s) + (Len(s) % 2) /\ Len(s) % 2 \in 0..1 BY <1>2, Zenon
    <3> HIDE DEF half
    <3> QED BY <1>1, <3>1, SMT
  <2>2. At(i) = Code(tag, s[i]) BY <2>1, Zenon
  <2>3. Unpack(tag, Code(tag, s[i])) = s[i] BY <1>1, CodesReturn, Zenon
  <2> HIDE DEF At, v
  <2> QED BY <1>7, <2>1, <2>2, <2>3, Zenon
<1> HIDE DEF start, b, At
<1>12. ReadPacked8(tag, << start >> \o (b \o more))
       = Ok([i \in 1..(Len(v) - IF start >= 128 /\ v # << >> THEN 1 ELSE 0) |-> Unpack(tag, v[i])], more)
  <2>1. /\ Ok(start, b \o more).ok /\ Ok(start, b \o more).val = start /\ Ok(start, b \o more).rest = b \o more
        /\ Ok(b, more).ok /\ Ok(b, more).val = b /\ Ok(b, more).rest = more
    BY SMT DEF Ok
  <2>2. DOMAIN v = 1..(2 * half) BY <1>4, Zenon
  <2>3. ~\E i \in DOMAIN v : ~Unpackable(tag, v[i])
    <3> HIDE DEF v
    <3> QED BY <1>10, <2>2, Zenon
  <2>4. Unpacked(tag, start, b, more)
        = Ok([i \in 1..(Len(v) - IF start >= 128 /\ v # << >> THEN 1 ELSE 0) |-> Unpack(tag, v[i])], more)
    BY <2>3, Zenon DEF Unpacked
  <2>5. ReadPacked8(tag, << start >> \o (b \o more)) = Unpacked(tag, start, b, more)
    <3> HIDE DEF v
    <3> QED BY <1>9, <2>1, ZenonT(60) DEF ReadPacked8, Then
  <2> QED BY <2>4, <2>5, Zenon
<1> HIDE DEF v
<1>13. Len(v) - (IF start >= 128 /\ v # << >> THEN 1 ELSE 0) = Len(s)
  <2> HIDE DEF half
  <2>1. v # << >>
    <3>1. Len(<< >>) = 0 BY SMT
    <3>2. Len(v) # 0 BY <1>2, <1>7, SMT
    <3> QED BY <3>1, <3>2, Zenon
  <2> QED BY <1>1, <1>2, <1>6, <1>7, <2>1, SMT
<1>14. [i \in 1..Len(s) |-> Unpack(tag, v[i])] = s BY <1>11, SMT
<1> QED BY <1>8, <1>12, <1>13, <1>14, Zenon DEF PackedReturns

=============================================================================
