--------------------------------- MODULE Wire ---------------------------------
(***************************************************************************)
(* One connection (connectOnce(), client/connect.ts): the Noise handshake  *)
(* (socket/handshake.ts), the encrypted frames of both directions and the  *)
(* asynchronous decodeFrame() (socket/noise.ts), the WebSocket below       *)
(* (socket/transport.ts) and the watchdog (socket/keepalive.ts).           *)
(*                                                                         *)
(* A ciphertext is the key and counter it is sealed with: << epoch, n >>,  *)
(* where the epoch counts the keys mixed in so far.  It opens under the    *)
(* same pair only.  Frames of the server are numbered; each is two pieces  *)
(* of the byte stream, which WebSocket messages cut anywhere.  The server  *)
(* and the network are external.                                           *)
(***************************************************************************)
EXTENDS Naturals, Sequences, FiniteSets, SequencesExt

CONSTANTS
  MaxFrames,          \* bound: frames the server sends
  ZippedFrames,       \* of these, compressed
  MalformedFrames,    \* of these, not a stanza
  MaxNodes,           \* bound: stanzas the client sends
  Interval, Grace     \* of the watchdog, in ticks

ASSUME WireAssumption ==
  /\ MaxFrames \in Nat /\ MaxNodes \in Nat
  /\ ZippedFrames \subseteq 1..MaxFrames /\ MalformedFrames \subseteq 1..MaxFrames
  /\ Interval \in Nat \ {0} /\ Grace \in Nat

VARIABLES
  phase,      \* of connectOnce()
  sock,       \* the WebSocket
  noise,      \* the state of the Noise handler
  up, down,   \* messages to the server; to the client: a hello or pieces
  srv,        \* the server's end
  inBytes,    \* received, not yet a whole frame
  decoding,   \* frames at an await of decodeFrame(), in the order they got there
  delivered,  \* frames handed to onFrame
  errors,     \* decrypt threw; decoding did; a message came while nobody listened
  watch       \* the keepalive and what was reported

vars == << phase, sock, noise, up, down, srv, inBytes, decoding, delivered, errors, watch >>

Transport == 4    \* the epoch after finishInit()

Init ==
  /\ phase = "dial" /\ sock = "connecting"
  /\ noise = [epoch |-> 0, read |-> 0, write |-> 0, finished |-> FALSE]
  /\ up = << >> /\ down = << >>
  /\ srv = [phase |-> "hello", read |-> 0, sent |-> 0, broken |-> FALSE]
  /\ inBytes = << >> /\ decoding = << >> /\ delivered = << >>
  /\ errors = [decrypt |-> FALSE, decode |-> FALSE, unheard |-> FALSE]
  /\ watch = [on |-> FALSE, ticks |-> 0, quiet |-> 0, reported |-> FALSE]

-----------------------------------------------------------------------------
(***************************************************************************)
(* The Noise handler.                                                      *)
(***************************************************************************)

\* encrypt(): the pair of the ciphertext, and the state after it.
Sealed(nz)  == << nz.epoch, nz.write >>
Written(nz) == [nz EXCEPT !.write = @ + 1]

\* decrypt(): until the handshake is finished one counter serves both ways.
Opens(nz, c)  == c = << nz.epoch, IF nz.finished THEN nz.read ELSE nz.write >>
Opened(nz)    == IF nz.finished THEN [nz EXCEPT !.read = @ + 1] ELSE [nz EXCEPT !.write = @ + 1]

MixIntoKey(nz) == [nz EXCEPT !.epoch = @ + 1, !.read = 0, !.write = 0]

FinishInit(nz) == [MixIntoKey(nz) EXCEPT !.finished = TRUE]

\* processHandshake(): the server's static key, its certificate, our key.
AfterStatic(nz) == MixIntoKey(Opened(MixIntoKey(nz)))
OurKey(nz)      == Opened(AfterStatic(nz))
Processed(nz)   == MixIntoKey(Written(OurKey(nz)))

ReadsHello(nz, h) ==
  /\ Opens(MixIntoKey(nz), h.static)
  /\ Opens(AfterStatic(nz), h.payload)

-----------------------------------------------------------------------------
(***************************************************************************)
(* The handshake.                                                          *)
(***************************************************************************)

\* WsTransport.connect(): the socket opens, or fails before.
SocketOpens ==
  /\ phase = "dial"
  /\ phase' = "connect" /\ sock' = "open"
  /\ UNCHANGED << noise, up, down, srv, inBytes, decoding, delivered, errors, watch >>

DialFails ==
  /\ phase = "dial"
  /\ phase' = "failed" /\ sock' = "closed"
  /\ UNCHANGED << noise, up, down, srv, inBytes, decoding, delivered, errors, watch >>

\* The listeners are attached, the ClientHello goes out in the clear.
Hello ==
  /\ phase = "connect" /\ sock = "open"
  /\ phase' = "hello"
  /\ up' = Append(up, [type |-> "hello"])
  /\ UNCHANGED << sock, noise, down, srv, inBytes, decoding, delivered, errors, watch >>

\* The ServerHello is one message.  A foreign certificate ends the attempt;
\* else the ClientFinish goes out and its send is awaited.
Finish ==
  /\ phase = "hello" /\ down # << >> /\ down[1].type = "hello"
  /\ down' = Tail(down)
  /\ IF ~ReadsHello(noise, down[1]) \/ ~down[1].genuine \/ sock # "open"
     THEN /\ phase' = "failed"
          /\ UNCHANGED << noise, up >>
     ELSE LET nz == Processed(noise)
          IN  /\ phase' = "finish"
              /\ up' = Append(up, [type |-> "finish", static |-> Sealed(OurKey(noise)),
                                   payload |-> Sealed(nz)])
              /\ noise' = Written(nz)
  /\ UNCHANGED << sock, srv, inBytes, decoding, delivered, errors, watch >>

\* send() rejects on a socket that closed meanwhile.
HelloUnsent ==
  /\ phase = "connect" /\ sock # "open"
  /\ phase' = "failed"
  /\ UNCHANGED << sock, noise, up, down, srv, inBytes, decoding, delivered, errors, watch >>

\* No ServerHello in time.
HelloTimeout ==
  /\ phase = "hello"
  /\ phase' = "failed"
  /\ UNCHANGED << sock, noise, up, down, srv, inBytes, decoding, delivered, errors, watch >>

\* The send is done: finishInit(), the frame pump, the close listener and
\* the watchdog.
Open ==
  /\ phase = "finish"
  /\ phase' = "open"
  /\ noise' = FinishInit(noise)
  /\ watch' = [watch EXCEPT !.on = TRUE, !.quiet = 0]
  /\ UNCHANGED << sock, up, down, srv, inBytes, decoding, delivered, errors >>

-----------------------------------------------------------------------------
(***************************************************************************)
(* decodeFrame().                                                          *)
(***************************************************************************)

BugInflateAll(n) == TRUE

Zipped(n) == n \in ZippedFrames

\* The first bytes are a whole frame.
Whole(bytes) == Len(bytes) >= 2 /\ bytes[1].part = 1

BugCountLate(bytes, dec) ==
  IF ~Whole(bytes) THEN [bytes |-> bytes, dec |-> dec, nz |-> noise, threw |-> FALSE]
  ELSE LET frame == bytes[1].frame  rest == SubSeq(bytes, 3, Len(bytes))
       IN  IF Opens([noise EXCEPT !.read = Len(delivered)], << Transport, frame - 1 >>)
           THEN [bytes |-> rest, dec |-> Append(dec, frame), nz |-> Opened(noise), threw |-> FALSE]
           ELSE [bytes |-> rest, dec |-> dec, nz |-> noise, threw |-> TRUE]

\* One turn of the loop: a whole frame is cut off and decrypted at once, and
\* decodes over the awaits that follow; if decrypt throws the loop ends.
Turn(bytes, dec) ==
  IF ~Whole(bytes) THEN [bytes |-> bytes, dec |-> dec, nz |-> noise, threw |-> FALSE]
  ELSE LET frame == bytes[1].frame  rest == SubSeq(bytes, 3, Len(bytes))
       IN  IF Opens(noise, << Transport, frame - 1 >>)
           THEN [bytes |-> rest, dec |-> Append(dec, frame), nz |-> Opened(noise), threw |-> FALSE]
           ELSE [bytes |-> rest, dec |-> dec, nz |-> noise, threw |-> TRUE]

TakeTurn(bytes, dec) ==
  LET t == Turn(bytes, dec)
  IN  /\ inBytes' = t.bytes /\ decoding' = t.dec /\ noise' = t.nz
      /\ errors' = [errors EXCEPT !.decrypt = @ \/ t.threw]

BugNoLoop(bytes, dec) == inBytes' = bytes /\ decoding' = dec /\ UNCHANGED << noise, errors >>

\* Back from the awaits the loop goes on with what inBytes holds by then.
NextTurn(bytes, dec) == TakeTurn(bytes, dec)

\* A message arrives: the pump calls decodeFrame(), whatever other calls of
\* it wait for, and the watchdog hears it.  Before the pump is attached
\* nobody does.
Receive ==
  /\ down # << >> /\ down[1].type = "pieces" /\ sock # "closed"
  /\ down' = Tail(down)
  /\ IF phase = "open"
     THEN /\ TakeTurn(inBytes \o down[1].pieces, decoding)
          /\ watch' = [watch EXCEPT !.quiet = 0]
     ELSE /\ errors' = [errors EXCEPT !.unheard = TRUE]
          /\ UNCHANGED << inBytes, decoding, noise, watch >>
  /\ UNCHANGED << phase, sock, up, srv, delivered >>

\* Frames that are not compressed take the same few microtasks each to
\* decode, and inflating takes longer than any of them.
Decodes(i) ==
  \A j \in 1..Len(decoding) :
    ~Zipped(decoding[j]) => i = j \/ (~Zipped(decoding[i]) /\ i < j)

\* It is handed on, and its call of decodeFrame() takes the next turn; one
\* that is no stanza ends the call, whatever is left in inBytes.
Deliver(i) ==
  /\ i \in 1..Len(decoding) /\ Decodes(i)
  /\ IF decoding[i] \in MalformedFrames
     THEN /\ decoding' = RemoveAt(decoding, i)
          /\ errors' = [errors EXCEPT !.decode = TRUE]
          /\ UNCHANGED << delivered, inBytes, noise >>
     ELSE /\ delivered' = Append(delivered, decoding[i])
          /\ NextTurn(inBytes, RemoveAt(decoding, i))
  /\ UNCHANGED << phase, sock, up, down, srv, watch >>

-----------------------------------------------------------------------------
(***************************************************************************)
(* Sending, the watchdog, and the end.                                     *)
(***************************************************************************)

\* sendNode() or a ping: sealed and given to the socket in one go.
SendFrame == up' = Append(up, [type |-> "frame", seal |-> Sealed(noise)]) /\ noise' = Written(noise)

SendNode ==
  /\ phase = "open" /\ sock = "open" /\ noise.write < MaxNodes
  /\ SendFrame
  /\ UNCHANGED << phase, sock, down, srv, inBytes, decoding, delivered, errors, watch >>

BugPingCounts(q) == IF sock = "open" THEN 0 ELSE q

\* After the ping the silence goes on.
AfterPing(q) == q

\* A tick of the clock; every Interval ticks the keepalive fires.  Past its
\* patience it closes the socket and reports that, every time; else it pings
\* (MaxNodes bounds the pings, too).
Tick ==
  /\ watch.on
  /\ LET quiet == IF watch.quiet > Interval + Grace THEN watch.quiet ELSE watch.quiet + 1
         ticks == (watch.ticks + 1) % Interval
         lost  == quiet > Interval + Grace
     IN  IF ticks # 0 \/ ~lost
         THEN /\ watch' = [watch EXCEPT !.ticks = ticks,
                             !.quiet = IF ticks = 0 THEN AfterPing(quiet) ELSE quiet]
              /\ IF ticks = 0 /\ sock = "open" /\ noise.write < MaxNodes THEN SendFrame
                 ELSE UNCHANGED << up, noise >>
              /\ UNCHANGED sock
         ELSE /\ watch' = [watch EXCEPT !.ticks = ticks, !.quiet = quiet, !.reported = TRUE]
              /\ sock' = IF sock = "open" THEN "closing" ELSE sock
              /\ UNCHANGED << up, noise >>
  /\ UNCHANGED << phase, down, srv, inBytes, decoding, delivered, errors >>

\* dispose(): the client is done with this connection.
Dispose ==
  /\ phase = "open" /\ watch.on
  /\ watch' = [watch EXCEPT !.on = FALSE, !.ticks = 0, !.quiet = 0]
  /\ sock' = IF sock = "open" THEN "closing" ELSE sock
  /\ UNCHANGED << phase, noise, up, down, srv, inBytes, decoding, delivered, errors >>

\* The socket closes: the handshake rejects, or the close listener reports
\* it, once; in between it goes unheard.
Closes ==
  /\ sock \in {"open", "closing"}
  /\ sock' = "closed"
  /\ phase' = IF phase = "hello" THEN "failed" ELSE phase
  /\ watch' = IF phase = "open" /\ ~watch.reported
              THEN [watch EXCEPT !.reported = TRUE] ELSE watch
  /\ UNCHANGED << noise, up, down, srv, inBytes, decoding, delivered, errors >>

-----------------------------------------------------------------------------
(***************************************************************************)
(* The server.                                                             *)
(***************************************************************************)

\* It answers the hello, with a certificate of its own or a foreign one.
ServerHello ==
  /\ srv.phase = "hello" /\ up # << >> /\ up[1].type = "hello"
  /\ up' = Tail(up)
  /\ srv' = [srv EXCEPT !.phase = "finish"]
  /\ \E g \in BOOLEAN :
       down' = Append(down, [type |-> "hello", static |-> << 1, 0 >>,
                             payload |-> << 2, 0 >>, genuine |-> g])
  /\ UNCHANGED << phase, sock, noise, inBytes, decoding, delivered, errors, watch >>

\* It reads the finish and the frames, each under the pair it expects.
ServerReads ==
  /\ up # << >> /\ up[1].type # "hello"
  /\ up' = Tail(up)
  /\ srv' = IF up[1].type = "finish"
            THEN [srv EXCEPT !.phase = "open",
                    !.broken = @ \/ up[1].static # << 2, 1 >> \/ up[1].payload # << 3, 0 >>]
            ELSE [srv EXCEPT !.read = @ + 1,
                    !.broken = @ \/ up[1].seal # << Transport, srv.read >>]
  /\ UNCHANGED << phase, sock, noise, down, inBytes, decoding, delivered, errors, watch >>

\* It sends up to two frames; their four pieces go in one message or in two,
\* cut anywhere.
Pieces(n) == << [frame |-> n, part |-> 1], [frame |-> n, part |-> 2] >>

ServerSends ==
  /\ srv.phase = "open" /\ sock = "open"
  /\ \E k \in 1..2 :
       LET n == srv.sent
           bytes == IF k = 1 THEN Pieces(n + 1) ELSE Pieces(n + 1) \o Pieces(n + 2)
       IN  /\ n + k <= MaxFrames
           /\ srv' = [srv EXCEPT !.sent = n + k]
           /\ \E cut \in 1..Len(bytes) :
                down' = down \o << [type |-> "pieces", pieces |-> SubSeq(bytes, 1, cut)] >>
                        \o IF cut = Len(bytes) THEN << >>
                           ELSE << [type |-> "pieces", pieces |-> SubSeq(bytes, cut + 1, Len(bytes))] >>
  /\ UNCHANGED << phase, sock, noise, up, inBytes, decoding, delivered, errors, watch >>

-----------------------------------------------------------------------------
Next ==
  \/ SocketOpens \/ DialFails \/ Hello \/ HelloUnsent \/ Finish \/ HelloTimeout \/ Open
  \/ Receive \/ \E i \in 1..MaxFrames : Deliver(i)
  \/ SendNode \/ Tick \/ Dispose \/ Closes
  \/ ServerHello \/ ServerReads \/ ServerSends

\* The interval fires, and decoding ends; the network owes nothing.
Fairness ==
  /\ WF_vars(Tick)
  /\ WF_vars(\E i \in 1..MaxFrames : Deliver(i))

Spec == Init /\ [][Next]_vars
FairSpec == Spec /\ Fairness

-----------------------------------------------------------------------------
(***************************************************************************)
(* Properties.                                                             *)
(***************************************************************************)

\* Both ends stay in step: the server opens every ciphertext of the client
\* with the key and counter it expects, and so does the client, though
\* calls of decodeFrame() overlap, share inBytes and the counter, and wait
\* for decoding in between (noise.ts:273).  Only a message that arrived
\* before the frame pump was attached puts the client out of step.
InStep == ~srv.broken /\ (errors.decrypt => errors.unheard)

\* Frames reach the client in the order the server sent them, each at most
\* once, but for compressed ones, which smaller ones may overtake.
DeliveredInOrder ==
  \A i, j \in 1..Len(delivered) : i < j =>
    delivered[i] < delivered[j] \/ (delivered[j] \in ZippedFrames /\ delivered[i] # delivered[j])

\* Every frame that arrived whole is handed on: none is forgotten between
\* the calls of decodeFrame() that empty inBytes together.  (A call that
\* ends in an error leaves what is behind to the next message, and one that
\* was missed leaves the rest unreadable.)
FramesDelivered ==
  \A n \in 1..MaxFrames :
    (\E i \in 1..Len(inBytes) : inBytes[i] = [frame |-> n, part |-> 2])
      ~> (n \in Range(delivered) \/ \E e \in DOMAIN errors : errors[e])

\* A connection whose server falls silent, or whose close nobody heard, is
\* reported to the client, unless it is disposed of before: the watchdog
\* counts what it receives, not what it sends.
SilenceReported == phase = "open" ~> watch.reported \/ ~watch.on

=============================================================================
