# A TLA+ development for NexaWhats

NexaWhats (`src/`) is a TypeScript client for WhatsApp's multi-device protocol.
This directory holds TLA+ models of its stateful parts, TLC configurations that
check them on small instances, and proofs that TLAPS checks for every value of
the constants. `PROJECT.json` maps every definition to the lines it models.
Paths in this file are relative to `src/src/` unless they start with `src/`.

    tlc -workers 2 -config connection.cfg MCConnection    # a run
    tlapm ConnectionProofs.tla                            # the proofs of a module

## The system

The program is a single Node.js process. Nothing runs in parallel, but almost
every operation is an `async` function: it suspends at each `await`, and
anything else may run before it goes on. That, the network and the wall clock
are where the difficulty lies. One rule of the runtime shapes the models: an
event-loop task runs to its end, together with the promise continuations it
makes ready, before the next task starts; and a promise rejection nobody
handles ends the process (the default of every supported Node version).

### Components, their state, their operations

| Component | State | Operations | What is hard | What must hold |
|---|---|---|---|---|
| Message queue (`queue/index.ts`) | array of entries, `processing`, `sendFn` | `enqueue`, `processNext` (two awaits), `clear`, `setSendFn` | overlapping calls; the entry is captured before the awaits | ordered, one worker, nothing lost, repeated or forgotten |
| Dead letters (`queue/dead-letter.ts`) | bounded list | `add`, `drain`, `clear` | eviction | holds only exhausted messages |
| Rate limiter (`queue/rate-limiter.ts`) | `tokens`, `lastRefill` | `tryAcquire`, `acquire`, `timeUntilAvailable` | lazy refills from a clock that may step; polls; aborts | a bound on grants in every window; no starvation |
| Circuit breaker (`socket/circuit-breaker.ts`) | state, failure timestamps, cooldown, trips | `recordFailure`, `recordSuccess`, `trip`, `reset`, the `state` getter | a getter that changes state, windows, escalation | opens at the threshold, recovers, escalates and forgets |
| State machine (`socket/state-machine.ts`) | connection state | `transition` (throws), `reset` | shared by every attempt | agrees with what the client does |
| Connection (`client.ts`, `client/connect.ts`) | `stopReconnect`, `disposeConnect`, per-attempt closures | `connect`, `disconnect`, frame handlers, timers | callbacks of old attempts act on shared state | disconnect is final, logins settle, status is honest |
| Transport, keepalive, handshake (`socket/`) | socket, timers | open, send, close, ping | events lost between listeners | a dead socket is noticed |
| Noise framing (`socket/noise.ts`) | keys, counters, input buffer | `encodeFrame`, `decodeFrame` (async) | calls overlap over one buffer and one counter | both ends in step, frames in order, none forgotten |
| Binary codec (`binary/`) | none | encode, decode | token, packed and raw forms; lengths at their boundaries | what was written is read |
| Pairing (`socket/pairing.ts`) | credentials | QR and pairing-code flows | races with the stream restart | registered only after a pairing |
| Message handling (`messages/recv.ts`, `client.ts:840`) | Signal sessions | decrypt, LID mapping, events | stanzas are handled concurrently, unawaited; many steps may fail | each message announced once, never as if empty |
| Names of messages (`recv.ts:90`, `recv.ts:457`, `send-relay.ts:1101`, `client.ts:968`) | none | keys, reactions, receipts | every client names a message from its own side | all mean the same message |
| LID mapping (`signal/lid-mapping.ts`) | cache and store | store, look up both ways | remapping, overlapping handlers | the two directions agree |
| Message relay (`messages/send-relay.ts`) | device cache, mutexes, sender-key memory | send, resend | several awaits over shared records | complete stanzas, every device can decrypt |
| Media and composition (`messages/media.ts`, `messages/encode.ts`) | temporary files, host cache | encrypt, upload, compose | uploads overlap, hosts refuse | own bytes, no files left, context kept |
| Retry manager (`messages/retry-manager.ts`) | LRU caches | counts, recent messages | eviction against limits | bounded retries (unused) |
| Group sender keys (`signal/group/`) | chains, skipped keys, states | `create`, `process`, `encrypt`, `decrypt` | loss, reordering, duplication, limits | each message key used once |
| Key-store cache (`signal/keys.ts`) | LRU map | `get`, `set`, `clear` | writes that fail, reads that race | cache agrees with the store |
| Pre-keys (`utils/pre-key-manager.ts`) | `nextPreKeyId`, stored keys | upload | crash and lost answers between steps | no uploaded key is unknown locally |
| Stores (`store/`) | files, SQLite rows, maps | load, save, batch set | crash inside a batch | what is left can be gone on from |
| Groups (`groups/index.ts`, `client.ts:1019`) | none | requests, metadata, events | a copy kept by events against the group as it is | the copy follows |
| Newsletters, protobuf, utilities | none or data | builders, parsers, primitives | data layout | round trips |
| Health, metrics (`observability/`) | HTTP servers, counters | start, stop, snapshot | stop is awaited by `disconnect()` | read-only |

### How they interact

`client.connect()` runs the reconnect loop: it asks the breaker, moves the state
machine, and calls `connectOnce()`, which opens a transport, runs the handshake
and wires frames and closes to callbacks. The callbacks are closures of that
iteration but write to the client's shared state and settle the promise
`loginOutcome` on which the loop waits. Before it waits, the loop installs the
relay and the queue's send function. The queue awaits the rate limiter, then the
send function, which goes through the relay to the Signal repository and the
store. A frame that arrives goes through `decodeFrame()` and the codec to the
client, which hands message stanzas to handlers it does not await: these use the
LID mapping, the Signal repository and the store, and tell the application. Sending
a file goes through the media upload before the relay. After a login the pre-keys are
counted and uploaded. `client.disconnect()` sets `stopReconnect`, disposes of the last attempt,
resets the state machine, clears the queue, awaits the health server's stop and
drops the relay.

## The modules

    UntimedBreaker          what a breaker promises, without its clock
      ^ implemented by      CircuitBreaker        (MCCircuitBreaker, LimitsProofs)
      ^ used by             Connection            (MCConnection, ConnectionProofs)
    MessageQueue            queue + dead letters  (MCMessageQueue, MessageQueueProofs)
    RateLimiter             the token bucket      (MCRateLimiter, LimitsProofs)
    SenderKeys              group keys, receiving (MCSenderKeys, GroupKeysProofs)
    Relay                   relayMessage()        (MCRelay, GroupKeysProofs)
    KeyCache                the key store's cache
      ^ used by             PreKeys               (MCPreKeys, PreKeysProofs)
    Wire                    one connection        (MCWire, WireProofs)
      carries frames of     Codec                 what a frame holds
        ^ written with      Packing               lengths, packed strings (WireProofs)
      carries changes of    Groups                requests, metadata, events (WireProofs)
        ^ with Wire in      GroupNotices          a change is a stanza in a frame
    Receive                 message stanzas       (MCReceive, ReceiveProofs)
      announces keys of     Chats                 how messages are named (ReceiveProofs)
        ^ with Receive in   Announcements         what is named was announced
    Compose                 what a message is made of
      ^ used by             Media                 (MCMedia, MediaProofs)

`Codec`, `Packing`, `Groups`, `Chats` and `Compose` are pure functions, checked against what they
should compute over all inputs of an instance. `KeyCache` and the modules with theorems use
no `RECURSIVE` operator; `Codec`, whose nodes nest, does, and so the bytes it is built from are a
module of their own, `Packing`. `LimitsProofs` and `GroupKeysProofs`
are each about two modules: in one of the two (`CircuitBreaker`, `Relay`) the names every
component has are prefixed (`RelayInit`, `RelaySpec`, ...).

Definitions named `Bug...` are seeded bugs: one mistake each, that the property
named with it in `PROJECT.json` ("mutants") must notice when it replaces the
definition after it.

### MessageQueue

A message is one call of `enqueue()` with the promise it returned; its entry is
in `queue` or captured by a worker (`cur`). A worker is an activation of
`processNext()`, suspended at the limiter (`acquiring`) or at the send function
(`sending`; `void` when the relay is gone and the send function resolves at once
with `undefined`). `Enqueue` inserts, then runs `processNext()` to its first
await, as the code does in one synchronous step; `Acquired`, `SendSucceeds` and
`SendFails` are the code from one await to the next, with the loop test.
`Connect` and `Disconnect` are the parts of the client that touch the queue, the
second with or without a health server.

### RateLimiter

`credit` counts tokens in units small enough that a clock tick adds a whole
number of them. The code's arithmetic is floating point, so every refill that adds
anything may be off by up to `Rounding` units either way (`Errors`), and so may every
wait that is computed (`Waits`, `WaitTimes`), which moves it by a tick where it was on
the boundary. `elapsed` is `Date.now() - lastRefill`; `ClockSetBack` lowers it, below
zero if need be. Callers of `acquire()` poll and then wait a human-like delay;
their signal may be aborted before the call, in which case the code throws only
if it must wait for a token, or during it. Timers may fire late.

### UntimedBreaker and CircuitBreaker

`CircuitBreaker` replaces timestamps by ages that saturate where the code can no
longer tell them apart, which keeps an unbounded clock finite. It implements
`UntimedBreaker` (property `Implements`), where a failure makes any number of the
older ones expire and the cooldown ends at any time; that is the breaker
`Connection` uses.

### Connection

One record per attempt (`att`) holds what the closures of that iteration keep:
`closeReported`, `pairSuccessReceived`, the login outcome, the socket, the timers.
A record outlives its iteration, as the closures do: any attempt may still receive
frames, closes and timers (`Frame`, `SocketCloses`, `ConnectionLost`,
`DisposeTimer`, `LinkTimer`), and these write the shared state. A call of
`connect()` is a program counter `pc[c]`. The rule about tasks appears as `Quiet`:
a task needs every ready continuation to have run; a continuation does not.
`Ends` is the end of the process by an unhandled rejection.

`StartAttempt`, `PairSuccessOutcome`, ... contain the catch block of the loop
(`Catch`) where the source can throw. `late` and `wanted` are history variables
used only by properties and by the bound on late frames.

### SenderKeys

One group and one peer that sends to it; this client receives. A record (`record`,
`exists`) is the store's entry for the peer: up to `MaxStates` versions of its key,
each with its chain and the message keys it skipped and kept. A handler is an
activation of `handleMessageStanza()`, which nobody awaits. Its steps are the code
from one access of the store to the next: `Receive` decrypts the 1:1 part,
`LookUp`, `Create`, `LoadSenderKey` and `Process` are
`processSenderKeyDistributionMessage()`, and `LoadSenderKey` with `Decrypt` or `Refuse`
is `GroupCipher.decrypt()`. Between the load and the store a handler holds a copy
(`loaded`) that others do not see. The peer runs the sending half of the same code,
one send at a time as this client's queue makes it; `Send(FALSE)` is a message to devices
that have the key. The network chooses which stanza is received next, up to
`MaxReceipts` times each, or never. `Crash` loses the handlers, not the store.
`from` and the three sets of message keys are history variables.

### Relay

A call of `relayMessage()` is a record; its `pc` names the await it is at: the device
lookup, the sender key's ratchet, the session query, the encryption, the write of the
sender-key memory, `sendNode`. A device is a user and a number. `encryptionMutex` is a
queue of calls per device, and `RunTask` runs its head: other tasks of a call that was
already rejected still run, as promises do. The memory is read into the call (`marks`)
and written back whole. Between the validation and the encryption another part of the
program may delete a session (`SessionLost`). Queries of the server answer or fail.
What a call encrypts for (`recips`) is a bag of devices, a number for each: tasks of different
devices run independently, so the order among them (own devices first) is left out.

### KeyCache and PreKeys

`KeyCache` is the `Map` of `CacheableSignalKeyStore` as a sequence in order of insertion.
`PreKeys` puts the upload of pre-keys on it, over one of the three stores: `LeftOf` says
what a batch leaves when it fails or the process ends (files: any prefix; SQLite: all or
nothing; memory: all). An upload counts, generates, stores, sends, and advances
`nextPreKeyId` when the answer comes. Bundles and answers are under way in `wire`, may be lost, and
an answer may be late. A peer takes a key from the server and sends a `pkmsg` under it, which
loads, uses and removes the private key. `Crash` starts a new process from the disk.
A key is its id with the upload that generated it: keys generated again over old ids differ.

### Wire, Codec and Groups

`Wire` is one attempt's connection from the dial to its end. The Noise keys are replaced by
what distinguishes them: how many were mixed in, and the counter; a ciphertext opens under
the pair it was sealed with. Until the handshake is finished `decrypt()` reads the counter
`encrypt()` writes, as in the code. A frame is two pieces of a byte stream that WebSocket
messages cut anywhere. `decodeFrame()` works on shared `inBytes`; `decoding` holds the frames
at an await, and whoever returns from one takes the next frame. Small stanzas decode in a
few microtasks, in order; inflating takes longer than any of them (`Decodes`). The server
seals with its own counters and notices when the client is out of step.

`Codec` and `Packing` translate the encoder and the decoder function by function over sequences of
bytes: `Packing` the lengths of strings and lists, raw and packed strings, `Codec` all that nests.
The token dictionaries are constants; a JID is read back as the code reads it. Its property
is about what comes back: strings, attributes, children and bytes, with what the code loses
on purpose or not (`AsRead`, `Survives`) named. `Groups` has the requests, the metadata read from an
answer, and the events of a notification; the server's rules and the application, which assigns
updates and carries out actions, are external.

### Receive and Chats

A handler is one activation of `handleMessageStanza()`, and each of its `pc`s one await:
the lookup of the author's LID, the check and store of a new mapping, the session's migration, the
lookups around the load and the store of a session, a download, the application's listeners,
the middlewares. Between two of them any other handler may run. What a get answered is kept in the
handler (`seen`) and cached when the handler goes on, over whatever was cached meanwhile. A stanza says
itself which LID its author has (`alt`), so a number may come with one LID and then with another: the new
one overwrites the old where the handler found none, or an other one, when it looked. Steps fail: a
ciphertext, a set of the map before its first entry or between its two, a download, the sync keys' store,
a listener, a middleware. `batches` is a history variable: what was written for whom, both entries or the
first. `ProcessEnds` also stands for the unhandled rejection of a malformed stanza.
A stanza that is delivered again after a reconnect is another stanza of `Receive`: it is announced again.

`Chats` has the key of a stanza (`DecodeMessageNode`), its normalisation and that of the key inside a
reaction (`CleanMessage`, `NormaliseKey`), and the way of a receipt from `readMessages()` to the
author's `handleReceiptStanza()`. What other clients send is external.

### Compose and Media

`Media` is `sendMessage()` with its awaits: source, temporary file, chunks, the end of the file's
stream, media connection, hosts, removal, relay. Files are an inode behind a name, so two uploads that share a
name write over each other, and a removed file can still be read by who has it open. The source may be missing
or break off, the file may not open, be written or be removed (`kept`, a history variable, has the names whose
removal failed, which the code ignores). `encryptedStream()` listens to its file's stream only after the
last chunk (`media.ts:248-251`). An error before that ends the process (`UnheardError`), one after it
rejects the call (`Finished`). Hosts
refuse an authorization that changed; `refreshMediaConn()` fetches a new one, at once or shared
through the cache. The request that streams the file to a host is taken as sent; `media.ts:331-336`
passes no `duplex`, without which Node's own `fetch` rejects a stream, so that on it every host fails.
That is among the outcomes modelled.
`Compose` follows a content through `generateWAMessageContent()` and
`generateWAMessageFromContent()`: its type, wrappers, what its `contextInfo` holds, and what its first
key is (`first`), as several functions take that for the content.

## The runs

| Run | Instance | Shows |
|---|---|---|
| `queue` | 3 messages (one urgent), 2 attempts, capacity 2, 1 dead letter | order, one worker, nothing lost or repeated, everything settles |
| `limiter` | 2 callers, bucket of 2, minute of 5 ticks, 6 credits a tick rounded by 1, clock set back by 1, windows up to 4 ticks | the bound on grants, that waiting helps, no starvation |
| `breaker` | threshold 3, window 4, cooldown 1 to 5 ticks, trips up to 4 | forgetting, recovery, refinement |
| `connection` | 2 calls, 2 attempts in all, 1 backoff, threshold 1 | what holds however the API is used |
| `connection_live` | 1 call, 2 attempts | status and progress in ordinary use |
| `senderkeys` | 2 handlers, 3 stanzas, each received up to twice, 2 keys, limits of 2 | no key lost in any order; once-only and on record when sequential |
| `senderkeys_DroppedOnlyWhenFull` | same | a documented claim that does not hold |
| `relay` | 2 calls, own phone and client and a peer, one group, a session that may vanish | complete stanzas, keys for every reader, every call ends |
| `prekeys` | 3 logins, batches of 2 and 1, ids up to 4, cache of 2, one crash, one message, each store | the id never ahead of the server; offered keys decryptable |
| `wire` | 4 frames (one compressed, one malformed), 2 sends, interval 2, grace 1; 1600 nodes, 800 strings, every group of 3 | both ends in step, order, delivery, silence; round trips; groups |
| `receive` | 2 stanzas of 12 shapes, a number named with 2 LIDs and another with one of them, 2 middlewares, one end of the process; 3 people with 2 devices | one announcement, the map, the names |
| `media` | 2 calls, one of 47 contents, 2 hosts, 2 chunks, 2 milliseconds, 2 authorizations | own bytes, no files left, context, every call ends |

More configurations reproduce disagreements with the documentation (below); TLC reports the
property each is named after as violated: `queue_ClearRejectsAllPending`,
`connection_PairSuccessReconnects`, `connection_RestartIsExpected`,
`connection_TripsOnRateLimit`, `relay_OnlyChatDevices`, `receive_SessionsStay` (property `SessionsFollow`),
`receive_BatchIsAtomic` (property `BothWritten`), `media_FileReadable`, `compose_ForwardMarked`.

**Why the bounds are enough.** In the queue the interesting cases need an entry
being sent, one that overtakes it and one behind; two attempts make a retry and a
give-up; a capacity of two makes the queue full with one in flight; `clock` grows
only with messages. In the limiter two callers compete for two tokens with a poll
shorter than a token's time, so a poll finds a fraction; the rounding is the largest the
assumption allows for the instance to within a credit, and far larger against a tick than the code's. In the breaker the window,
threshold and cap are the smallest at which expiry, threshold and saturation are
three different things; `MaxTrips` is where the cooldown is capped, which the
module's assumption states. In the connection two attempts are needed for one to
act on the other's state, two calls for overlapping loops; threshold 1 makes the
breaker open within them. At most one frame is received by an attempt that was
given up or superseded (`Receives`): one late frame is what it takes to disturb
its successor. Calls and handlers are symmetric; the run with liveness uses no symmetry.
For the sender keys two handlers make every race between a load and a store. A chain
skips every other iteration when it sends (`NextIteration`), so three stanzas reach
iteration 4: it is kept, pushed out (limit 2) or too far ahead (limit 2), and two
distributions of one key can meet in a record. Each stanza twice covers duplication.

In the relay two calls are what the cache, the memory and a mutex can set against each other.
For the pre-keys one crash and a third login reach a batch generated over one that was left
behind; two ids less than the cache make it evict. On the wire four frames of two pieces give a
message that ends inside a frame, a compressed frame before small ones and a malformed one between.
The strings and nodes of the codec lie on either side of every boundary of a length or a list, and of
every class of characters. Two changes of a group are enough: the events of a change depend
on the group only through who is reached. Two numbers with one LID and a number with two are what
the map can be wrong about, two handlers what it takes for an answer to be late, and two people besides oneself are the fewest among whom author and reactor
differ. Two uploads are enough to share a file, and two hosts for the second to be tried with the
authorization the first was refused. What goes with a message does not depend on
the other calls, so one of the two has the image throughout and the other tries the others: buttons with an image,
texts, deletions, timers, forwards and a content that is refused, and of what may go with them enough for each rule of `Compose` to apply and not to apply.

**Deadlock** is checked except where the system does stop. In the connection runs
every call has returned or rejected, the attempts allowed by the bound are used up,
or the process ended; in the others the calls, stanzas, frames or messages that the
bounds allow are used up and whatever handled them has returned.

### Fairness

* Queue: the limiter's timers fire and a send settles (every query of the relay has
  a 30 s timeout, and a closed transport rejects).
* Limiter: time passes and timers fire. Nothing is assumed of the callers.
* Breaker: time passes, and somebody keeps reading the state, as the loop and the
  health endpoint do. `Recovers` allows that it is tripped for ever.
* Connection: continuations run, timers fire, `connectOnce()` settles within its
  timeouts, a socket told to close closes, and the keepalive notices a peer that
  went silent. A server that never decides a login but answers pings for ever is
  excluded; the code has no timeout for it. Nothing makes the server send a frame.
* Relay and Media: each step of a call or a task that can run does: queries of the server time out,
  requests to hosts and files settle, and a task follows the one before it. Nothing makes an error of
  the disk come early enough to be unheard.
* Wire: the keepalive's interval fires, and decoding a frame ends. The network owes nothing.
* SenderKeys, PreKeys, Receive: none, and no liveness: a stanza may always be lost, and
  the process may end at any time.

## What the checks show

Beyond the types (which contain the capacities of the queue and the bucket):

* Queue: `PriorityFifo`, `SingleWorker`, `OvertakenOnlyByMoreUrgent` hold in every use.
  `NoLoss` and `SentOnce` say for every use that a waiting message wakes a worker and that a dead letter
  was tried as often as allowed; that nothing is lost or repeated, and `Settles`, hold in uniform use:
  `clear()` was never called and one priority is used. Otherwise `shift()`
  (`queue/index.ts:112`) may drop an entry that was not the one sent: it is never sent,
  or sent twice.
* Limiter: `WindowBound`, `PromiseKept`, `TokensAreGranted`. The bound for one
  minute is twice `messagesPerMinute`, the full bucket plus a minute's refill, and each tick's rounding.
  A tick after the time `timeUntilAvailable()` returned there is a token, however the refills in between
  were rounded. At the time itself there may be none: with 6000 messages per minute a drained bucket promises
  10 ms, and ten refills of 0.1 make 0.9999999999999999 (`rate-limiter.ts:30`).
* Breaker: `ForgetsWhenClosed` (a closed breaker has fewer failures in its window than the
  threshold, and no trips that would lengthen its next cooldown), `Recovers`, `Implements`.
* Connection: `DisconnectSticks`, `ConnectedMeansClosed`, `StopIsFinal` in every
  use; `StatusMatchesLoop` and `LoginSettles` in ordinary use (`Ordinary`).
* SenderKeys: `KeysKept` in every use: a copy that overwrites a newer record takes
  the chain back, but what that record had passed is in it again. `DecryptedOnce` and
  `KeyOnRecord` hold when stanzas are handled one at a time (`~overlapped`) and no
  version was pushed out of the record (and, for the second, the process did not end
  meanwhile). Without these conditions they fail: two
  handlers with one copy decrypt a message twice; a version that was pushed out and
  with it what it had used may be followed by an older distribution of the same key;
  a process that ends after the 1:1 part was decrypted and before the key was stored
  never gets that key from this stanza again.
* Relay: `AllOrNothing`, `KeyReachesTargets`, `RelaySettles`. The second does not cover a
  stanza lost in `sendNode`: the memory was written before it (`send-relay.ts:615`), so its
  devices stay marked without having the key.
* PreKeys: `AckedOnly` in every use. `DecryptableUnlessReused` excepts keys that were generated
  over ids which had left in a bundle, or were about to: after a crash or a lost answer the next
  upload uses the same ids (`pre-key-manager.ts:226`), and what the server still offers of the first is gone.
* Wire: `InStep`, `DeliveredInOrder` (compressed frames may be overtaken), `FramesDelivered`,
  `SilenceReported`. They except a message that arrived before the frame pump was attached
  (`errors.unheard`), after which nothing can be decrypted any more.
  `StanzasReturn` and `GroupsFollow` are about what a delivered frame carries: any node, and any two changes of any group.
* Receive: `AnnouncedOnce` (but for a reaction or poll update without a key, which is dropped; once per
  stanza delivered, so a message that is delivered again is announced again),
  `MappingAgrees`, `NamesFollow` (about any message announced, any reaction to it and any
  messages read with it). `MappingAgrees` says that what is mapped or cached for a number is a LID its
  stanzas named, that cache and store agree unless the number had two LIDs, and that a LID
  leads back to its number unless the batch was cut short or another number has the LID too. Without these
  conditions it fails: an answer that comes late puts a number's old LID over the new one in the cache.
* Media: `OwnBytes` (unless a file of the same type was encrypted in the same millisecond),
  `FilesRemoved` (but of calls that failed or were lost with the process, and names whose removal failed),
  `ContextArrives`, and `SendSettles`, where an error of the disk that nobody listens for yet ends the
  process. An application that keeps the process alive then (`uncaughtException`) is
  not modelled: the stream emits neither `finish` nor `error` again, and the call waits for ever.
  `ContextArrives` states what the code loses: the mentions of a view-once message, of a setting, and of
  plain text that is forwarded (`encode.ts:108` leaves its key behind without a value, and `encode.ts:462` takes it
  for the content); and where the first key of a forwarded message is another part of it (a sender key, secrets), the
  mentions and the mark, while the old context stays (`encode.ts:100`).

### Where code and documentation disagree

With a run (see "findings" in `PROJECT.json`): overlapping handlers drop a version
from a sender-key record that is not full.

With a configuration in this directory whose property TLC refutes:

* `queue_ClearRejectsAllPending`: `queue/index.ts:156` "rejects all pending"; an entry that was shifted away
  while it was being sent, and is retried, stays pending through `clear()`.
* `connection_PairSuccessReconnects`: after `client.ts:557-559` "the reconnect still goes
  through"; an `xmlstreamend` during a pairing makes `connect()` reject, as `reconnecting` is
  an invalid transition from `disconnected`.
* `connection_RestartIsExpected`: `client.ts:327` "expected restart"; handled late, that stream error of the
  previous socket makes the next `<success>` an unhandled exception.
* `connection_TripsOnRateLimit`: `circuit-breaker.ts:18` "consecutive 405/463 rate-limit
  errors"; a 463 never reaches the breaker.
* `relay_OnlyChatDevices`: `send-relay.ts:653` "enumerate actual devices"; `send-relay.ts:325` caches
  under one user the devices of all users before it in the list, and later messages to that user are
  encrypted for other people's devices.
* `receive_SessionsStay`: `lid-mapping.ts:6` "stay consistent"; when a number's LID is learned and
  its device list is not cached, `migrateSession()` moves nothing (`libsignal.ts:240-244`), while from
  then on the session is looked up under the LID.
* `receive_BatchIsAtomic`: `lid-mapping.ts:66-68` "writes every new pair plus its reverse entry in a single
  atomic `setKeys` call"; `store/file.ts:81-99` writes it file by file, and a number may be mapped to a LID
  that leads back to nobody.
* `compose_ForwardMarked`: `encode.ts:84-85` "incrementing the forwarding score if the message is from
  someone else"; of a message with another part first, that part is taken for the content
  (`encode.ts:100`), and the message is not marked as forwarded.
* `media_FileReadable`: `media.ts:477` "Download and decrypt"; `media.ts:495` calls
  `createCipheriv`, so what it returns is encrypted twice and no history blob inflates.

Met while modelling, without a configuration:

* `src/README.md:109` promises priorities, but an urgent message does not overtake
  the one waiting at the limiter (`queue/index.ts:103-106`).
* With the relay dropped, `enqueue()` resolves with `undefined` (`client.ts:717-718`).
* `types/socket.ts:51`: messages per minute; the bucket allows nearly twice as many
  in the first minute.
* `socket/circuit-breaker.ts:16` says half-open allows one request; it allows any
  number until one succeeds or fails.
* The breaker's gauge reads `event.state` (`client.ts:83-85`), but the event has
  `from` and `to`.
* An established session that closes does not reconnect: `closeReported` is set by
  `<success>`, and nobody waits for the login any more.
* `disconnect()` while `connectOnce()` is pending does not dispose of that attempt; its
  `<success>` is an invalid transition in an unawaited handler.
* A key may be distributed twice, at two iterations. If the later distribution is
  processed first it stays in front, `getSenderKeyState()` finds it only, and the messages
  between the two cannot be decrypted although the earlier one is on record.
* No stanza is acknowledged and no retry receipt is sent, so a stanza that could not
  be decrypted is only seen again when the server repeats it after a reconnect.
* `store/file.ts` says write, fsync, rename; there is no fsync.
* Once cached or stored, a number's mapping is not corrected by later stanzas, as no LID is looked for
  when one is known (`recv.ts:280`); only handlers that overlap replace it. The old reverse entry stays.
* A malformed message stanza throws before the handler's `try`: an unhandled rejection.
* A listener that throws keeps the app-state-sync keys of that message from being stored.
* A receipt that lists several ids is reported for the first only (`client.ts:968`).
* Temporary files are named by type and millisecond (`media.ts:215`), and are left when the upload
  fails (`client.ts:671-683`). The host list is taken once: a refreshed authorization
  only helps the next host (`media.ts:355`).
* `generateWAMessageFromContent()` unwraps view-once and ephemeral messages to find the context and keeps the
  unwrapped one (`encode.ts:513-516`); a test has the wrapper in what goes in
  (`src/tests/unit/messages/encode.test.ts:173`). Mentions of a view-once message are lost; and a forwarded
  plain text that is sent view-once gets no quote and no expiration, as its empty key stays inside the wrapper.
* An empty string is written as nothing and shifts what follows (`encoder.ts:206`); an agent in a JID is
  lost, a device above 255 cut off.
* A change of a group's description or settings makes no event; `size` is not updated by events.

## What is proved

For all values of the constants that the named assumptions allow, from `Spec` (`BreakerSpec` and
`RelaySpec` for two modules, see above). Every proof of a safety property has the same shape: an
invariant that contains or implies it, that holds at first and that each action keeps.

* `MessageQueueProofs`: `TypeCorrect`, `QueueOrdered` (`PriorityFifo`), `OneWorker`
  (`SingleWorker`), `NeverOvertakenByEqual` (`OvertakenOnlyByMoreUrgent`), `NothingLost`
  (`NoLoss`), `NeverSentTwice` (`SentOnce`). `TypeInv`
  adds to the types that a suspended worker holds a message. `OrderInv` adds to the
  order that every entry's time is before `clock` (`Stamped`): a new entry is then the
  youngest, and the insertion point keeps the order. `OneWorker` needs nothing but
  itself. `OvertakeInv` adds that a message the worker holds was enqueued
  (`HeldWasEnqueued`), so that what is inserted later at its priority is younger and
  goes behind it. `UniformInv`: in uniform use the worker holds the head of the queue, so that `shift()`
  drops what was sent; a message is pending exactly while it is queued, and only the head has
  attempts. `Wired` is why it can be so (until the first `clear()` no worker is without a relay),
  `IdleQueue` says what an idle queue holds in every use, and `DeadSettled` what a dead letter was.
* `LimitsProofs`, of the rate limiter: `LimiterTypeCorrect`, `GrantsBounded` (`WindowBound`),
  `WaitIsEnough` (`PromiseKept`). `Steps` reduces every action to five effects on the
  bucket. Types are inductive once a refill still to come is accounted for
  (`TypeInv`). The window bound is inductive once the grants of a window are counted
  *together with* the tokens available now (`WindowInv`): a tick moves the window and
  adds a tick's worth, a grant moves a token from one summand to the other. Both count a tick at the most
  its refill can make of it; `PromiseInv` counts it at the least: what is there now and what the ticks left
  bring at the least is a token. One tick more than the computed wait is enough because
  rounding is small (`RoundingAssumption`).
* `LimitsProofs`, of the breaker: `BreakerForgets` (`ForgetsWhenClosed`) and the refinement
  `BreakerRefines` (`Implements`): initial states map to initial states, each operation to the one of
  the same name or to nothing, and a tick to the end of the cooldown or to nothing (`UntimedNext`).
  `BreakerInv` adds that a closed breaker has fewer failures on record, old ones included, than the
  threshold, and that the cooldown is the one that belongs to the number of trips.
* `ConnectionProofs`: `ConnectionTypeCorrect`, `StaysDisconnected`
  (`DisconnectSticks`), `NoAttemptOnceStopped` (`StopIsFinal`),
  `ConnectedWithClosedBreaker` (`ConnectedMeansClosed`) and `StatusFollowsLoop`
  (`StatusMatchesLoop`). `StopInv` adds to
  `DisconnectSticks` that no loop is between its test and its attempt while
  `stopReconnect` is set, and that after `disconnect()` every call is idle or
  `stopReconnect` is set: without the first, "stopped" would not keep a loop that has
  already passed the test from starting an attempt. `TypeInv` adds that a loop backs
  off only with retries left. `AgreeInv` says for each place of the loop which states the status may
  have and what became of the attempts before (`Over`): that no callback of theirs is left to
  change the status is what the agreement rests on.
* `GroupKeysProofs`, of the receiver: `KeysAlwaysKept` (`KeysKept`), for any number of overlapping
  handlers and any limits. `KeysInv` adds that the copies the handlers hold are accounted
  for as well as the record: any of them may be what is stored next. `RatchetCovered` is
  the step of the ratchet itself, `AddStateCovered` that of a new version.
  `DecryptedAtMostOnce` (`DecryptedOnce`) and `DistributedKeysKept` (`KeyOnRecord`) rest on
  `SerialInv`: when handlers did not overlap, the one under way holds what is on record, every
  decrypted message is used up in the first version of its key, and there is room for the version
  that is being added.
* `GroupKeysProofs`, of the sender: `StanzasComplete` (`AllOrNothing`) and `KeysAreGiven`
  (`KeyReachesTargets`), for any users, devices, groups and overlapping calls. `RelayInv` adds what
  stands for a device before a call has encrypted for it: a task in the mutex (`Tasks`), and that a
  task waits only for a call that encrypts or has failed. Whatever is in the group's memory, or in
  the copy of it a call writes back, was given the key, or is the call's own to give (`Marked`);
  that grows only (`GivenGrows`), so calls that overwrite each other's memory do no harm.
* `WireProofs`: `StaysInStep` (`InStep`) and `FramesInOrder` (`DeliveredInOrder`), for any frames
  and cuts. `UpInv` ties the server's counter to the ciphertexts under way, in order; `DownInv` and
  `StreamInv` give every piece a place in the byte stream and say that what the client holds
  begins where it stopped reading and that the messages under way go on from there; `OrderInv` has the
  frames that are being decoded in order, and what was delivered before each of them.
  `GroupsAreFollowed` (`GroupsFollow`) says what `GroupsAgree` says of every group, for any finite set of
  people and any subjects, durations and descriptions. A view agrees with a group (`IsView`) when it has
  its subject, its participants with their roles, and its duration; one request, and the events of its
  notification, keep a view that agrees (a case for each kind of request). `GroupViewsAgree` uses that twice, as the run
  does, and `GroupViewsKept` for a history of any length, by induction over the number of changes.
  Of what frames carry: `LengthsReturn` (every length of a string below 2^31), `ListSizesReturn` (every
  length of a list up to 65535), `RawStringsReturn` and `DigitsReturn` (every string that is written raw
  or packed) are the round trips `Codec` rests on. Beyond 2^31 the code reads back a negative number
  (`<< 24` in `readInt()`), and a list of more than 65535 loses its upper bits: neither is claimed.
* `ReceiveProofs`: `MapFollowsBack` (`MappingAgrees`) and `MessagesAnnounced`
  (`AnnouncedOnce`), for any number of LIDs per number. `MapInv` adds what handlers under way know of the map
  (`Knows`): an answer they have not used yet is a LID the number had, as is the LID of a mapping they have
  stored and not cached yet, and the store has a LID for every number that ever had one; so where a number had
  only one LID all that is known of it agrees. `AnnounceInv` adds that a handler before its announcement has
  announced nothing, and that one that has read its ciphertexts has content, a stub or a view-once.
  `AnnouncedAreNamed` (`NamesFollow`) rests on `NamesAgreed`. That reactions name the message meant
  is a case analysis over who wrote the message, who reacts, and the kind of chat. That receipts reach
  the authors holds for any number of messages read at once, where the run stops at its bound: after each
  key, the keys so far are in the recipients gathered so far, each in one of them, and no two recipients
  are the same chat and author (`Gathered`), by induction over the keys.
* `PreKeysProofs`: `OnlyAcknowledged` (`AckedOnly`). `AckInv` adds that everything before the batch
  of an upload was accepted, and that an answer under way is about that upload's batch: an acknowledgement
  then moves `nextPreKeyId` over accepted ids only. `OfferedKeysKept` (`DecryptableUnlessReused`): `KeptInv`
  follows a key from the batch that is stored, through the bundle that is under way, to the server and
  to the message of a peer. At each place it is on disk, and no two batches, bundles or messages have it
  (`BatchesKept`, `BundlesKept`, `ServedKept`, `MessagesKept`); and neither the cache nor a read that
  will fill it has anything else (`CacheKept`). What a batch set leaves in the cache
  is a recursive function; its lemmas go by induction over a set of numbers (`Induction`), as
  induction over a formula is out of the prover's reach.
* `MediaProofs`: `FilesAreRemoved` (`FilesRemoved`), `OwnFilesSent` (`OwnBytes`), `ContextKept`
  (`ContextArrives`). `FileInv` says that a name leads to an inode that
  was created under that very name by a call that has not removed it yet, whoever shares it. `OwnInv` adds
  what a call that shares no
  name has written so far, what its request read and what its upload left; that sharing never ends
  (`SharesGrows`), so a call that shares nothing never did; and that a message without a file names at
  most another's (`ComposedFile`). A name whose removal failed is the only one a call that was sent may
  leave (`RemovesNames`), and the end of the process takes nothing away (`UnheardCall`). `ContextInv` adds that what is relayed was composed of what the call was
  given, and of a good content: what arrives with a message is then a lemma on `Composed` for every
  combination of wrappers, quotes, mentions and expiration (`Sayable`).

The assumptions are those that the modules name, and TLC evaluates them in every run. They say what
type a constant has, and little else: the people of a group are finitely many; the limits are numbers, most of them positive; the cooldown reaches its cap within
`MaxTrips`; the rounding errors of the longest wait do not add up to a tick's worth of tokens (`RoundingAssumption`: with
20 messages per minute a tick brings 3e-4 tokens and is off by less than 1e-14); in the relay the own device is one of the own account's, a user's devices are that user's, and
participants are users; in the media module what is edited is of a known kind, and what is forwarded has content in at most five
wrappers, as `normalizeMessageContent()` takes off no more (`ContentAssumption`).

**Only model-checked**: everything under fairness (`Settles`, `TokensAreGranted`,
`Recovers`, `LoginSettles`, `RelaySettles`, `FramesDelivered`, `SilenceReported`, `SendSettles`),
which is out of the prover's reach; and of `StanzasReturn` what is said of whole strings and nodes,
as those readers and writers are `RECURSIVE` (a JID is a string of strings, a node holds nodes). Every
other property of the runs is stated by a theorem.

## Not modelled

* In the client: info-bulletin (`ib`) stanzas, calls, the QR refresh timer, a health server that fails
  to start, an application that calls `breaker.trip()` while connecting.
* Exported, but used by nothing in the client: the `PreKeyManager` class, `MessageRetryManager`,
  `getChatId`, `processHistoryMessage`, poll and event decryption, `utils/retry.ts`.
* Of what is modelled: privacy tokens and status broadcasts in the relay, the creation of our own sender key with its
  awaits, invite codes and approval modes of groups, file names of groups' entries in the file
  store (`store/file.ts:119`).
* Newsletters, `store/migrate.ts`, protobuf layouts, cryptography, SQL, HTTP, logging: pure functions or I/O.
* The components marked `partly` or `not_modelled` in `PROJECT.json`, each with its reason.

## Plan

Done: all modules above, with their runs and proofs. What could follow:

1. An abstract key store, a map whose reads return the last completed write, and where `PreKeys` refines it.
2. The creation of our own sender key, with overlapping sends to one group by a caller that
   bypasses the queue.
