-------------------------------- MODULE Receive --------------------------------
(***************************************************************************)
(* Received message stanzas (client.ts handleMessageStanza, recv.ts) and   *)
(* what they do to the map of phone numbers to LIDs (lid-mapping.ts) and   *)
(* to the Signal sessions (libsignal.ts).  Nobody awaits a handler: many   *)
(* are under way at once, each at one of its awaits.                       *)
(*                                                                         *)
(* A session is kept under an address: a number or a LID.  Ratchets, group *)
(* ciphertexts (see SenderKeys) and the content of messages are external:  *)
(* a ciphertext opens or does not.  A get or a set may be answered late; a *)
(* set may fail, with the file store (store/file.ts) half-way through.     *)
(***************************************************************************)
EXTENDS Naturals, Sequences, FiniteSets, SequencesExt

CONSTANTS
  Stanzas,
  Numbers, Lids,
  Shapes,           \* what stanzas look like: see ReceiveAssumption
  Layers,           \* middlewares the application registered
  MaxEnds           \* bound: ends of the process

None == "none"

Ciphers == {"msg", "pkmsg", "skmsg", "plaintext", "unknown"}
Kinds   == {"text", "update", "bare", "history", "keys", "once"}

\* form: what decodeMessageNode() and shouldIgnoreJid() make of it; author: a
\* number or a LID; alt: the LID it names for a number; encs: its <enc>
\* children; kind: what they hold, a "bare" one being a reaction or a poll
\* update without the key of its message, "once" an <unavailable> view-once.
ASSUME ReceiveAssumption ==
  /\ Numbers \cap Lids = {} /\ None \notin Numbers \cup Lids
  /\ Shapes \subseteq [form : {"good", "bad", "ignored"}, author : Numbers \cup Lids,
                       alt : Lids \cup {None}, encs : Seq(Ciphers), kind : Kinds]
  /\ \A shape \in Shapes : shape.alt # None => shape.author \in Numbers
  /\ Layers \in Nat /\ MaxEnds \in Nat

VARIABLES
  fwd, rev,     \* 'lid-mapping' in the store: number -> LID, LID -> number
  cache,        \* mappingCache, its 'pn:' entries: nobody reads the others
  sessions,     \* addresses with a session
  handlers,     \* the activations of handleMessageStanza(): see Idle
  upserts,      \* stanza -> messages announced for it: what they come with
  ends,
  batches       \* history: << number, LID, "both" or "half" >> of every batch
                \* that was written, or only its first entry

vars == << fwd, rev, cache, sessions, handlers, upserts, ends, batches >>

\* seen: what a get of the map answered; jid: decryptionJid.
Idle == [pc |-> "idle", author |-> None, alt |-> None, left |-> << >>, kind |-> "text",
         jid |-> None, seen |-> None, content |-> FALSE, stub |-> FALSE, layer |-> 0]

Over == {"ended", "dropped", "ignored", "lost"}

End(how, h) == [Idle EXCEPT !.pc = how, !.kind = IF how = "dropped" THEN h.kind ELSE @]

Init ==
  /\ fwd = [n \in Numbers |-> None] /\ rev = [l \in Lids |-> None]
  /\ cache = fwd
  /\ sessions \in SUBSET Numbers
  /\ handlers = [s \in Stanzas |-> Idle]
  /\ upserts = [s \in Stanzas |-> << >>]
  /\ ends = 0
  /\ batches = {}

-----------------------------------------------------------------------------
(***************************************************************************)
(* From the stanza to its next ciphertext.                                 *)
(***************************************************************************)

\* What is decrypted is looked at: history is to be downloaded, the rest is
\* attached to the message.
Detected(h) ==
  [h EXCEPT !.pc = IF h.kind = "history" /\ h.content THEN "download" ELSE "announce"]

\* The loop over the children, up to its next await.
NextChild(h) ==
  IF h.left = << >> THEN Detected(h)
  ELSE [h EXCEPT !.pc = "resolve", !.jid = None, !.seen = None]

\* The skeleton; without anything to decrypt the message is a stub.  The
\* other address of the sender (extractAddressingContext()) is used for a
\* number only.
Decoded(shape) ==
  NextChild([Idle EXCEPT !.author = shape.author,
                         !.alt  = shape.alt,
                         !.left = shape.encs, !.kind = shape.kind,
                         !.stub = shape.encs = << >> /\ shape.kind # "once"])

Handle(s) ==
  /\ handlers[s].pc = "idle"
  /\ \E shape \in Shapes :
       /\ shape.form # "bad"
       /\ handlers' = [handlers EXCEPT ![s] =
            IF shape.form = "ignored" THEN End("ignored", Idle) ELSE Decoded(shape)]
  /\ UNCHANGED << fwd, rev, cache, sessions, upserts, ends, batches >>

\* The process ends: for any reason, or because decodeMessageNode() throws,
\* outside the try of a handler nobody awaits.  Caches and handlers are gone.
ProcessEnds ==
  /\ ends < MaxEnds
  /\ ends' = ends + 1
  /\ \E bad \in SUBSET { s \in Stanzas : handlers[s].pc = "idle" } :
       /\ Cardinality(bad) <= IF \E shape \in Shapes : shape.form = "bad" THEN 1 ELSE 0
       /\ handlers' = [s \in Stanzas |->
            IF s \in bad \/ handlers[s].pc \notin {"idle"} \cup Over
            THEN End("lost", Idle) ELSE handlers[s]]
  /\ cache' = [n \in Numbers |-> None]
  /\ UNCHANGED << fwd, rev, sessions, upserts, batches >>

-----------------------------------------------------------------------------
(* The LID of the author.                                                  *)
(***************************************************************************)

\* What a get answered is cached, over what others cached meanwhile.
Fill(n, seen) == cache' = IF seen # None THEN [cache EXCEPT ![n] = seen] ELSE cache

\* getDecryptionJid(): a LID is its own; a number is looked up in the cache,
\* or a get goes out.
Resolve(s) ==
  /\ handlers[s].pc = "resolve"
  /\ LET a == handlers[s].author
     IN  handlers' = [handlers EXCEPT ![s] =
           IF a \in Lids THEN [@ EXCEPT !.pc = "decrypt", !.jid = a]
           ELSE IF cache[a] # None THEN [@ EXCEPT !.pc = "decrypt", !.jid = cache[a]]
           ELSE [@ EXCEPT !.pc = "resolving", !.seen = fwd[a]]]
  /\ UNCHANGED << fwd, rev, cache, sessions, upserts, ends, batches >>

\* Both entries go out in one batch, over another LID of the number if there
\* is one.  The set may fail, before the first entry or after it: that is
\* logged, and the mapping not cached.
SaveMapping(s, h) ==
  LET a == h.author
      After(pc) == [handlers EXCEPT ![s] = [h EXCEPT !.pc = pc, !.jid = a, !.seen = None]]
      Wrote(how) == batches' = batches \cup {<< a, h.alt, how >>}
  IN  \/ /\ fwd' = [fwd EXCEPT ![a] = h.alt] /\ rev' = [rev EXCEPT ![h.alt] = a]
         /\ Wrote("both") /\ handlers' = After("stored")
      \/ /\ fwd' = [fwd EXCEPT ![a] = h.alt]
         /\ Wrote("half") /\ handlers' = After("decrypt") /\ UNCHANGED rev
      \/ /\ handlers' = After("decrypt") /\ UNCHANGED << fwd, rev, batches >>

\* The answer.  For a number that has none and comes with one,
\* storeLIDPNMappings() asks the cache again, and if that is still empty a
\* second get goes out.
Resolved(s) ==
  /\ handlers[s].pc = "resolving"
  /\ LET h == handlers[s]  a == h.author
         Go(pc, jid, seen) ==
           /\ handlers' = [handlers EXCEPT ![s].pc = pc, ![s].jid = jid, ![s].seen = seen]
           /\ UNCHANGED << fwd, rev, batches >>
     IN  /\ Fill(a, h.seen)
         /\ \/ h.seen # None /\ Go("decrypt", h.seen, None)
            \/ h.seen = None /\ h.alt \in {None, cache[a]} /\ Go("decrypt", a, None)
            \/ h.seen = None /\ h.alt # None /\ cache[a] = None /\ Go("checked", a, fwd[a])
            \/ h.seen = None /\ h.alt # None /\ cache[a] \notin {None, h.alt} /\ SaveMapping(s, h)
  /\ UNCHANGED << sessions, upserts, ends >>

BugCacheAnyway(s) ==
  /\ handlers[s].pc = "checked"
  /\ LET h == handlers[s]  a == h.author
     IN  \/ /\ h.seen = h.alt
            /\ Fill(a, h.seen)
            /\ handlers' = [handlers EXCEPT ![s].pc = "decrypt", ![s].seen = None]
            /\ UNCHANGED << fwd, rev, batches >>
         \/ h.seen # h.alt /\ Fill(a, h.alt) /\ SaveMapping(s, h)
  /\ UNCHANGED << sessions, upserts, ends >>

\* The second answer: a mapping that is there is kept.
StoreMapping(s) ==
  /\ handlers[s].pc = "checked"
  /\ LET h == handlers[s]  a == h.author
     IN  /\ Fill(a, h.seen)
         /\ \/ /\ h.seen = h.alt
               /\ handlers' = [handlers EXCEPT ![s].pc = "decrypt", ![s].seen = None]
               /\ UNCHANGED << fwd, rev, batches >>
            \/ h.seen # h.alt /\ SaveMapping(s, h)
  /\ UNCHANGED << sessions, upserts, ends >>

\* It is cached.  migrateSession() finds no 'device-list' of the number (the
\* client keeps its own only) and moves nothing.
Stored(s) ==
  /\ handlers[s].pc = "stored"
  /\ cache' = [cache EXCEPT ![handlers[s].author] = handlers[s].alt]
  /\ handlers' = [handlers EXCEPT ![s].pc = "decrypt"]
  /\ UNCHANGED << fwd, rev, sessions, upserts, ends, batches >>

\* Cache entries expire.
Expire ==
  /\ \E n \in Numbers : cache[n] # None /\ cache' = [cache EXCEPT ![n] = None]
  /\ UNCHANGED << fwd, rev, sessions, handlers, upserts, ends, batches >>

-----------------------------------------------------------------------------
(***************************************************************************)
(* Decryption.                                                             *)
(***************************************************************************)

\* resolveLIDSignalAddress(): a number's session is kept under its LID; with
\* an empty cache a get goes out first.
Located(jid) == jid \in Numbers => cache[jid] # None
Location(jid) == IF jid \in Numbers THEN cache[jid] ELSE jid

\* The get's answer: where the session is.
Answered(h) == IF h.seen # None THEN h.seen ELSE h.jid

BugAbort(h) == End("dropped", h)

\* A child that fails marks the message, and the next one is tried.
Failed(h) == NextChild([h EXCEPT !.left = Tail(@), !.stub = TRUE])
Opened(h) == NextChild([h EXCEPT !.left = Tail(@), !.content = TRUE])

\* The session is loaded.  A pkmsg brings its own.  Any body may turn out to
\* be corrupt.
Load(s, h, where) ==
  \/ /\ Head(h.left) = "pkmsg" \/ where \in sessions
     /\ handlers' = [handlers EXCEPT ![s] = [h EXCEPT !.pc = "ratchet", !.seen = None]]
  \/ /\ Head(h.left) = "pkmsg" \/ where \notin sessions
     /\ handlers' = [handlers EXCEPT ![s] = Failed(h)]

\* A group ciphertext opens or not (SenderKeys); other types are unknown.
Decrypt(s) ==
  /\ handlers[s].pc = "decrypt"
  /\ LET h == handlers[s]  enc == Head(h.left)
     IN  \/ enc \in {"msg", "pkmsg"} /\ Located(h.jid) /\ Load(s, h, Location(h.jid))
         \/ /\ enc \in {"msg", "pkmsg"} /\ ~Located(h.jid)
            /\ handlers' = [handlers EXCEPT ![s].pc = "loading", ![s].seen = fwd[h.jid]]
         \/ /\ enc \in {"skmsg", "plaintext"}
            /\ handlers' = [handlers EXCEPT ![s] = Opened(@)]
         \/ /\ enc \notin {"msg", "pkmsg"}
            /\ handlers' = [handlers EXCEPT ![s] = Failed(@)]
  /\ UNCHANGED << fwd, rev, cache, sessions, upserts, ends, batches >>

Loading(s) ==
  /\ handlers[s].pc = "loading"
  /\ LET h == handlers[s] IN Fill(h.jid, h.seen) /\ Load(s, h, Answered(h))
  /\ UNCHANGED << fwd, rev, sessions, upserts, ends, batches >>

\* The session is stored, and the body decoded.
Keep(s, where) ==
  /\ sessions' = sessions \cup {where}
  /\ \E ok \in BOOLEAN :
       handlers' = [handlers EXCEPT ![s] = IF ok THEN Opened(@) ELSE Failed(@)]

\* Stored where the map says by now, which may be another place than it was
\* loaded from.
Ratchet(s) ==
  /\ handlers[s].pc = "ratchet"
  /\ LET j == handlers[s].jid
     IN  \/ Located(j) /\ Keep(s, Location(j))
         \/ /\ ~Located(j)
            /\ handlers' = [handlers EXCEPT ![s].pc = "storing", ![s].seen = fwd[j]]
            /\ UNCHANGED sessions
  /\ UNCHANGED << fwd, rev, cache, upserts, ends, batches >>

Storing(s) ==
  /\ handlers[s].pc = "storing"
  /\ LET h == handlers[s] IN Fill(h.jid, h.seen) /\ Keep(s, Answered(h))
  /\ UNCHANGED << fwd, rev, upserts, ends, batches >>

\* The history sync blob is fetched and inflated, or is not: that is logged.
Download(s) ==
  /\ handlers[s].pc = "download"
  /\ handlers' = [handlers EXCEPT ![s].pc = "announce"]
  /\ UNCHANGED << fwd, rev, cache, sessions, upserts, ends, batches >>

-----------------------------------------------------------------------------
(***************************************************************************)
(* The application is told.                                                *)
(***************************************************************************)

\* processMessage(): the first middleware, if there is one, is called.
Process(h) == IF Layers > 0 THEN [h EXCEPT !.pc = "middleware", !.layer = 1] ELSE End("ended", h)

\* isRealMessage(): text and the like go through the middlewares.
Finish(h) == IF h.kind = "text" /\ h.content THEN Process(h) ELSE End("ended", h)

\* cleanMessage() throws on a reaction or poll update without its key; the
\* handler's catch logs it.  Else messages.upsert is emitted; a listener of
\* the application that throws ends the handler there.  Sync keys of the
\* message are stored next.
Announce(s) ==
  /\ handlers[s].pc = "announce"
  /\ LET h == handlers[s]
     IN  IF h.kind = "bare" /\ h.content
         THEN /\ handlers' = [handlers EXCEPT ![s] = End("dropped", h)]
              /\ UNCHANGED upserts
         ELSE /\ upserts' = [upserts EXCEPT ![s] = Append(@, [content |-> h.content, stub |-> h.stub, once |-> h.kind = "once"])]
              /\ \E throws \in BOOLEAN :
                   handlers' = [handlers EXCEPT ![s] =
                     CASE throws -> End("ended", h)
                       [] ~throws /\ h.kind = "keys" /\ h.content -> [h EXCEPT !.pc = "keys"]
                       [] OTHER -> Finish(h)]
  /\ UNCHANGED << fwd, rev, cache, sessions, ends, batches >>

\* They are stored, or are not: that is logged.
KeysStored(s) ==
  /\ handlers[s].pc = "keys"
  /\ handlers' = [handlers EXCEPT ![s] = Finish(@)]
  /\ UNCHANGED << fwd, rev, cache, sessions, upserts, ends, batches >>

\* A middleware calls next(), or returns without; it throws, or calls it
\* again, which throws.
Middleware(s) ==
  /\ handlers[s].pc = "middleware"
  /\ \/ handlers[s].layer < Layers /\ handlers' = [handlers EXCEPT ![s].layer = @ + 1]
     \/ handlers' = [handlers EXCEPT ![s] = End("ended", @)]
  /\ UNCHANGED << fwd, rev, cache, sessions, upserts, ends, batches >>

-----------------------------------------------------------------------------
Step(s) ==
  \/ Resolve(s) \/ Resolved(s) \/ StoreMapping(s) \/ Stored(s)
  \/ Decrypt(s) \/ Loading(s) \/ Ratchet(s) \/ Storing(s) \/ Download(s)
  \/ Announce(s) \/ KeysStored(s) \/ Middleware(s)

Next ==
  \/ \E s \in Stanzas : Handle(s) \/ Step(s)
  \/ Expire \/ ProcessEnds

Spec == Init /\ [][Next]_vars

-----------------------------------------------------------------------------
(***************************************************************************)
(* Properties.                                                             *)
(***************************************************************************)

\* Every message is announced once, and not as if it were empty: one that
\* could not be read, in whole or in part, comes as a stub (or is marked as
\* view-once).  The map's store may fail, a child may not decrypt, a download
\* or the sync keys' store may fail, listeners and middlewares may throw; the
\* one stanza that is dropped has a reaction or poll update without its key
\* (recv.ts:488, caught at client.ts:963).
AnnouncedOnce ==
  \A s \in Stanzas :
    LET h == handlers[s]
    IN  /\ Len(upserts[s]) <= 1
        /\ \A u \in Range(upserts[s]) : u.content \/ u.stub \/ u.once
        /\ h.pc = "ended" => Len(upserts[s]) = 1
        /\ h.pc = "dropped" => upserts[s] = << >> /\ h.kind = "bare"

\* The LIDs that the store ever had for a number, and whether it had two.
Had(n) == { l \in Lids : \E how \in {"both", "half"} : << n, l, how >> \in batches }
Renamed(n) == \E l, m \in Had(n) : l # m

\* Whatever handlers overlap, sets fail or caches expire, nobody is mixed up
\* with anybody: a number is mapped to a LID that the store has or had for it.
\* The cache may differ from the store (a session would go where no one finds
\* it) only for a number that had two LIDs.  A LID leads back to its number,
\* unless the batch was written half, or another number had the LID too.
MappingAgrees ==
  /\ \A n \in Numbers :
       /\ cache[n] \in Had(n) \cup {None}
       /\ cache[n] \in {fwd[n], None} \/ Renamed(n)
       /\ \/ fwd[n] = None \/ rev[fwd[n]] = n \/ << n, fwd[n], "half" >> \in batches
          \/ \E m \in Numbers \ {n} : fwd[n] \in Had(m)
  /\ \A l \in Lids : rev[l] # None =>
       l \in Had(rev[l]) /\ (fwd[rev[l]] = l \/ Renamed(rev[l]))

\* "writes every new pair plus its reverse entry in a single atomic `setKeys`
\* call" (lid-mapping.ts:68): a mapped number's LID can be followed back.
BothWritten == \A n \in Numbers : fwd[n] # None => rev[fwd[n]] # None

\* Where the session of a number would be looked for now.
Address(n) == IF cache[n] # None THEN cache[n] ELSE IF fwd[n] # None THEN fwd[n] ELSE n

\* The session that messages of the number are decrypted with.
Reachable(n) == Address(n) \in sessions

\* "we keep a cached bidirectional map so Signal sessions and routing stay
\* consistent" (lid-mapping.ts:6): learning a number's LID leaves the session
\* with that number usable.
SessionsFollow == [][\A n \in Numbers : Reachable(n) => Reachable(n)']_vars

=============================================================================
