-------------------------------- MODULE PreKeys --------------------------------
(***************************************************************************)
(* One-time pre-keys (utils/pre-key-manager.ts, with the stores and the    *)
(* queries it uses): after a login the client asks how many the server has *)
(* left, stores new ones, uploads them, and advances creds.nextPreKeyId;   *)
(* a peer that takes one from the server sends a pkmsg under it, which     *)
(* consumes it.  The process may end at any moment; a new one starts from  *)
(* the credentials and keys on disk.                                       *)
(*                                                                         *)
(* A key is << id, upload >>: every upload generates new key pairs, also   *)
(* under ids used before.  The store is one of the three in store/,        *)
(* wrapped in the cache of KeyCache; the server, the peers and the disk    *)
(* are external.                                                           *)
(***************************************************************************)
EXTENDS Naturals, Sequences, FiniteSets, SequencesExt, FiniteSetsExt, KeyCache

CONSTANTS
  Logins,           \* each uploads at most once
  Messages,         \* bound: pkmsgs peers send
  INITIAL_PREKEY_COUNT, MIN_PREKEY_COUNT,
  MaxId,            \* bound: ids in use
  MaxCrashes        \* bound

ASSUME PreKeysAssumption ==
  /\ MIN_PREKEY_COUNT \in Nat \ {0} /\ INITIAL_PREKEY_COUNT \in Nat \ {0}
  /\ MaxId \in Nat /\ MaxCrashes \in Nat /\ MaxCacheSize \in Nat

Ids    == 1..MaxId
NoKey  == << >>
Keys   == Ids \X Logins

VARIABLES
  store,      \* which store it is
  disk,       \* its 'pre-key' entries: id -> key
  saved,      \* nextPreKeyId in the credentials on disk
  next,       \* creds.nextPreKeyId
  cache,      \* of the key store
  uploads,    \* the calls of uploadPreKeysToServer(): see Idle
  wire,       \* stanzas under way: bundles and their acknowledgements
  server,     \* the keys the server hands out: id -> key
  msgs,       \* pkmsgs and the state of their decryption
  crashes,
  history     \* ids that left in a bundle, ids that the server got, and
              \* whether keys were generated over ids that had left or were
              \* about to

vars == << store, disk, saved, next, cache, uploads, wire, server, msgs, crashes, history >>

\* fill: what a get read from disk and will cache.
Idle == [pc |-> "idle", from |-> 1, count |-> 0, fill |-> NoKey]

NoMsg == [pc |-> "none", key |-> NoKey, seen |-> NoKey, fill |-> NoKey]

\* Ids and keys of an upload.
BatchIds(u)  == uploads[u].from .. (uploads[u].from + uploads[u].count - 1)
LastId(up)   == up.from + up.count - 1

Init ==
  /\ store \in {"file", "sqlite", "memory"}
  /\ disk = [i \in Ids |-> NoKey] /\ saved = 1 /\ next = 1 /\ cache = << >>
  /\ uploads = [u \in Logins |-> Idle] /\ wire = {}
  /\ server = [i \in Ids |-> NoKey]
  /\ msgs = [m \in Messages |-> NoMsg]
  /\ crashes = 0
  /\ history = [sent |-> {}, accepted |-> {}, reused |-> FALSE]

-----------------------------------------------------------------------------
(***************************************************************************)
(* The stores: how many of n entries, in the order of their ids, are left  *)
(* when a batch fails, or when the process ends during it.                 *)
(***************************************************************************)

FileByFile(n)    == 0..n
InTransaction(n) == {0, n}
InMemory(n)      == {n}

LeftOf(n) ==
  CASE store = "file" -> FileByFile(n) [] store = "sqlite" -> InTransaction(n)
    [] store = "memory" -> InMemory(n)

\* The memory store is gone with the process, and the account with it.
Persists == store # "memory"

\* What the store has for an id.
Stored(id) == disk[id]

-----------------------------------------------------------------------------
(***************************************************************************)
(* The upload.                                                             *)
(***************************************************************************)

\* get() of one key: the cached value, or the store's; what it will cache.
Got(id)    == IF Has(cache, id) THEN ValueOf(cache, id) ELSE Stored(id)
Missed(id) == IF Has(cache, id) THEN NoKey ELSE Stored(id)

\* What the get read is cached when it returns, over what was set meanwhile.
Fill(id, key) == IF key # NoKey THEN CacheSet(cache, id, key) ELSE cache

OnServer == { i \in Ids : server[i] # NoKey }

\* A login: the count query goes out.
Start(u) ==
  /\ uploads[u].pc = "idle"
  /\ uploads' = [uploads EXCEPT ![u].pc = "count"]
  /\ UNCHANGED << store, disk, saved, next, cache, wire, server, msgs, crashes, history >>

\* The count arrives, or the query fails and 0 is assumed.  The get of the
\* current key that follows reads the cache, or the store.
Counted(u) ==
  /\ uploads[u].pc = "count"
  /\ \E n \in {Cardinality(OnServer), 0} :
       LET current == next - 1
           key == IF current = 0 THEN NoKey ELSE Got(current)
       IN  uploads' = [uploads EXCEPT ![u] =
             [Idle EXCEPT !.pc = "check", !.from = current,
                !.fill = IF current = 0 THEN NoKey ELSE Missed(current),
                !.count = IF n = 0 THEN INITIAL_PREKEY_COUNT
                          ELSE IF n <= MIN_PREKEY_COUNT \/ key = NoKey
                          THEN MIN_PREKEY_COUNT ELSE 0]]
  /\ UNCHANGED << store, disk, saved, next, cache, wire, server, msgs, crashes, history >>

Batch(u, from, n) == [i \in 1..n |-> [k |-> from + i - 1, v |-> << from + i - 1, u >>]]

\* The first n entries of a batch, written in the order of their ids.
Written(u, from, n) ==
  [i \in Ids |-> IF i \in from..(from + n - 1) THEN << i, u >> ELSE disk[i]]

\* Keys are generated over ids that have left in a bundle, or are about to.
Leaving == history.sent \cup UNION { BatchIds(u) : u \in { v \in Logins : uploads[v].pc = "stored" } }
Reuse(n) == [history EXCEPT !.reused = @ \/ (next..(next + n - 1)) \cap Leaving # {}]

\* The get returns; enough keys: done.
Enough(u) ==
  /\ uploads[u].pc = "check" /\ uploads[u].count = 0
  /\ cache' = Fill(uploads[u].from, uploads[u].fill)
  /\ uploads' = [uploads EXCEPT ![u] = [Idle EXCEPT !.pc = "ended"]]
  /\ UNCHANGED << store, disk, saved, next, wire, server, msgs, crashes, history >>

\* Or new keys are generated, from nextPreKeyId on, and stored.
Generate(u) ==
  LET n == uploads[u].count
  IN  /\ uploads[u].pc = "check" /\ n > 0 /\ next + n - 1 <= MaxId
      /\ cache' = CacheSetAll(Fill(uploads[u].from, uploads[u].fill), Batch(u, next, n))
      /\ disk' = Written(u, next, n)
      /\ history' = Reuse(n)
      /\ uploads' = [uploads EXCEPT ![u] =
                       [Idle EXCEPT !.pc = "stored", !.from = next, !.count = n]]
      /\ UNCHANGED << store, saved, next, wire, server, msgs, crashes >>

BugStoreFailureIgnored(u) ==
  LET n == uploads[u].count
  IN  /\ uploads[u].pc = "check" /\ n > 0 /\ next + n - 1 <= MaxId
      /\ cache' = CacheSetAll(Fill(uploads[u].from, uploads[u].fill), Batch(u, next, n))
      /\ \E k \in LeftOf(n) \ {n} : disk' = Written(u, next, k)
      /\ history' = Reuse(n)
      /\ uploads' = [uploads EXCEPT ![u] =
                       [Idle EXCEPT !.pc = "stored", !.from = next, !.count = n]]
      /\ UNCHANGED << store, saved, next, wire, server, msgs, crashes >>

\* The store fails on the way: the cache has the batch, the disk some of it.
StoreFails(u) ==
  LET n == uploads[u].count
  IN  /\ uploads[u].pc = "check" /\ n > 0 /\ next + n - 1 <= MaxId
      /\ cache' = CacheSetAll(Fill(uploads[u].from, uploads[u].fill), Batch(u, next, n))
      /\ \E k \in LeftOf(n) \ {n} : disk' = Written(u, next, k)
      /\ history' = Reuse(n)
      /\ uploads' = [uploads EXCEPT ![u] = [Idle EXCEPT !.pc = "ended"]]
      /\ UNCHANGED << store, saved, next, wire, server, msgs, crashes >>

\* The bundle goes out, or sendNode() rejects.
SendBundle(u) ==
  /\ uploads[u].pc = "stored"
  /\ \/ /\ wire' = wire \cup {[type |-> "bundle", of |-> u, ids |-> BatchIds(u)]}
        /\ history' = [history EXCEPT !.sent = @ \cup BatchIds(u)]
        /\ uploads' = [uploads EXCEPT ![u].pc = "bundle"]
     \/ /\ uploads' = [uploads EXCEPT ![u] = [Idle EXCEPT !.pc = "ended"]]
        /\ UNCHANGED << wire, history >>
  /\ UNCHANGED << store, disk, saved, next, cache, server, msgs, crashes >>

\* The answer resolves the query that waits for it; a late one finds none.
Acknowledged(u) ==
  /\ \E a \in wire : a.type = "ack" /\ a.of = u /\ wire' = wire \ {a}
  /\ IF uploads[u].pc # "bundle" THEN UNCHANGED << uploads, next >>
     ELSE /\ next' = LastId(uploads[u]) + 1
          /\ uploads' = [uploads EXCEPT ![u] = [Idle EXCEPT !.pc = "save"]]
  /\ UNCHANGED << store, disk, saved, cache, server, msgs, crashes, history >>

BugTimeoutIsAck(u) ==
  /\ uploads[u].pc = "bundle"
  /\ next' = LastId(uploads[u]) + 1
  /\ uploads' = [uploads EXCEPT ![u] = [Idle EXCEPT !.pc = "save"]]
  /\ UNCHANGED << store, disk, saved, cache, wire, server, msgs, crashes, history >>

\* The query times out, or its answer is an error.
Rejected(u) ==
  /\ uploads[u].pc = "bundle"
  /\ uploads' = [uploads EXCEPT ![u] = [Idle EXCEPT !.pc = "ended"]]
  /\ UNCHANGED << store, disk, saved, next, cache, wire, server, msgs, crashes, history >>

\* 'creds.update': the application saves the credentials, with what they
\* hold by then.
SaveCreds(u) ==
  /\ uploads[u].pc = "save"
  /\ saved' = next
  /\ uploads' = [uploads EXCEPT ![u] = [Idle EXCEPT !.pc = "ended"]]
  /\ UNCHANGED << store, disk, next, cache, wire, server, msgs, crashes, history >>

-----------------------------------------------------------------------------
(***************************************************************************)
(* The server and the peers.                                               *)
(***************************************************************************)

\* The server takes the bundle over what it has, and acknowledges.
Accept(b) ==
  /\ b \in wire /\ b.type = "bundle"
  /\ server' = [i \in Ids |-> IF i \in b.ids THEN << i, b.of >> ELSE server[i]]
  /\ history' = [history EXCEPT !.accepted = @ \cup b.ids]
  /\ wire' = (wire \ {b}) \cup {[b EXCEPT !.type = "ack"]}
  /\ UNCHANGED << store, disk, saved, next, cache, uploads, msgs, crashes >>

\* A stanza is lost, with its connection.
Lose(b) ==
  /\ b \in wire
  /\ wire' = wire \ {b}
  /\ UNCHANGED << store, disk, saved, next, cache, uploads, server, msgs, crashes, history >>

\* A peer takes a key, which the server then forgets, and sends a pkmsg.
Take(m) ==
  /\ msgs[m].pc = "none"
  /\ \E i \in OnServer :
       /\ msgs' = [msgs EXCEPT ![m] = [NoMsg EXCEPT !.pc = "sent", !.key = server[i]]]
       /\ server' = [server EXCEPT ![i] = NoKey]
  /\ UNCHANGED << store, disk, saved, next, cache, uploads, wire, crashes, history >>

\* loadPreKey() of the id the pkmsg names.
LoadPreKey(m) ==
  /\ msgs[m].pc = "sent"
  /\ LET id == msgs[m].key[1]
     IN  msgs' = [msgs EXCEPT ![m].pc = "load",
                                      ![m].seen = Got(id), ![m].fill = Missed(id)]
  /\ UNCHANGED << store, disk, saved, next, cache, uploads, wire, server, crashes, history >>

\* With its private key the message decrypts; without, it never will.
Decrypt(m) ==
  /\ msgs[m].pc = "load"
  /\ cache' = Fill(msgs[m].key[1], msgs[m].fill)
  /\ msgs' = [msgs EXCEPT ![m] =
       IF @.seen = @.key THEN [@ EXCEPT !.pc = "read", !.seen = NoKey, !.fill = NoKey]
       ELSE [NoMsg EXCEPT !.pc = "unreadable"]]
  /\ UNCHANGED << store, disk, saved, next, uploads, wire, server, crashes, history >>

\* removePreKey(): the cache, then the store.
RemovePreKey(m) ==
  /\ msgs[m].pc = "read"
  /\ LET id == msgs[m].key[1]
     IN  /\ cache' = Without(cache, id)
         /\ disk' = [disk EXCEPT ![id] = NoKey]
  /\ msgs' = [msgs EXCEPT ![m] = [NoMsg EXCEPT !.pc = "done"]]
  /\ UNCHANGED << store, saved, next, uploads, wire, server, crashes, history >>

-----------------------------------------------------------------------------
(***************************************************************************)
(* The end of the process.                                                 *)
(***************************************************************************)

\* After some of a batch is written, or elsewhere; a message that
\* is not decrypted yet is delivered again, one that is has its session.
Crash ==
  /\ crashes < MaxCrashes /\ Persists
  /\ crashes' = crashes + 1
  /\ next' = saved /\ cache' = << >>
  /\ \/ UNCHANGED << store, disk, history >>
     \/ \E u \in Logins :
          /\ uploads[u].pc = "check" /\ next + uploads[u].count - 1 <= MaxId
          /\ \E k \in LeftOf(uploads[u].count) \ {0} : disk' = Written(u, next, k) /\ history' = Reuse(k)
  /\ uploads' = [u \in Logins |->
       IF uploads[u].pc = "idle" THEN Idle ELSE [Idle EXCEPT !.pc = "ended"]]
  /\ msgs' = [m \in Messages |->
       CASE msgs[m].pc = "load" -> [NoMsg EXCEPT !.pc = "sent", !.key = msgs[m].key]
         [] msgs[m].pc = "read" -> [NoMsg EXCEPT !.pc = "done"]
         [] OTHER -> msgs[m]]
  /\ UNCHANGED << store, saved, wire, server >>

-----------------------------------------------------------------------------
Step(u) ==
  \/ Counted(u) \/ Enough(u) \/ Generate(u) \/ StoreFails(u)
  \/ SendBundle(u) \/ Acknowledged(u) \/ Rejected(u) \/ SaveCreds(u)

Next ==
  \/ \E u \in Logins : Start(u) \/ Step(u)
  \/ \E b \in wire : Accept(b) \/ Lose(b)
  \/ \E m \in Messages : Take(m) \/ LoadPreKey(m) \/ Decrypt(m) \/ RemovePreKey(m)
  \/ Crash

Spec == Init /\ [][Next]_vars

-----------------------------------------------------------------------------
(***************************************************************************)
(* Properties.                                                             *)
(***************************************************************************)

\* nextPreKeyId, in memory and on disk, is never ahead of the server: every
\* id below it is in a bundle the server got.  An answer that is late, lost
\* or belongs to another login's upload, and a crash before the credentials
\* are saved, may leave it behind, but never skip a batch.
AckedOnly ==
  /\ 1..(next - 1) \subseteq history.accepted
  /\ 1..(saved - 1) \subseteq history.accepted

\* "so we never upload a key we can't decrypt with" (pre-key-manager.ts:231):
\* whatever the server still hands out, or a peer has used in a message that
\* is under way, has its private key on disk.
Decryptable ==
  /\ \A i \in OnServer : disk[i] = server[i]
  /\ \A m \in Messages : msgs[m].pc \in {"sent", "load"} => disk[msgs[m].key[1]] = msgs[m].key
  /\ \A m \in Messages : msgs[m].pc # "unreadable"

\* The same as long as no keys were generated over ids that had left in a
\* bundle or were about to: crashes between two entries of a batch, a store that fails, lost
\* and late answers, overlapping logins, a cache that has what the disk has
\* not, and the removal of used keys leave every offered key decryptable.
DecryptableUnlessReused == history.reused \/ Decryptable

=============================================================================
