----------------------------- MODULE PreKeysProofs -----------------------------
(***************************************************************************)
(* Proofs about PreKeys, for any number of logins, ids, crashes and late,  *)
(* lost or crossed answers, and any store and cache: AckInv is about what  *)
(* the server has accepted, KeptInv about what the disk keeps of it.       *)
(***************************************************************************)
EXTENDS PreKeys, SequenceTheorems, WellFoundedInduction, TLAPS

Upload(up) ==
  DOMAIN up = {"pc", "from", "count", "fill"} /\ up.from \in Nat /\ up.count \in Nat

Stanza == [type : {"bundle", "ack"}, of : Logins, ids : SUBSET Nat]

Sending == {"stored", "bundle"}
Left    == {"bundle", "save", "ended"}

\* Everything before the batch was accepted.
Behind(up, accepted) == up.from # 0 /\ 1..(up.from - 1) \subseteq accepted

\* AckedOnly is not inductive by itself: an upload that was acknowledged sets
\* nextPreKeyId past its batch, so everything before the batch must have been
\* accepted too, and the answer must be about that very batch.
AckInv ==
  /\ next \in Nat \ {0} /\ saved \in Nat \ {0}
  /\ DOMAIN history = {"sent", "accepted", "reused"}
  /\ wire \subseteq Stanza
  /\ uploads = [u \in Logins |-> uploads[u]]
  /\ \A u \in Logins : Upload(uploads[u])
  /\ 1..(next - 1) \subseteq history.accepted
  /\ 1..(saved - 1) \subseteq history.accepted
  /\ \A u \in Logins : uploads[u].pc \in Sending => Behind(uploads[u], history.accepted)
  /\ \A b \in wire : /\ uploads[b.of].pc \in Left
                     /\ uploads[b.of].pc = "bundle" => b.ids = BatchIds(b.of)
                     /\ b.type = "ack" => b.ids \subseteq history.accepted

LEMMA AckInit == Init => AckInv
BY DEF Init, AckInv, Idle, Upload, Sending

\* A step of one upload that neither sends nor hears anything.
LEMMA UploadMoves ==
  ASSUME AckInv, NEW u \in Logins, NEW up, Upload(up),
         uploads' = [uploads EXCEPT ![u] = up],
         UNCHANGED << next, wire >>, history'.accepted = history.accepted,
         DOMAIN history' = DOMAIN history,
         saved' \in {saved, next},
         up.pc \in Sending => Behind(up, history.accepted),
         uploads[u].pc \in Left => up.pc \in Left \ {"bundle"},
         up.pc = "bundle" => uploads[u].pc \notin Left
  PROVE  AckInv'
<1>1. /\ \A v \in Logins \ {u} : uploads'[v] = uploads[v]
      /\ uploads'[u] = up /\ uploads' = [v \in Logins |-> uploads'[v]]
  BY DEF AckInv
<1>2. \A v \in Logins : Upload(uploads'[v])
  BY <1>1 DEF AckInv
<1>3. \A v \in Logins : uploads'[v].pc \in Sending => Behind(uploads'[v], history'.accepted)
  BY <1>1 DEF AckInv
<1>4. \A b \in wire' : /\ uploads'[b.of].pc \in Left
                       /\ uploads'[b.of].pc = "bundle" => b.ids = BatchIds(b.of)'
                       /\ b.type = "ack" => b.ids \subseteq history'.accepted
  <2> SUFFICES ASSUME NEW b \in wire
               PROVE  /\ uploads'[b.of].pc \in Left
                      /\ uploads'[b.of].pc = "bundle" => b.ids = BatchIds(b.of)'
                      /\ b.type = "ack" => b.ids \subseteq history.accepted
    OBVIOUS
  <2>1. /\ b.of \in Logins /\ uploads[b.of].pc \in Left
        /\ uploads[b.of].pc = "bundle" => b.ids = BatchIds(b.of)
        /\ b.type = "ack" => b.ids \subseteq history.accepted
    BY DEF AckInv, Stanza
  <2>2. CASE b.of = u
    BY <1>1, <2>1, <2>2
  <2>3. CASE b.of # u
    BY <1>1, <2>1, <2>3 DEF BatchIds
  <2> QED
    BY <2>2, <2>3
<1>5. saved' \in Nat \ {0} /\ 1..(saved' - 1) \subseteq history'.accepted
  BY DEF AckInv
<1> QED
  BY <1>1, <1>2, <1>3, <1>4, <1>5 DEF AckInv

\* What an upload looks like after its steps.
LEMMA Ended ==
  LET up == [Idle EXCEPT !.pc = "ended"]
  IN  Upload(up) /\ up.pc = "ended"
BY DEF Idle, Upload

LEMMA ReuseKeeps ==
  ASSUME AckInv, NEW n
  PROVE  Reuse(n).accepted = history.accepted /\ DOMAIN Reuse(n) = DOMAIN history
BY DEF AckInv, Reuse

LEMMA UploadSteps ==
  ASSUME AckInv, NEW u \in Logins,
         \/ Start(u) \/ Counted(u) \/ Enough(u) \/ Generate(u) \/ StoreFails(u)
         \/ Rejected(u) \/ SaveCreds(u)
  PROVE  AckInv'
<1>1. /\ Upload(uploads[u]) /\ next \in Nat \ {0} /\ UNCHANGED << next, wire >>
      /\ 1..(next - 1) \subseteq history.accepted
  BY DEF AckInv, Start, Counted, Enough, Generate, StoreFails, Rejected, SaveCreds
<1>2. CASE Start(u)
  <2> DEFINE up == [uploads[u] EXCEPT !.pc = "count"]
  <2>1. Upload(up) /\ up.pc = "count"
    BY <1>1 DEF Upload
  <2>2. /\ uploads' = [uploads EXCEPT ![u] = up] /\ uploads[u].pc = "idle"
        /\ UNCHANGED << history, saved >>
    BY <1>2 DEF Start
  <2> HIDE DEF up
  <2> QED
    BY <1>1, <2>1, <2>2, UploadMoves DEF Sending, Left, Behind
<1>3. CASE Counted(u)
  <2>0. PICK c \in {INITIAL_PREKEY_COUNT, MIN_PREKEY_COUNT, 0} : \E f :
          uploads' = [uploads EXCEPT ![u] = [Idle EXCEPT !.pc = "check", !.from = next - 1, !.fill = f, !.count = c]]
    BY <1>3, Zenon DEF Counted
  <2>1. PICK f :
          uploads' = [uploads EXCEPT ![u] = [Idle EXCEPT !.pc = "check", !.from = next - 1, !.fill = f, !.count = c]]
    BY <2>0
  <2> DEFINE up == [Idle EXCEPT !.pc = "check", !.from = next - 1, !.fill = f, !.count = c]
  <2>2. Upload(up) /\ up.pc = "check"
    BY <1>1, <2>1, PreKeysAssumption DEF Upload, Idle
  <2>3. uploads[u].pc = "count" /\ UNCHANGED << history, saved >>
    BY <1>3 DEF Counted
  <2> HIDE DEF up
  <2> QED
    BY <1>1, <2>1, <2>2, <2>3, UploadMoves DEF Sending, Left, Behind, up
<1>4. CASE Generate(u)
  <2> DEFINE up == [Idle EXCEPT !.pc = "stored", !.from = next, !.count = uploads[u].count]
  <2>1. Upload(up) /\ up.pc = "stored" /\ up.from = next
    BY <1>1 DEF Upload, Idle
  <2>2. /\ uploads' = [uploads EXCEPT ![u] = up] /\ uploads[u].pc = "check"
        /\ history' = Reuse(uploads[u].count) /\ UNCHANGED saved
    BY <1>4 DEF Generate
  <2> HIDE DEF up
  <2> QED
    BY <1>1, <2>1, <2>2, ReuseKeeps, UploadMoves DEF Sending, Left, Behind
<1>5. CASE Enough(u) \/ StoreFails(u) \/ Rejected(u) \/ SaveCreds(u)
  <2> DEFINE up == [Idle EXCEPT !.pc = "ended"]
  <2>1. uploads' = [uploads EXCEPT ![u] = up]
    BY <1>5 DEF Enough, StoreFails, Rejected, SaveCreds
  <2>2. saved' \in {saved, next} /\ history' \in {history, Reuse(uploads[u].count)}
    BY <1>5 DEF Enough, StoreFails, Rejected, SaveCreds
  <2>3. Upload(up) /\ up.pc = "ended"
    BY Ended
  <2> HIDE DEF up
  <2> QED
    BY <1>1, <2>1, <2>2, <2>3, ReuseKeeps, UploadMoves DEF Sending, Left, Behind
<1> QED
  BY <1>2, <1>3, <1>4, <1>5

\* The bundle names the batch of its upload, which has sent none before.
LEMMA SendBundleStep ==
  ASSUME AckInv, NEW u \in Logins, SendBundle(u)
  PROVE  AckInv'
<1>1. Upload(uploads[u]) /\ uploads[u].pc = "stored" /\ UNCHANGED << next, saved >>
  BY DEF AckInv, SendBundle
<1>2. CASE UNCHANGED << wire, history >> /\ uploads' = [uploads EXCEPT ![u] = [Idle EXCEPT !.pc = "ended"]]
  <2> DEFINE up == [Idle EXCEPT !.pc = "ended"]
  <2>1. Upload(up) /\ up.pc = "ended" /\ uploads' = [uploads EXCEPT ![u] = up]
    BY <1>2, Ended
  <2> HIDE DEF up
  <2> QED
    BY <1>1, <1>2, <2>1, UploadMoves DEF Sending, Left, Behind
<1>3. CASE /\ wire' = wire \cup {[type |-> "bundle", of |-> u, ids |-> BatchIds(u)]}
           /\ history' = [history EXCEPT !.sent = history.sent \cup BatchIds(u)]
           /\ uploads' = [uploads EXCEPT ![u] = [uploads[u] EXCEPT !.pc = "bundle"]]
  <2>b. PICK b : b = [type |-> "bundle", of |-> u, ids |-> BatchIds(u)]
    OBVIOUS
  <2> DEFINE up == [uploads[u] EXCEPT !.pc = "bundle"]
  <2>1. Upload(up) /\ up.pc = "bundle" /\ up.from = uploads[u].from /\ up.count = uploads[u].count
    BY <1>1 DEF Upload
  <2>2. /\ \A v \in Logins \ {u} : uploads'[v] = uploads[v]
        /\ uploads'[u] = up /\ uploads' = [v \in Logins |-> uploads'[v]]
    BY <1>3 DEF AckInv
  <2>3. \A v \in Logins : BatchIds(v)' = BatchIds(v)
    BY <2>1, <2>2 DEF BatchIds
  <2>4. history'.accepted = history.accepted /\ DOMAIN history' = DOMAIN history
    BY <1>3 DEF AckInv
  <2>5. BatchIds(u) \in SUBSET Nat
    BY <1>1 DEF BatchIds, Upload
  <2>6. b \in Stanza /\ b.of = u /\ b.type = "bundle" /\ b.ids = BatchIds(u)
    BY <2>b, <2>5 DEF Stanza
  <2> HIDE DEF up
  <2>7. wire' = wire \cup {b}
    BY <1>3, <2>b
  <2>8. \A v \in Logins : Upload(uploads'[v]) /\ (uploads'[v].pc \in Sending =>
                            Behind(uploads'[v], history'.accepted))
    BY <1>1, <2>1, <2>2, <2>4 DEF AckInv, Sending, Behind
  <2>9. \A c \in wire : c.of # u
    BY <1>1 DEF AckInv, Left, Stanza
  <2>10. \A c \in wire' : /\ uploads'[c.of].pc \in Left
                          /\ uploads'[c.of].pc = "bundle" => c.ids = BatchIds(c.of)'
                          /\ c.type = "ack" => c.ids \subseteq history'.accepted
    <3>1. \A c \in wire : c.of \in Logins \ {u}
      BY <2>9 DEF AckInv, Stanza
    <3>2. \A c \in wire : /\ uploads'[c.of].pc \in Left
                          /\ uploads'[c.of].pc = "bundle" => c.ids = BatchIds(c.of)'
                          /\ c.type = "ack" => c.ids \subseteq history'.accepted
      BY <2>2, <2>3, <2>4, <3>1 DEF AckInv
    <3>3. /\ uploads'[b.of].pc \in Left /\ b.ids = BatchIds(b.of)' /\ b.type # "ack"
      BY <2>1, <2>2, <2>3, <2>6 DEF Left
    <3> QED
      BY <2>7, <3>2, <3>3
  <2> QED
    BY <1>1, <2>2, <2>4, <2>6, <2>7, <2>8, <2>10 DEF AckInv
<1> QED
  BY <1>2, <1>3 DEF SendBundle

\* An answer is about the batch of its upload, if that still waits for it.
LEMMA AcknowledgedStep ==
  ASSUME AckInv, NEW u \in Logins, Acknowledged(u)
  PROVE  AckInv'
<1>1. PICK a \in wire : a.type = "ack" /\ a.of = u /\ wire' = wire \ {a}
  BY DEF Acknowledged
<1>2. /\ UNCHANGED << saved, history >> /\ Upload(uploads[u])
      /\ a.ids \subseteq history.accepted /\ (uploads[u].pc = "bundle" => a.ids = BatchIds(u))
  BY <1>1 DEF Acknowledged, AckInv
<1>3. CASE uploads[u].pc # "bundle"
  <2>1. UNCHANGED << uploads, next >>
    BY <1>3 DEF Acknowledged
  <2>2. \A v \in Logins : BatchIds(v)' = BatchIds(v)
    BY <2>1 DEF BatchIds
  <2>3. \A b \in wire' : b \in wire /\ b.of \in Logins
    BY <1>1 DEF AckInv, Stanza
  <2>4. \A b \in wire' : /\ uploads'[b.of].pc \in Left
                         /\ uploads'[b.of].pc = "bundle" => b.ids = BatchIds(b.of)'
                         /\ b.type = "ack" => b.ids \subseteq history'.accepted
    BY <1>2, <2>1, <2>2, <2>3 DEF AckInv
  <2> QED
    BY <1>1, <1>2, <2>1, <2>4 DEF AckInv
<1>4. CASE uploads[u].pc = "bundle"
  <2> DEFINE up == [Idle EXCEPT !.pc = "save"]
  <2>1. Upload(up) /\ up.pc = "save"
    BY DEF Idle, Upload
  <2>2. next' = uploads[u].from + uploads[u].count - 1 + 1 /\ uploads' = [uploads EXCEPT ![u] = up]
    BY <1>4 DEF Acknowledged, LastId
  <2> HIDE DEF up
  <2>3. /\ uploads[u].from \in Nat /\ uploads[u].count \in Nat
        /\ uploads[u].from # 0 /\ 1..(uploads[u].from - 1) \subseteq history.accepted
        /\ uploads[u].from .. (uploads[u].from + uploads[u].count - 1) \subseteq history.accepted
    BY <1>2, <1>4 DEF Upload, BatchIds, AckInv, Sending, Behind
  <2>4. next' \in Nat /\ 1..(next' - 1) \subseteq history.accepted
    BY <2>2, <2>3
  <2>5. /\ \A v \in Logins \ {u} : uploads'[v] = uploads[v]
        /\ uploads'[u] = up /\ uploads' = [v \in Logins |-> uploads'[v]]
    BY <2>2 DEF AckInv
  <2>6. \A v \in Logins : Upload(uploads'[v]) /\ (uploads'[v].pc \in Sending =>
                            Behind(uploads'[v], history.accepted))
    BY <2>1, <2>5 DEF AckInv, Sending
  <2>7. \A b \in wire' : /\ uploads'[b.of].pc \in Left
                         /\ uploads'[b.of].pc = "bundle" => b.ids = BatchIds(b.of)'
                         /\ b.type = "ack" => b.ids \subseteq history.accepted
    <3> SUFFICES ASSUME NEW b \in wire
                 PROVE  /\ uploads'[b.of].pc \in Left
                        /\ uploads'[b.of].pc = "bundle" => b.ids = BatchIds(b.of)'
                        /\ b.type = "ack" => b.ids \subseteq history.accepted
      BY <1>1
    <3>1. /\ b.of \in Logins /\ uploads[b.of].pc \in Left
          /\ uploads[b.of].pc = "bundle" => b.ids = BatchIds(b.of)
          /\ b.type = "ack" => b.ids \subseteq history.accepted
      BY DEF AckInv, Stanza
    <3>2. CASE b.of = u
      BY <2>1, <2>5, <3>1, <3>2 DEF Left
    <3>3. CASE b.of # u
      BY <2>5, <3>1, <3>3 DEF BatchIds
    <3> QED
      BY <3>2, <3>3
  <2>8. next' # 0
    BY <2>2, <2>3
  <2> QED
    BY <1>1, <1>2, <2>4, <2>5, <2>6, <2>7, <2>8 DEF AckInv
<1> QED
  BY <1>3, <1>4

\* The server's side: what it accepts grows.
LEMMA ServerStep ==
  ASSUME AckInv, NEW b \in wire, Accept(b) \/ Lose(b)
  PROVE  AckInv'
<1>1. b \in Stanza /\ b.of \in Logins /\ uploads[b.of].pc \in Left
      /\ (uploads[b.of].pc = "bundle" => b.ids = BatchIds(b.of))
  BY DEF AckInv, Stanza
<1>2. UNCHANGED << saved, next, uploads >> /\ \A v \in Logins : BatchIds(v)' = BatchIds(v)
  BY DEF Accept, Lose, BatchIds
<1>3. PICK a : a = [b EXCEPT !.type = "ack"]
  OBVIOUS
<1>4. a \in Stanza /\ a.of = b.of /\ a.ids = b.ids
  BY <1>1, <1>3 DEF Stanza
<1>5. /\ history.accepted \subseteq history'.accepted /\ DOMAIN history' = DOMAIN history
      /\ wire' \subseteq wire \cup {a}
      /\ a \in wire' \ wire => a.ids \subseteq history'.accepted
  <2>1. CASE Accept(b)
    BY <1>3, <1>4, <2>1 DEF Accept, AckInv
  <2>2. CASE Lose(b)
    BY <2>2 DEF Lose
  <2> QED
    BY <2>1, <2>2
<1>6. \A c \in wire' : /\ c \in Stanza /\ uploads'[c.of].pc \in Left
                       /\ uploads'[c.of].pc = "bundle" => c.ids = BatchIds(c.of)'
                       /\ c.type = "ack" => c.ids \subseteq history'.accepted
  <2> SUFFICES ASSUME NEW c \in wire'
               PROVE  /\ c \in Stanza /\ uploads[c.of].pc \in Left
                      /\ uploads[c.of].pc = "bundle" => c.ids = BatchIds(c.of)
                      /\ c.type = "ack" => c.ids \subseteq history'.accepted
    BY <1>2, <1>4, <1>5 DEF AckInv, Stanza
  <2>1. CASE c \in wire
    BY <1>5, <2>1 DEF AckInv
  <2>2. CASE c \notin wire
    BY <1>1, <1>4, <1>5, <2>2
  <2> QED
    BY <2>1, <2>2
<1>7. \A u \in Logins : Upload(uploads'[u]) /\ (uploads'[u].pc \in Sending =>
                            Behind(uploads'[u], history'.accepted))
  BY <1>2, <1>5 DEF AckInv, Behind
<1>8. 1..(next' - 1) \subseteq history'.accepted /\ 1..(saved' - 1) \subseteq history'.accepted
  BY <1>2, <1>5 DEF AckInv
<1> QED
  BY <1>2, <1>5, <1>6, <1>7, <1>8 DEF AckInv

\* The end of the process: nothing waits any more, and nextPreKeyId is what
\* was saved.
LEMMA CrashStep ==
  ASSUME AckInv, Crash
  PROVE  AckInv'
<1>1. next' = saved /\ UNCHANGED << saved, wire >>
  BY DEF Crash
<1>2. uploads' = [u \in Logins |-> IF uploads[u].pc = "idle" THEN Idle ELSE [Idle EXCEPT !.pc = "ended"]]
  BY DEF Crash
<1>3. Upload(Idle) /\ Idle.pc = "idle"
  BY DEF Upload, Idle
<1>4. Upload([Idle EXCEPT !.pc = "ended"]) /\ [Idle EXCEPT !.pc = "ended"].pc = "ended"
  BY Ended
<1>5. \A u \in Logins : /\ Upload(uploads'[u]) /\ uploads'[u].pc \in {"idle", "ended"}
                        /\ uploads[u].pc # "idle" => uploads'[u].pc = "ended"
  BY <1>2, <1>3, <1>4
<1>6. history' = history \/ \E k : history' = Reuse(k)
  BY DEF Crash
<1>7. history'.accepted = history.accepted /\ DOMAIN history' = DOMAIN history
  BY <1>6, ReuseKeeps
<1>8. \A b \in wire : /\ uploads'[b.of].pc = "ended"
                      /\ b.type = "ack" => b.ids \subseteq history.accepted
  BY <1>5 DEF AckInv, Stanza, Left
<1> QED
  BY <1>1, <1>2, <1>5, <1>7, <1>8 DEF AckInv, Sending, Left

LEMMA AckNext == AckInv /\ [Next]_vars => AckInv'
<1> SUFFICES ASSUME AckInv, [Next]_vars PROVE AckInv'
  OBVIOUS
<1>1. ASSUME NEW u \in Logins, Start(u) \/ Step(u) PROVE AckInv'
  BY <1>1, UploadSteps, SendBundleStep, AcknowledgedStep DEF Step
<1>2. ASSUME NEW b \in wire, Accept(b) \/ Lose(b) PROVE AckInv'
  BY <1>2, ServerStep
<1>3. ASSUME NEW m \in Messages, Take(m) \/ LoadPreKey(m) \/ Decrypt(m) \/ RemovePreKey(m) PROVE AckInv'
  BY <1>3 DEF Take, LoadPreKey, Decrypt, RemovePreKey, AckInv, BatchIds
<1>4. CASE Crash
  BY <1>4, CrashStep
<1>5. CASE UNCHANGED vars
  BY <1>5 DEF vars, AckInv, BatchIds
<1> QED
  BY <1>1, <1>2, <1>3, <1>4, <1>5 DEF Next

\* nextPreKeyId, in memory and in the saved credentials, never gets past an id
\* that the server has not accepted, for any logins, batches, losses, late
\* answers and crashes (uploadPreKeysToServer()).
THEOREM OnlyAcknowledged == Spec => []AckedOnly
<1>1. AckInv => AckedOnly
  BY DEF AckInv, AckedOnly
<1> QED
  BY <1>1, AckInit, AckNext, PTL DEF Spec

\* What a slot of the disk or of the server may hold.
Slot(i) == {NoKey} \cup {<< i, u >> : u \in Logins}

Entry == [k : Ids, v : Keys]

Message ==
  [pc : {"none", "sent", "load", "read", "done", "unreadable"},
   key : Keys \cup {NoKey}, seen : Keys \cup {NoKey}, fill : Keys \cup {NoKey}]

\* The messages under a key that is not removed yet.
Taken == {m \in Messages : msgs[m].pc \in {"sent", "load", "read"}}

Bundles == {b \in wire : b.type = "bundle"}

\* What holds of any ids, reused or not.
Shapes ==
  /\ store \in {"file", "sqlite", "memory"}
  /\ disk = [i \in Ids |-> disk[i]] /\ server = [i \in Ids |-> server[i]]
  /\ \A i \in Ids : disk[i] \in Slot(i) /\ server[i] \in Slot(i)
  /\ cache \in Seq(Entry)
  /\ msgs \in [Messages -> Message] /\ \A m \in Taken : msgs[m].key \in Keys
  /\ history.accepted \subseteq history.sent /\ history.sent \subseteq Ids
  /\ \A b \in wire : b.ids \subseteq history.sent
  /\ \A u \in Logins :
       /\ uploads[u].pc = "stored" => BatchIds(u) \subseteq Ids
       /\ uploads[u].pc = "check" => uploads[u].fill \in Keys \cup {NoKey}
       /\ uploads[u].pc = "check" /\ uploads[u].fill # NoKey =>
            uploads[u].from \in history.accepted

\* Batches that are stored and not sent: on disk, new, and apart.
BatchesKept ==
  /\ \A u \in Logins : uploads[u].pc = "stored" =>
       /\ BatchIds(u) \cap history.sent = {}
       /\ \A i \in BatchIds(u) : disk[i] = << i, u >>
  /\ \A u, v \in Logins : uploads[u].pc = "stored" /\ uploads[v].pc = "stored" /\ u # v =>
       BatchIds(u) \cap BatchIds(v) = {}

\* Bundles under way: on disk, new to the server, and apart.
BundlesKept ==
  /\ \A b \in Bundles :
       /\ b.ids \cap history.accepted = {}
       /\ \A i \in b.ids : disk[i] = << i, b.of >>
  /\ \A b, c \in Bundles : b # c => b.ids \cap c.ids = {}

ServedKept ==
  \A i \in OnServer : i \in history.accepted /\ disk[i] = server[i]

\* Each message under way has a key of its own, that the server gave away and
\* that is on disk until the message is read.
MessagesKept ==
  /\ \A m \in Messages : msgs[m].pc # "unreadable"
  /\ \A m \in Taken :
       /\ msgs[m].key[1] \in history.accepted
       /\ server[msgs[m].key[1]] = NoKey
       /\ msgs[m].pc # "read" => disk[msgs[m].key[1]] = msgs[m].key
       /\ msgs[m].pc = "load" => msgs[m].seen = msgs[m].key /\ msgs[m].fill \in {NoKey, msgs[m].key}
  /\ \A m, o \in Taken : m # o => msgs[m].key[1] # msgs[o].key[1]

\* Of a key that has left or is about to, the cache has what the disk has, and
\* so has a get that is to fill it: unless the key is removed.
CacheKept ==
  /\ \A e \in Range(cache) :
       e.k \in Leaving /\ disk[e.k] # NoKey => e.v = disk[e.k]
  /\ \A u \in Logins : uploads[u].pc = "check" /\ uploads[u].fill # NoKey =>
       disk[uploads[u].from] \in {NoKey, uploads[u].fill}

Kept == BatchesKept /\ BundlesKept /\ ServedKept /\ MessagesKept /\ CacheKept

\* DecryptableUnlessReused is about what the server has and what peers used;
\* before that, a key is stored in a batch, and sent in a bundle.
KeptInv ==
  /\ AckInv /\ Shapes
  /\ history.reused \in BOOLEAN
  /\ ~history.reused => Kept

-----------------------------------------------------------------------------
\* Induction over the natural numbers, for a set: the induction theorems of
\* the library are about an operator.
LEMMA Induction ==
  ASSUME NEW S, 0 \in S, \A n \in Nat : n \in S => n + 1 \in S
  PROVE  \A n \in Nat : n \in S
<1> DEFINE R == {p \in Nat \X Nat : p[1] < p[2]}
           T == {n \in Nat : n \notin S}
<1> SUFFICES ASSUME T # {} PROVE FALSE
  OBVIOUS
<1>1. T \subseteq Nat
  OBVIOUS
<1>2. PICK m \in T : \A y \in T : ~(<< y, m >> \in R)
  <2>1. IsWellFoundedOn(R, Nat)
    BY NatLessThanWellFounded DEF OpToRel
  <2> HIDE DEF R, T
  <2> QED
    BY <1>1, <2>1, WFMin
<1>3. m # 0 /\ m \in Nat
  OBVIOUS
<1>4. m - 1 \notin T
  <2>1. << m - 1, m >> \in R
    BY <1>3
  <2> HIDE DEF R, T
  <2> QED
    BY <1>2, <2>1
<1> QED
  BY <1>3, <1>4

\* An entry that is set, and what is left of the others.
LEMMA CacheSetEntries ==
  ASSUME NEW c \in Seq(Entry), NEW e \in Entry
  PROVE  /\ CacheSet(c, e.k, e.v) \in Seq(Entry)
         /\ \A o \in Range(CacheSet(c, e.k, e.v)) : o = e \/ (o \in Range(c) /\ o.k # e.k)
<1> DEFINE d == Evict(c)
<1>1. d \in Seq(Entry) /\ Range(d) \subseteq Range(c)
  BY DEF Evict, Range
<1>2. e = [k |-> e.k, v |-> e.v] /\ e.k \in Ids /\ e.v \in Keys
  BY DEF Entry
<1> HIDE DEF d
<1>3. CASE Has(d, e.k)
  <2> DEFINE r == [i \in 1..Len(d) |-> IF d[i].k = e.k THEN [d[i] EXCEPT !.v = e.v] ELSE d[i]]
  <2>1. \A i \in 1..Len(d) : d[i] \in Entry /\ d[i] \in Range(d)
    BY <1>1 DEF Range
  <2>2. \A i \in 1..Len(d) : r[i] = IF d[i].k = e.k THEN e ELSE d[i]
    BY <1>2, <2>1 DEF Entry
  <2>3. r \in Seq(Entry) /\ DOMAIN r = 1..Len(d)
    BY <1>1, <2>1, <2>2
  <2>4. CacheSet(c, e.k, e.v) = r
    BY <1>3 DEF CacheSet, d
  <2> HIDE DEF r
  <2> QED
    BY <1>1, <2>1, <2>2, <2>3, <2>4 DEF Range
<1>4. CASE ~Has(d, e.k)
  <2> DEFINE r == Append(d, e)
  <2>1. CacheSet(c, e.k, e.v) = r
    BY <1>2, <1>4 DEF CacheSet, d
  <2>2. r \in Seq(Entry) /\ DOMAIN r = 1..(Len(d) + 1) /\ r[Len(d) + 1] = e
    BY <1>1
  <2>3. \A i \in 1..Len(d) : r[i] = d[i] /\ r[i] \in Range(d) /\ r[i].k # e.k
    BY <1>1, <1>4 DEF Has, Range
  <2>4. \A i \in DOMAIN r : i = Len(d) + 1 \/ i \in 1..Len(d)
    BY <1>1, <2>2
  <2> HIDE DEF r
  <2> QED
    BY <1>1, <2>1, <2>2, <2>3, <2>4 DEF Range
<1> QED
  BY <1>3, <1>4

\* The same for a batch, set one after the other.
LEMMA CacheSetAllEntries ==
  ASSUME NEW c \in Seq(Entry), NEW batch \in Seq(Entry)
  PROVE  /\ CacheSetAll(c, batch) \in Seq(Entry)
         /\ \A o \in Range(CacheSetAll(c, batch)) :
              \/ o \in Range(batch)
              \/ o \in Range(c) /\ \A b \in Range(batch) : o.k # b.k
<1> DEFINE Following(g, n) == IF n = 0 THEN c ELSE CacheSet(g[n - 1], batch[n].k, batch[n].v)
           After(g, m) == g = [n \in 0..m |-> Following(g, n)]
<1>1. \A m \in Nat : \E g : After(g, m)
  <2> DEFINE S == {m \in Nat : \E g : After(g, m)}
  <2>1. 0 \in S
    <3>1. After([n \in 0..0 |-> c], 0)
      OBVIOUS
    <3> QED
      BY <3>1
  <2>2. ASSUME NEW m \in Nat, m \in S PROVE m + 1 \in S
    <3>1. PICK g : After(g, m)
      BY <2>2
    <3> DEFINE h == [n \in 0..(m + 1) |-> IF n = m + 1 THEN Following(g, n) ELSE g[n]]
    <3>2. \A n \in 0..m : g[n] = Following(g, n) /\ h[n] = g[n]
      BY <3>1
    <3>3. \A n \in 0..(m + 1) : n # 0 => n - 1 \in 0..m
      OBVIOUS
    <3>4. \A n \in 0..(m + 1) : Following(h, n) = Following(g, n)
      BY <3>2, <3>3
    <3>5. \A n \in 0..(m + 1) : h[n] = Following(h, n)
      <4> SUFFICES ASSUME NEW n \in 0..(m + 1) PROVE h[n] = Following(h, n)
        OBVIOUS
      <4>1. Following(h, n) = Following(g, n)
        BY <3>4
      <4>2. CASE n = m + 1
        <5>1. h[n] = Following(g, n)
          BY <4>2
        <5> QED
          BY <4>1, <5>1
      <4>3. CASE n \in 0..m
        BY <3>2, <4>1, <4>3
      <4> QED
        BY <4>2, <4>3
    <3>6. After(h, m + 1)
      BY <3>5
    <3> HIDE DEF After
    <3> QED
      BY <3>6
  <2> HIDE DEF S
  <2>3. \A m \in Nat : m \in S
    BY <2>1, <2>2, Induction
  <2> QED
    BY <2>3 DEF S
<1> DEFINE len == Len(batch)
           after == CHOOSE g : After(g, len)
<1>2. After(after, len)
  <2>1. len \in Nat
    OBVIOUS
  <2> HIDE DEF After, len
  <2> QED
    BY <1>1, <2>1, Zenon
<1>3. CacheSetAll(c, batch) = after[len]
  BY Zenon DEF CacheSetAll
<1>4. \A n \in 0..len : after[n] = Following(after, n)
  BY <1>2
<1>5. len \in Nat /\ \A i \in 1..len : batch[i] \in Entry /\ batch[i] \in Range(batch)
  BY DEF Range
<1> DEFINE Holds(n) ==
             /\ after[n] \in Seq(Entry)
             /\ \A o \in Range(after[n]) :
                  \/ \E i \in 1..n : o = batch[i]
                  \/ o \in Range(c) /\ \A i \in 1..n : o.k # batch[i].k
<1>6. Holds(0)
  BY <1>4, <1>5
<1>7. ASSUME NEW n \in Nat, n + 1 <= len, Holds(n) PROVE Holds(n + 1)
  <2>1. after[n + 1] = CacheSet(after[n], batch[n + 1].k, batch[n + 1].v)
    <3>1. n + 1 \in 0..len /\ (n + 1) - 1 = n /\ n + 1 # 0
      BY <1>5, <1>7
    <3>2. after[n + 1] = Following(after, n + 1)
      BY <1>4, <3>1
    <3> HIDE DEF after
    <3> QED
      BY <3>1, <3>2
  <2>2. batch[n + 1] \in Entry /\ after[n] \in Seq(Entry)
    BY <1>5, <1>7
  <2>3. /\ after[n + 1] \in Seq(Entry)
        /\ \A o \in Range(after[n + 1]) : \/ o = batch[n + 1]
                                          \/ o \in Range(after[n]) /\ o.k # batch[n + 1].k
    BY <2>1, <2>2, CacheSetEntries
  <2>4. \A i \in 1..(n + 1) : i = n + 1 \/ i \in 1..n
    OBVIOUS
  <2>5. n + 1 \in 1..(n + 1) /\ 1..n \subseteq 1..(n + 1)
    OBVIOUS
  <2> HIDE DEF after
  <2> QED
    BY <1>7, <2>3, <2>4, <2>5
<1> DEFINE S == {n \in Nat : n <= len => Holds(n)}
<1>8. \A n \in Nat : n \in S
  <2> HIDE DEF Holds, len
  <2>1. 0 \in S
    BY <1>6
  <2>2. ASSUME NEW n \in Nat, n \in S PROVE n + 1 \in S
    <3>1. CASE n + 1 <= len
      BY <1>5, <1>7, <2>2, <3>1
    <3>2. CASE ~(n + 1 <= len)
      BY <3>2
    <3> QED
      BY <3>1, <3>2
  <2> HIDE DEF S
  <2> QED
    BY <2>1, <2>2, Induction
<1>9. Holds(len)
  <2> HIDE DEF Holds, len
  <2> QED
    BY <1>5, <1>8
<1>10. \A b \in Range(batch) : \E i \in 1..len : b = batch[i]
  BY DEF Range
<1> HIDE DEF after, len
<1> QED
  BY <1>3, <1>5, <1>9, <1>10

LEMMA WithoutEntries ==
  ASSUME NEW c \in Seq(Entry), NEW k
  PROVE  /\ Without(c, k) \in Seq(Entry)
         /\ Range(Without(c, k)) \subseteq Range(c)
<1>1. CASE ~Has(c, k)
  BY <1>1 DEF Without
<1>2. CASE Has(c, k)
  <2> DEFINE p == PlaceOf(c, k)
             s == SubSeq(c, 1, p - 1)
             r == SubSeq(c, p + 1, Len(c))
  <2>1. p \in 1..Len(c)
    <3>1. \E i \in 1..Len(c) : c[i].k = k
      BY <1>2 DEF Has
    <3> QED
      BY <3>1, Zenon DEF PlaceOf
  <2>2. Without(c, k) = s \o r
    BY <1>2 DEF Without, RemoveAt
  <2> HIDE DEF p
  <2>3. s \in Seq(Entry) /\ Len(s) = p - 1 /\ \A i \in 1..(p - 1) : s[i] = c[i]
    BY <2>1
  <2>4. r \in Seq(Entry) /\ Len(r) = Len(c) - p /\ \A i \in 1..(Len(c) - p) : r[i] = c[p + i]
    BY <2>1
  <2> HIDE DEF s, r
  <2>5. s \o r \in Seq(Entry) /\ Len(s \o r) = Len(s) + Len(r)
        /\ \A i \in 1..(Len(s) + Len(r)) : (s \o r)[i] = IF i <= Len(s) THEN s[i] ELSE r[i - Len(s)]
    <3>1. s \in Seq(Entry) /\ r \in Seq(Entry)
      BY <2>3, <2>4
    <3> QED
      BY ONLY <3>1, ConcatProperties
  <2>6. \A i \in 1..Len(s \o r) : \E j \in 1..Len(c) : (s \o r)[i] = c[j]
    <3> SUFFICES ASSUME NEW i \in 1..Len(s \o r)
                 PROVE  \E j \in 1..Len(c) : (s \o r)[i] = c[j]
      OBVIOUS
    <3>1. CASE i <= Len(s)
      <4>1. i \in 1..(p - 1) /\ i \in 1..Len(c)
        BY <2>1, <2>3, <2>4, <2>5, <3>1
      <4> QED
        BY <2>3, <2>4, <2>5, <3>1, <4>1
    <3>2. CASE ~(i <= Len(s))
      <4> DEFINE j == i - Len(s)
      <4>1. j \in 1..(Len(c) - p) /\ p + j \in 1..Len(c)
        BY <2>1, <2>3, <2>4, <2>5, <3>2
      <4>2. (s \o r)[i] = r[j]
        BY <2>3, <2>4, <2>5, <3>2
      <4> HIDE DEF j
      <4> QED
        BY <2>4, <4>1, <4>2
    <3> QED
      BY <3>1, <3>2
  <2> QED
    BY <2>2, <2>5, <2>6, SMTT(30) DEF Range
<1> QED
  BY <1>1, <1>2

LEMMA FillEntries ==
  ASSUME Shapes, NEW id, NEW key \in Keys \cup {NoKey}, key # NoKey => id \in Ids
  PROVE  /\ Fill(id, key) \in Seq(Entry)
         /\ \A e \in Range(Fill(id, key)) :
              e \in Range(cache) \/ (key # NoKey /\ e.k = id /\ e.v = key)
<1>1. CASE key = NoKey
  BY <1>1 DEF Fill, Shapes
<1>2. CASE key # NoKey
  <2> DEFINE e == [k |-> id, v |-> key]
  <2>1. e \in Entry /\ e.k = id /\ e.v = key
    BY <1>2 DEF Entry
  <2>2. Fill(id, key) = CacheSet(cache, e.k, e.v) /\ cache \in Seq(Entry)
    BY <1>2, <2>1 DEF Fill, Shapes
  <2> HIDE DEF e
  <2> QED
    BY <1>2, <2>1, <2>2, CacheSetEntries
<1> QED
  BY <1>1, <1>2

LEMMA NoKeyIsNone == NoKey \notin Keys
<1> SUFFICES ASSUME NEW i, NEW u, << i, u >> = << >> PROVE FALSE
  BY DEF NoKey, Keys
<1>1. Len(<< i, u >>) = 2 /\ Len(<< >>) = 0
  OBVIOUS
<1> QED
  BY <1>1

\* What a get answers.
LEMMA GotIsStored ==
  ASSUME Shapes, NEW id \in Ids
  PROVE  /\ Got(id) \in Keys \cup {NoKey} /\ Missed(id) \in {NoKey, disk[id]}
         /\ Missed(id) \in Keys \cup {NoKey}
         /\ CacheKept /\ id \in Leaving /\ disk[id] # NoKey => Got(id) = disk[id]
<1>1. disk[id] \in Keys \cup {NoKey}
  BY DEF Shapes, Slot, Keys
<1>2. CASE Has(cache, id)
  <2> DEFINE p == PlaceOf(cache, id)
  <2>1. p \in 1..Len(cache) /\ cache[p].k = id
    <3>1. \E i \in 1..Len(cache) : cache[i].k = id
      BY <1>2 DEF Has
    <3> QED
      BY <3>1, Zenon DEF PlaceOf
  <2>2. Got(id) = cache[p].v /\ Missed(id) = NoKey
    BY <1>2 DEF Got, Missed, ValueOf
  <2> HIDE DEF p
  <2>3. cache[p] \in Entry /\ cache[p] \in Range(cache)
    BY <2>1 DEF Shapes, Range
  <2> QED
    BY <2>1, <2>2, <2>3 DEF Entry, CacheKept
<1>3. CASE ~Has(cache, id)
  BY <1>1, <1>3 DEF Got, Missed, Stored
<1> QED
  BY <1>2, <1>3

-----------------------------------------------------------------------------
LEMMA LeavingIs ==
  ASSUME NEW i
  PROVE  /\ i \in Leaving <=> \/ i \in history.sent
                              \/ \E u \in Logins : uploads[u].pc = "stored" /\ i \in BatchIds(u)
         /\ i \in Leaving' <=> \/ i \in history'.sent
                               \/ \E u \in Logins : uploads'[u].pc = "stored" /\ i \in BatchIds(u)'
BY DEF Leaving

LEMMA ReuseSays ==
  ASSUME KeptInv, NEW n, history' = Reuse(n)
  PROVE  /\ history'.sent = history.sent /\ history'.accepted = history.accepted
         /\ history'.reused \in BOOLEAN
         /\ ~history'.reused => ~history.reused /\ (next..(next + n - 1)) \cap Leaving = {}
<1>1. DOMAIN history = {"sent", "accepted", "reused"} /\ history.reused \in BOOLEAN
  BY DEF KeptInv, AckInv
<1>2. history'.reused = (history.reused \/ (next..(next + n - 1)) \cap Leaving # {})
  BY <1>1 DEF Reuse
<1> QED
  BY <1>1, <1>2 DEF Reuse

\* What an upload does to the types.
LEMMA UploadShapes ==
  ASSUME KeptInv, NEW u \in Logins, NEW up,
         uploads' = [uploads EXCEPT ![u] = up],
         UNCHANGED << store, server, msgs >>, wire' \subseteq wire,
         history'.sent = history.sent, history'.accepted = history.accepted,
         disk' = [i \in Ids |-> disk'[i]], \A i \in Ids : disk'[i] \in Slot(i),
         cache' \in Seq(Entry),
         up.pc = "stored" => (up.from .. (up.from + up.count - 1)) \subseteq Ids,
         up.pc = "check" => /\ up.fill \in Keys \cup {NoKey}
                            /\ up.fill # NoKey => up.from \in history.accepted
  PROVE  Shapes'
<1>1. /\ uploads'[u] = up /\ \A v \in Logins \ {u} : uploads'[v] = uploads[v] /\ BatchIds(v)' = BatchIds(v)
      /\ BatchIds(u)' = up.from .. (up.from + up.count - 1)
  BY DEF KeptInv, AckInv, BatchIds
<1>2. \A v \in Logins :
       /\ uploads'[v].pc = "stored" => BatchIds(v)' \subseteq Ids
       /\ uploads'[v].pc = "check" => uploads'[v].fill \in Keys \cup {NoKey}
       /\ uploads'[v].pc = "check" /\ uploads'[v].fill # NoKey =>
            uploads'[v].from \in history'.accepted
  <2> TAKE v \in Logins
  <2>1. CASE v = u
    BY <1>1, <2>1
  <2>2. CASE v # u
    BY <1>1, <2>2 DEF KeptInv, Shapes
  <2> QED
    BY <2>1, <2>2
<1>3. Taken' = Taken
  BY DEF Taken
<1> QED
  BY <1>2, <1>3 DEF KeptInv, Shapes

\* An upload that is not, or no longer, about to send a batch, when the disk
\* keeps what has left or is about to.
LEMMA UploadKept ==
  ASSUME KeptInv, Kept, NEW u \in Logins, NEW up, up.pc # "stored",
         uploads' = [uploads EXCEPT ![u] = up],
         UNCHANGED << server, msgs >>, wire' \subseteq wire,
         history'.sent = history.sent, history'.accepted = history.accepted,
         \A i \in Leaving : disk'[i] = disk[i],
         \A e \in Range(cache') : e.k \in Leaving => e \in Range(cache) \/ disk[e.k] \in {NoKey, e.v},
         up.pc = "check" /\ up.fill # NoKey => /\ up.from \in history.accepted
                                               /\ disk[up.from] \in {NoKey, up.fill}
  PROVE  Kept'
<1>1. /\ uploads'[u] = up
      /\ \A v \in Logins \ {u} : uploads'[v] = uploads[v] /\ BatchIds(v)' = BatchIds(v)
  BY DEF KeptInv, AckInv, BatchIds
<1>2. /\ \A i \in Leaving' : i \in Leaving
      /\ \A i \in history.sent : i \in Leaving
      /\ \A v \in Logins : uploads[v].pc = "stored" => \A i \in BatchIds(v) : i \in Leaving
  BY <1>1, LeavingIs
<1>3. /\ history.accepted \subseteq history.sent /\ OnServer' = OnServer /\ Taken' = Taken
      /\ \A b \in wire : b.ids \subseteq history.sent
  BY DEF KeptInv, Shapes, OnServer, Taken
<1>4. BatchesKept'
  <2>1. \A v \in Logins : uploads'[v].pc = "stored" =>
          v # u /\ uploads[v].pc = "stored" /\ BatchIds(v)' = BatchIds(v)
    BY <1>1
  <2> QED
    BY <1>2, <2>1 DEF Kept, BatchesKept
<1>5. BundlesKept'
  <2>1. Bundles' \subseteq Bundles /\ \A b \in Bundles : b.ids \subseteq history.sent
    BY <1>3 DEF Bundles
  <2> QED
    BY <1>2, <2>1 DEF Kept, BundlesKept
<1>6. ServedKept'
  BY <1>2, <1>3 DEF Kept, ServedKept
<1>7. MessagesKept'
  BY <1>2, <1>3 DEF Kept, MessagesKept
<1>8. CacheKept'
  <2>1. \A e \in Range(cache') : e.k \in Leaving' /\ disk'[e.k] # NoKey => e.v = disk'[e.k]
    BY <1>2 DEF Kept, CacheKept
  <2>2. \A v \in Logins : uploads'[v].pc = "check" /\ uploads'[v].fill # NoKey =>
          disk'[uploads'[v].from] \in {NoKey, uploads'[v].fill}
    <3> TAKE v \in Logins
    <3>1. CASE v = u
      BY <1>1, <1>2, <1>3, <3>1
    <3>2. CASE v # u
      <4>1. uploads[v].pc = "check" /\ uploads[v].fill # NoKey =>
              /\ uploads[v].from \in history.accepted
              /\ disk[uploads[v].from] \in {NoKey, uploads[v].fill}
        BY DEF KeptInv, Shapes, Kept, CacheKept
      <4> QED
        BY <1>1, <1>2, <1>3, <3>2, <4>1
    <3> QED
      BY <3>1, <3>2
  <2> QED
    BY <2>1, <2>2 DEF CacheKept
<1> QED
  BY <1>4, <1>5, <1>6, <1>7, <1>8 DEF Kept

\* What the store is given by an upload, and what a failing one has of it.
LEMMA WrittenDisk ==
  ASSUME KeptInv, NEW u \in Logins, NEW k \in Nat
  PROVE  LET d == Written(u, next, k)
         IN  /\ d = [i \in Ids |-> d[i]] /\ \A i \in Ids : d[i] \in Slot(i)
             /\ \A i \in Ids : d[i] = IF i \in next..(next + k - 1) THEN << i, u >> ELSE disk[i]
BY DEF KeptInv, Shapes, Written, Slot

LEMMA LeftOfBatch ==
  ASSUME KeptInv, NEW n \in Nat, NEW k \in LeftOf(n)
  PROVE  k \in 0..n
BY DEF KeptInv, Shapes, LeftOf, FileByFile, InTransaction, InMemory

\* The get of the current key fills the cache with what the disk has, unless
\* the key was removed meanwhile.
LEMMA CheckFills ==
  ASSUME KeptInv, NEW u \in Logins, uploads[u].pc = "check"
  PROVE  LET c == Fill(uploads[u].from, uploads[u].fill)
         IN  /\ c \in Seq(Entry)
             /\ Kept => \A e \in Range(c) :
                          e.k \in Leaving => e \in Range(cache) \/ disk[e.k] \in {NoKey, e.v}
<1> DEFINE from == uploads[u].from
           fill == uploads[u].fill
<1>1. /\ fill \in Keys \cup {NoKey} /\ Shapes
      /\ fill # NoKey => from \in history.accepted /\ from \in Ids
  BY DEF KeptInv, Shapes
<1>2. Kept /\ fill # NoKey => disk[from] \in {NoKey, fill}
  BY DEF Kept, CacheKept
<1> HIDE DEF from, fill
<1>3. /\ Fill(from, fill) \in Seq(Entry)
      /\ \A e \in Range(Fill(from, fill)) :
           e \in Range(cache) \/ (fill # NoKey /\ e.k = from /\ e.v = fill)
  BY <1>1, FillEntries
<1>4. Kept => \A e \in Range(Fill(from, fill)) : e \in Range(cache) \/ disk[e.k] \in {NoKey, e.v}
  BY <1>2, <1>3
<1> QED
  BY <1>3, <1>4 DEF from, fill

\* The batch is set in the cache, over what is there.
LEMMA BatchCached ==
  ASSUME KeptInv, NEW u \in Logins, uploads[u].pc = "check",
         NEW n \in Nat, next + n - 1 <= MaxId
  PROVE  LET c == CacheSetAll(Fill(uploads[u].from, uploads[u].fill), Batch(u, next, n))
             ids == next..(next + n - 1)
         IN  /\ c \in Seq(Entry) /\ ids \subseteq Ids
             /\ \A e \in Range(c) : e.k \in ids => e.v = << e.k, u >>
             /\ Kept => \A e \in Range(c) : e.k \in Leaving \ ids =>
                          e \in Range(cache) \/ disk[e.k] \in {NoKey, e.v}
<1> DEFINE f == Fill(uploads[u].from, uploads[u].fill)
           batch == Batch(u, next, n)
           ids == next..(next + n - 1)
<1>1. next \in Nat \ {0} /\ MaxId \in Nat /\ ids \subseteq Ids
  BY PreKeysAssumption DEF KeptInv, AckInv, Ids
<1>2. /\ DOMAIN batch = 1..n /\ batch \in Seq(Entry)
      /\ \A j \in 1..n : batch[j].k = next + j - 1 /\ batch[j].v = << next + j - 1, u >>
                         /\ next + j - 1 \in ids
  BY <1>1 DEF Batch, Entry, Keys, Ids
<1>3. \A i \in ids : i - next + 1 \in 1..n /\ next + (i - next + 1) - 1 = i
  BY <1>1
<1>4. /\ f \in Seq(Entry)
      /\ Kept => \A e \in Range(f) :
                   e.k \in Leaving => e \in Range(cache) \/ disk[e.k] \in {NoKey, e.v}
  BY CheckFills
<1> HIDE DEF f, batch
<1>5. /\ CacheSetAll(f, batch) \in Seq(Entry)
      /\ \A e \in Range(CacheSetAll(f, batch)) :
           \/ e \in Range(batch)
           \/ e \in Range(f) /\ \A b \in Range(batch) : e.k # b.k
  BY <1>2, <1>4, CacheSetAllEntries
<1>6. /\ \A b \in Range(batch) : b.k \in ids /\ b.v = << b.k, u >>
      /\ \A i \in ids : \E b \in Range(batch) : b.k = i
  <2> HIDE DEF ids
  <2>1. \A b \in Range(batch) : \E j \in 1..n : b = batch[j]
    BY <1>2 DEF Range
  <2>2. \A j \in 1..n : batch[j] \in Range(batch)
    BY <1>2 DEF Range
  <2>3. ASSUME NEW i \in ids PROVE \E b \in Range(batch) : b.k = i
    <3>1. batch[i - next + 1].k = i /\ batch[i - next + 1] \in Range(batch)
      BY <1>2, <1>3, <2>2
    <3> QED
      BY <3>1
  <2> QED
    BY <1>2, <2>1, <2>3
<1> HIDE DEF ids
<1> QED
  BY <1>1, <1>4, <1>5, <1>6 DEF f, batch, ids

LEMMA KeptInit == Init => KeptInv
<1> SUFFICES ASSUME Init PROVE KeptInv
  OBVIOUS
<1>1. AckInv
  BY AckInit
<1>2. /\ cache = << >> /\ wire = {} /\ OnServer = {} /\ Taken = {}
      /\ history.sent = {} /\ history.accepted = {} /\ history.reused = FALSE
      /\ \A u \in Logins : uploads[u].pc = "idle"
      /\ \A m \in Messages : msgs[m].pc = "none"
  BY DEF Init, OnServer, Taken, Idle, NoMsg
<1>3. NoMsg \in Message
  BY DEF NoMsg, Message
<1>4. Shapes
  BY <1>2, <1>3 DEF Init, Shapes, Slot
<1>5. Range(cache) = {} /\ Bundles = {}
  BY <1>2 DEF Range, Bundles
<1>6. Kept
  BY <1>2, <1>5 DEF Kept, BatchesKept, BundlesKept, ServedKept, MessagesKept, CacheKept
<1> QED
  BY <1>1, <1>2, <1>4, <1>6 DEF KeptInv

\* The steps of an upload that neither store keys nor send them.
LEMMA WaitingSteps ==
  ASSUME KeptInv, NEW u \in Logins, Start(u) \/ Rejected(u) \/ SaveCreds(u) \/ Acknowledged(u)
  PROVE  Shapes' /\ (Kept => Kept')
<1>1. CASE Start(u) \/ Rejected(u) \/ SaveCreds(u) \/ uploads[u].pc = "bundle"
  <2>1. PICK up : /\ uploads' = [uploads EXCEPT ![u] = up]
                  /\ up.pc \in {"count", "ended", "save"}
    <3>1. CASE Start(u)
      <4>1. uploads' = [uploads EXCEPT ![u] = [uploads[u] EXCEPT !.pc = "count"]]
        BY <3>1 DEF Start
      <4>2. [uploads[u] EXCEPT !.pc = "count"].pc = "count"
        BY DEF KeptInv, AckInv, Upload
      <4> QED
        BY <4>1, <4>2
    <3>2. CASE Rejected(u) \/ SaveCreds(u)
      BY <3>2, Ended DEF Rejected, SaveCreds
    <3>3. CASE Acknowledged(u) /\ uploads[u].pc = "bundle"
      <4>1. [Idle EXCEPT !.pc = "save"].pc = "save"
        BY DEF Idle
      <4> QED
        BY <3>3, <4>1 DEF Acknowledged
    <3> QED
      BY <1>1, <3>1, <3>2, <3>3 DEF Start, Rejected, SaveCreds, Acknowledged
  <2>2. UNCHANGED << store, disk, cache, server, msgs, history >> /\ wire' \subseteq wire
    BY DEF Start, Rejected, SaveCreds, Acknowledged
  <2>3. /\ disk = [i \in Ids |-> disk[i]] /\ \A i \in Ids : disk[i] \in Slot(i)
        /\ cache \in Seq(Entry)
    BY DEF KeptInv, Shapes
  <2>4. Shapes'
    BY <2>1, <2>2, <2>3, UploadShapes
  <2>5. Kept => Kept'
    BY <2>1, <2>2, UploadKept
  <2> QED
    BY <2>4, <2>5
<1>2. CASE Acknowledged(u) /\ uploads[u].pc # "bundle"
  <2>1. UNCHANGED << store, disk, cache, server, msgs, history, uploads >> /\ wire' \subseteq wire
    BY <1>2 DEF Acknowledged
  <2>2. /\ Taken' = Taken /\ Bundles' \subseteq Bundles /\ OnServer' = OnServer /\ Leaving' = Leaving
        /\ \A v \in Logins : BatchIds(v)' = BatchIds(v)
    BY <2>1 DEF Taken, Bundles, OnServer, Leaving, BatchIds
  <2>3. Shapes'
    BY <2>1, <2>2 DEF KeptInv, Shapes
  <2>4. Kept => Kept'
    BY <2>1, <2>2 DEF Kept, BatchesKept, BundlesKept, ServedKept, MessagesKept, CacheKept
  <2> QED
    BY <2>3, <2>4
<1> QED
  BY <1>1, <1>2

\* The get of the current key reads what is on disk.
LEMMA CountedStep ==
  ASSUME KeptInv, NEW u \in Logins, Counted(u)
  PROVE  Shapes' /\ (Kept => Kept')
<1> DEFINE fill == IF next - 1 = 0 THEN NoKey ELSE Missed(next - 1)
<1>1. PICK c : uploads' = [uploads EXCEPT ![u] =
                 [Idle EXCEPT !.pc = "check", !.from = next - 1, !.fill = fill, !.count = c]]
  BY Zenon DEF Counted
<1>2. UNCHANGED << store, disk, cache, wire, server, msgs, history >>
  BY DEF Counted
<1>3. /\ next - 1 # 0 => next - 1 \in history.accepted /\ next - 1 \in Ids
      /\ history.accepted \subseteq Ids
  <2>1. next - 1 # 0 => next - 1 \in 1..(next - 1)
    BY DEF KeptInv, AckInv
  <2> QED
    BY <2>1 DEF KeptInv, AckInv, Shapes
<1>4. /\ fill \in Keys \cup {NoKey}
      /\ fill # NoKey => next - 1 \in history.accepted /\ fill = disk[next - 1]
  BY <1>3, GotIsStored DEF KeptInv
<1> HIDE DEF fill
<1> DEFINE up == [Idle EXCEPT !.pc = "check", !.from = next - 1, !.fill = fill, !.count = c]
<1>5. up.pc = "check" /\ up.from = next - 1 /\ up.fill = fill
  BY DEF Idle
<1>6. uploads' = [uploads EXCEPT ![u] = up]
  BY <1>1
<1> HIDE DEF up
<1>7. /\ disk = [i \in Ids |-> disk[i]] /\ \A i \in Ids : disk[i] \in Slot(i)
      /\ cache \in Seq(Entry)
  BY DEF KeptInv, Shapes
<1>8. Shapes'
  BY <1>2, <1>4, <1>5, <1>6, <1>7, UploadShapes
<1>9. Kept => Kept'
  BY <1>2, <1>4, <1>5, <1>6, UploadKept
<1> QED
  BY <1>8, <1>9

\* Enough keys, or a store that fails: what left is still on disk, unless the
\* ids are reused.
LEMMA EndingSteps ==
  ASSUME KeptInv, NEW u \in Logins, Enough(u) \/ StoreFails(u)
  PROVE  /\ Shapes' /\ history'.reused \in BOOLEAN
         /\ ~history'.reused => ~history.reused /\ (Kept => Kept')
<1> DEFINE up == [Idle EXCEPT !.pc = "ended"]
           n == uploads[u].count
           ids == next..(next + n - 1)
<1>1. up.pc = "ended"
  BY Ended
<1>2. /\ uploads' = [uploads EXCEPT ![u] = up] /\ UNCHANGED << store, wire, server, msgs >>
      /\ uploads[u].pc = "check"
  BY DEF Enough, StoreFails
<1>3. n \in Nat /\ history.reused \in BOOLEAN
  BY DEF KeptInv, AckInv, Upload
<1>4. /\ disk = [i \in Ids |-> disk[i]] /\ \A i \in Ids : disk[i] \in Slot(i)
      /\ cache \in Seq(Entry)
  BY DEF KeptInv, Shapes
<1> HIDE DEF up
<1>5. CASE Enough(u)
  <2>1. /\ UNCHANGED << disk, history >> /\ cache' = Fill(uploads[u].from, uploads[u].fill)
    BY <1>5 DEF Enough
  <2>2. /\ cache' \in Seq(Entry)
        /\ Kept => \A e \in Range(cache') :
                     e.k \in Leaving => e \in Range(cache) \/ disk[e.k] \in {NoKey, e.v}
    BY <1>2, <2>1, CheckFills
  <2>3. Shapes'
    BY <1>1, <1>2, <1>4, <2>1, <2>2, UploadShapes
  <2>4. Kept => Kept'
    BY <1>1, <1>2, <2>1, <2>2, UploadKept
  <2> QED
    BY <1>3, <2>1, <2>3, <2>4
<1>6. CASE StoreFails(u)
  <2>1. PICK k \in LeftOf(n) \ {n} : disk' = Written(u, next, k)
    BY <1>6 DEF StoreFails
  <2>2. /\ cache' = CacheSetAll(Fill(uploads[u].from, uploads[u].fill), Batch(u, next, n))
        /\ history' = Reuse(n) /\ next + n - 1 <= MaxId
    BY <1>6 DEF StoreFails
  <2>3. k \in 0..n /\ k \in Nat
    BY <1>3, <2>1, LeftOfBatch
  <2>4. /\ disk' = [i \in Ids |-> disk'[i]] /\ \A i \in Ids : disk'[i] \in Slot(i)
        /\ \A i \in Ids : disk'[i] = IF i \in next..(next + k - 1) THEN << i, u >> ELSE disk[i]
    BY <2>1, <2>3, WrittenDisk
  <2>5. /\ cache' \in Seq(Entry) /\ ids \subseteq Ids
        /\ Kept => \A e \in Range(cache') : e.k \in Leaving \ ids =>
                     e \in Range(cache) \/ disk[e.k] \in {NoKey, e.v}
    BY <1>2, <1>3, <2>2, BatchCached
  <2>6. /\ history'.sent = history.sent /\ history'.accepted = history.accepted
        /\ history'.reused \in BOOLEAN
        /\ ~history'.reused => ~history.reused /\ ids \cap Leaving = {}
    BY <1>3, <2>2, ReuseSays
  <2>7. Shapes'
    BY <1>1, <1>2, <2>4, <2>5, <2>6, UploadShapes
  <2>8. ASSUME ~history'.reused, Kept PROVE Kept'
    <3>1. next..(next + k - 1) \subseteq ids
      BY <1>3, <2>3 DEF KeptInv, AckInv
    <3>2. ids \cap Leaving = {}
      BY <2>6, <2>8
    <3>3. Leaving \subseteq Ids
      BY LeavingIs DEF KeptInv, Shapes
    <3> HIDE DEF ids
    <3>4. \A i \in Leaving : disk'[i] = disk[i]
      BY <2>4, <3>1, <3>2, <3>3
    <3>5. \A e \in Range(cache') : e.k \in Leaving => e \in Range(cache) \/ disk[e.k] \in {NoKey, e.v}
      BY <2>5, <2>8, <3>2
    <3> QED
      BY <1>1, <1>2, <2>6, <2>8, <3>4, <3>5, UploadKept
  <2> QED
    BY <2>6, <2>7, <2>8
<1> QED
  BY <1>5, <1>6

\* A new batch is apart from what has left or is about to, unless ids are
\* reused.
LEMMA GenerateStep ==
  ASSUME KeptInv, NEW u \in Logins, Generate(u)
  PROVE  /\ Shapes' /\ history'.reused \in BOOLEAN
         /\ ~history'.reused => ~history.reused /\ (Kept => Kept')
<1> DEFINE n == uploads[u].count
           ids == next..(next + n - 1)
           up == [Idle EXCEPT !.pc = "stored", !.from = next, !.count = n]
<1>1. up.pc = "stored" /\ up.from = next /\ up.count = n
  BY DEF Idle
<1>2. /\ uploads' = [uploads EXCEPT ![u] = up] /\ UNCHANGED << store, wire, server, msgs >>
      /\ uploads[u].pc = "check" /\ disk' = Written(u, next, n) /\ history' = Reuse(n)
      /\ cache' = CacheSetAll(Fill(uploads[u].from, uploads[u].fill), Batch(u, next, n))
      /\ next + n - 1 <= MaxId
  BY DEF Generate
<1>3. n \in Nat
  BY DEF KeptInv, AckInv, Upload
<1>4. /\ disk' = [i \in Ids |-> disk'[i]] /\ \A i \in Ids : disk'[i] \in Slot(i)
      /\ \A i \in Ids : disk'[i] = IF i \in ids THEN << i, u >> ELSE disk[i]
  BY <1>2, <1>3, WrittenDisk
<1>5. /\ cache' \in Seq(Entry) /\ ids \subseteq Ids
      /\ \A e \in Range(cache') : e.k \in ids => e.v = << e.k, u >>
      /\ Kept => \A e \in Range(cache') : e.k \in Leaving \ ids =>
                   e \in Range(cache) \/ disk[e.k] \in {NoKey, e.v}
  BY <1>2, <1>3, BatchCached
<1>6. /\ history'.sent = history.sent /\ history'.accepted = history.accepted
      /\ history'.reused \in BOOLEAN
      /\ ~history'.reused => ~history.reused /\ ids \cap Leaving = {}
  BY <1>3, <1>2, ReuseSays
<1> HIDE DEF up
<1>7. /\ uploads'[u] = up /\ BatchIds(u)' = ids
      /\ \A v \in Logins \ {u} : uploads'[v] = uploads[v] /\ BatchIds(v)' = BatchIds(v)
  BY <1>1, <1>2 DEF KeptInv, AckInv, BatchIds
<1> HIDE DEF ids
<1>8. Shapes'
  <2>1. up.from .. (up.from + up.count - 1) = ids
    BY <1>1 DEF ids
  <2> HIDE DEF n
  <2> QED
    BY <1>1, <1>2, <1>4, <1>5, <1>6, <2>1, UploadShapes
<1> HIDE DEF n
<1>9. ASSUME ~history'.reused, Kept PROVE Kept'
  <2>1. ids \cap Leaving = {}
    BY <1>6, <1>9
  <2>2. /\ \A i \in Leaving' : i \in Leaving \/ i \in ids
        /\ \A i \in history.sent : i \in Leaving
        /\ \A v \in Logins : uploads[v].pc = "stored" => \A i \in BatchIds(v) : i \in Leaving
    <3>1. \A i \in Leaving' : i \in history.sent
            \/ \E v \in Logins : uploads'[v].pc = "stored" /\ i \in BatchIds(v)'
      BY <1>6, LeavingIs
    <3>2. ASSUME NEW v \in Logins, uploads'[v].pc = "stored", NEW i \in BatchIds(v)'
          PROVE  i \in Leaving \/ i \in ids
      <4>1. CASE v = u
        BY <1>7, <3>2, <4>1
      <4>2. CASE v # u
        BY <1>7, <3>2, <4>2, LeavingIs
      <4> QED
        BY <4>1, <4>2
    <3> QED
      BY <3>1, <3>2, LeavingIs
  <2>3. Leaving \subseteq Ids
    BY LeavingIs DEF KeptInv, Shapes
  <2>4. \A i \in Leaving : disk'[i] = disk[i]
    BY <1>4, <2>1, <2>3
  <2>5. /\ history.accepted \subseteq history.sent /\ OnServer' = OnServer /\ Taken' = Taken
        /\ Bundles' = Bundles /\ \A b \in Bundles : b.ids \subseteq history.sent
    BY <1>2 DEF KeptInv, Shapes, OnServer, Taken, Bundles
  <2>6. BatchesKept'
    <3>1. ASSUME NEW v \in Logins, uploads'[v].pc = "stored"
          PROVE  /\ BatchIds(v)' \cap history'.sent = {}
                 /\ \A i \in BatchIds(v)' : disk'[i] = << i, v >>
      <4>1. CASE v = u
        BY <1>4, <1>5, <1>6, <1>7, <2>1, <2>2, <4>1
      <4>2. CASE v # u
        BY <1>6, <1>7, <1>9, <2>2, <2>4, <3>1, <4>2 DEF Kept, BatchesKept
      <4> QED
        BY <4>1, <4>2
    <3>2. ASSUME NEW v \in Logins, NEW w \in Logins, v # w,
                 uploads'[v].pc = "stored", uploads'[w].pc = "stored"
          PROVE  BatchIds(v)' \cap BatchIds(w)' = {}
      <4>1. \A x \in Logins \ {u} : uploads'[x].pc = "stored" =>
              BatchIds(x)' = BatchIds(x) /\ uploads[x].pc = "stored" /\ BatchIds(x) \cap ids = {}
        BY <1>7, <2>1, <2>2
      <4>2. CASE v = u
        BY <1>7, <3>2, <4>1, <4>2
      <4>3. CASE w = u
        BY <1>7, <3>2, <4>1, <4>3
      <4>4. CASE v # u /\ w # u
        BY <1>9, <3>2, <4>1, <4>4 DEF Kept, BatchesKept
      <4> QED
        BY <4>2, <4>3, <4>4
    <3> QED
      BY <3>1, <3>2 DEF BatchesKept
  <2>7. BundlesKept'
    BY <1>6, <1>9, <2>2, <2>4, <2>5 DEF Kept, BundlesKept
  <2>8. ServedKept'
    BY <1>2, <1>6, <1>9, <2>2, <2>4, <2>5 DEF Kept, ServedKept
  <2>9. MessagesKept'
    BY <1>2, <1>6, <1>9, <2>2, <2>4, <2>5 DEF Kept, MessagesKept
  <2>10. CacheKept'
    <3>1. ASSUME NEW e \in Range(cache'), e.k \in Leaving', disk'[e.k] # NoKey
          PROVE  e.v = disk'[e.k]
      <4>1. CASE e.k \in ids
        BY <1>4, <1>5, <4>1
      <4>2. CASE e.k \notin ids
        <5>1. e.k \in Leaving /\ disk'[e.k] = disk[e.k]
          BY <2>2, <2>4, <3>1, <4>2
        <5>2. e \in Range(cache) \/ disk[e.k] \in {NoKey, e.v}
          BY <1>5, <1>9, <4>2, <5>1
        <5> QED
          BY <1>9, <3>1, <5>1, <5>2 DEF Kept, CacheKept
      <4> QED
        BY <4>1, <4>2
    <3>2. ASSUME NEW v \in Logins, uploads'[v].pc = "check", uploads'[v].fill # NoKey
          PROVE  disk'[uploads'[v].from] \in {NoKey, uploads'[v].fill}
      <4>1. v # u /\ uploads'[v] = uploads[v]
        BY <1>1, <1>7, <3>2
      <4>2. uploads[v].from \in Leaving
        BY <2>2, <2>5, <3>2, <4>1 DEF KeptInv, Shapes
      <4> QED
        BY <1>9, <2>4, <3>2, <4>1, <4>2 DEF Kept, CacheKept
    <3> QED
      BY <3>1, <3>2 DEF CacheKept
  <2> QED
    BY <2>6, <2>7, <2>8, <2>9, <2>10 DEF Kept
<1> QED
  BY <1>6, <1>8, <1>9

\* A stored batch leaves in its bundle.
LEMMA SendBundleKeeps ==
  ASSUME KeptInv, NEW u \in Logins, SendBundle(u)
  PROVE  Shapes' /\ history'.reused = history.reused /\ (Kept => Kept')
<1>1. /\ uploads[u].pc = "stored" /\ UNCHANGED << store, disk, cache, server, msgs >>
  BY DEF SendBundle
<1>2. CASE /\ uploads' = [uploads EXCEPT ![u] = [Idle EXCEPT !.pc = "ended"]]
           /\ UNCHANGED << wire, history >>
  <2>1. PICK up : up.pc = "ended" /\ uploads' = [uploads EXCEPT ![u] = up]
    BY <1>2, Ended
  <2>2. /\ disk = [i \in Ids |-> disk[i]] /\ \A i \in Ids : disk[i] \in Slot(i)
        /\ cache \in Seq(Entry)
    BY DEF KeptInv, Shapes
  <2>3. Shapes'
    BY <1>1, <1>2, <2>1, <2>2, UploadShapes
  <2>4. Kept => Kept'
    BY <1>1, <1>2, <2>1, UploadKept
  <2> QED
    BY <1>2, <2>3, <2>4
<1>3. CASE /\ wire' = wire \cup {[type |-> "bundle", of |-> u, ids |-> BatchIds(u)]}
           /\ history' = [history EXCEPT !.sent = history.sent \cup BatchIds(u)]
           /\ uploads' = [uploads EXCEPT ![u] = [uploads[u] EXCEPT !.pc = "bundle"]]
  <2>b. PICK b : b = [type |-> "bundle", of |-> u, ids |-> BatchIds(u)]
    OBVIOUS
  <2>1. wire' = wire \cup {b} /\ b.type = "bundle" /\ b.of = u /\ b.ids = BatchIds(u)
    BY <1>3, <2>b
  <2>2. /\ history'.sent = history.sent \cup BatchIds(u)
        /\ history'.accepted = history.accepted /\ history'.reused = history.reused
    BY <1>3 DEF KeptInv, AckInv
  <2>3. /\ uploads'[u].pc = "bundle"
        /\ \A v \in Logins \ {u} : uploads'[v] = uploads[v] /\ BatchIds(v)' = BatchIds(v)
    BY <1>3 DEF KeptInv, AckInv, Upload, BatchIds
  <2>4. /\ Taken' = Taken /\ OnServer' = OnServer /\ Bundles' = Bundles \cup {b}
    BY <1>1, <2>1 DEF Taken, OnServer, Bundles
  <2>5. /\ BatchIds(u) \subseteq Ids
        /\ history.accepted \subseteq history.sent /\ \A c \in wire : c.ids \subseteq history.sent
    BY <1>1 DEF KeptInv, Shapes
  <2>6. Shapes'
    BY <1>1, <2>1, <2>2, <2>3, <2>4, <2>5 DEF KeptInv, Shapes
  <2>7. \A i \in Leaving' : i \in Leaving
    BY <1>1, <2>2, <2>3, LeavingIs
  <2>8. ASSUME Kept PROVE Kept'
    <3>1. BatchIds(u) \cap history.sent = {} /\ \A i \in BatchIds(u) : disk[i] = << i, u >>
      BY <1>1, <2>8 DEF Kept, BatchesKept
    <3>2. BatchesKept'
      <4>1. \A v \in Logins : uploads'[v].pc = "stored" =>
              /\ v # u /\ uploads[v].pc = "stored" /\ BatchIds(v)' = BatchIds(v)
              /\ BatchIds(v) \cap BatchIds(u) = {}
        BY <1>1, <2>3, <2>8 DEF Kept, BatchesKept
      <4> QED
        BY <1>1, <2>2, <2>8, <4>1 DEF Kept, BatchesKept
    <3>3. BundlesKept'
      <4>1. \A c \in Bundles : c.ids \cap b.ids = {}
        BY <2>1, <2>5, <3>1 DEF Bundles
      <4> QED
        BY <1>1, <2>1, <2>2, <2>4, <2>5, <2>8, <3>1, <4>1 DEF Kept, BundlesKept
    <3>4. ServedKept'
      BY <1>1, <2>2, <2>4, <2>8 DEF Kept, ServedKept
    <3>5. MessagesKept'
      BY <1>1, <2>2, <2>4, <2>8 DEF Kept, MessagesKept
    <3>6. CacheKept'
      <4>1. \A v \in Logins : uploads'[v].pc = "check" => uploads'[v] = uploads[v]
        BY <2>3
      <4> QED
        BY <1>1, <2>7, <2>8, <4>1 DEF Kept, CacheKept
    <3> QED
      BY <3>2, <3>3, <3>4, <3>5, <3>6 DEF Kept
  <2> QED
    BY <2>2, <2>6, <2>8
<1> QED
  BY <1>2, <1>3 DEF SendBundle

\* The server's side.
LEMMA ServerKeeps ==
  ASSUME KeptInv, NEW b \in wire, Accept(b) \/ Lose(b)
  PROVE  Shapes' /\ history'.reused = history.reused /\ (Kept => Kept')
<1>1. UNCHANGED << store, disk, cache, uploads, msgs >>
  BY DEF Accept, Lose
<1>2. /\ Taken' = Taken /\ \A v \in Logins : BatchIds(v)' = BatchIds(v)
  BY <1>1 DEF Taken, BatchIds
<1>3. CASE Lose(b)
  <2>1. UNCHANGED << server, history >> /\ wire' \subseteq wire
    BY <1>3 DEF Lose
  <2>2. Bundles' \subseteq Bundles /\ OnServer' = OnServer /\ Leaving' = Leaving
    BY <1>1, <2>1 DEF Bundles, OnServer, Leaving, BatchIds
  <2>3. Shapes'
    BY <1>1, <1>2, <2>1 DEF KeptInv, Shapes
  <2>4. Kept => Kept'
    BY <1>1, <1>2, <2>1, <2>2
    DEF Kept, BatchesKept, BundlesKept, ServedKept, MessagesKept, CacheKept
  <2> QED
    BY <2>1, <2>3, <2>4
<1>4. CASE Accept(b)
  <2>1. PICK a : a = [b EXCEPT !.type = "ack"] /\ wire' = (wire \ {b}) \cup {a}
    BY <1>4 DEF Accept
  <2>2. b \in Bundles /\ b.of \in Logins /\ b.ids \subseteq history.sent /\ history.sent \subseteq Ids
    BY <1>4 DEF Accept, Bundles, KeptInv, AckInv, Stanza, Shapes
  <2>3. a.type = "ack" /\ a.ids = b.ids
    BY <2>1 DEF KeptInv, AckInv, Stanza
  <2>4. /\ history'.accepted = history.accepted \cup b.ids /\ history'.sent = history.sent
        /\ history'.reused = history.reused
    BY <1>4 DEF Accept, KeptInv, AckInv
  <2>5. /\ server' = [i \in Ids |-> server'[i]]
        /\ \A i \in Ids : server'[i] = IF i \in b.ids THEN << i, b.of >> ELSE server[i]
    BY <1>4 DEF Accept
  <2>6. Bundles' = Bundles \ {b}
    BY <1>4, <2>1, <2>3 DEF Bundles
  <2>7. \A i \in Ids : server'[i] \in Slot(i)
    BY <2>2, <2>5 DEF KeptInv, Shapes, Slot
  <2>8. \A c \in wire' : c.ids \subseteq history'.sent
    BY <2>1, <2>2, <2>3, <2>4 DEF KeptInv, Shapes
  <2>9. Shapes'
    BY <1>1, <1>2, <2>2, <2>4, <2>5, <2>7, <2>8 DEF KeptInv, Shapes
  <2>10. Leaving' = Leaving
    BY <1>1, <2>4 DEF Leaving, BatchIds
  <2>11. ASSUME Kept PROVE Kept'
    <3>1. b.ids \cap history.accepted = {} /\ \A i \in b.ids : disk[i] = << i, b.of >>
      BY <2>2, <2>11 DEF Kept, BundlesKept
    <3>2. BatchesKept'
      BY <1>1, <1>2, <2>4, <2>11 DEF Kept, BatchesKept
    <3>3. BundlesKept'
      BY <1>1, <2>2, <2>4, <2>6, <2>11 DEF Kept, BundlesKept
    <3>4. ServedKept'
      <4> SUFFICES ASSUME NEW i \in OnServer'
                   PROVE  i \in history'.accepted /\ disk[i] = server'[i]
        BY <1>1 DEF ServedKept
      <4>1. i \in Ids /\ server'[i] # NoKey
        BY DEF OnServer
      <4>2. CASE i \in b.ids
        BY <2>4, <2>5, <3>1, <4>1, <4>2
      <4>3. CASE i \notin b.ids
        <5>1. i \in OnServer /\ server'[i] = server[i]
          BY <2>5, <4>1, <4>3 DEF OnServer
        <5> QED
          BY <2>4, <2>11, <5>1 DEF Kept, ServedKept
      <4> QED
        BY <4>2, <4>3
    <3>5. MessagesKept'
      <4>1. \A m \in Taken : msgs[m].key[1] \in history.accepted /\ msgs[m].key[1] \in Ids
        BY <2>11 DEF Kept, MessagesKept, KeptInv, Shapes, Keys
      <4>2. \A m \in Taken : server'[msgs[m].key[1]] = server[msgs[m].key[1]]
                             /\ msgs[m].key[1] \in history'.accepted
        BY <2>4, <2>5, <3>1, <4>1
      <4> QED
        BY <1>1, <1>2, <2>11, <4>2 DEF Kept, MessagesKept
    <3>6. CacheKept'
      BY <1>1, <2>10, <2>11 DEF Kept, CacheKept
    <3> QED
      BY <3>2, <3>3, <3>4, <3>5, <3>6 DEF Kept
  <2> QED
    BY <2>4, <2>9, <2>11
<1> QED
  BY <1>3, <1>4

\* A peer takes a key: no other message is under it, since the server had it.
LEMMA TakeStep ==
  ASSUME KeptInv, NEW m \in Messages, Take(m)
  PROVE  Shapes' /\ (Kept => Kept')
<1>1. UNCHANGED << store, disk, cache, uploads, wire, history >> /\ msgs[m].pc = "none"
  BY DEF Take
<1>2. PICK i \in OnServer :
        /\ msgs' = [msgs EXCEPT ![m] = [NoMsg EXCEPT !.pc = "sent", !.key = server[i]]]
        /\ server' = [server EXCEPT ![i] = NoKey]
  BY DEF Take
<1> DEFINE msg == [NoMsg EXCEPT !.pc = "sent", !.key = server[i]]
<1>3. i \in Ids /\ server[i] # NoKey /\ server[i] \in Keys /\ server[i][1] = i
  BY DEF OnServer, KeptInv, Shapes, Slot, Keys
<1>4. msg \in Message /\ msg.pc = "sent" /\ msg.key = server[i]
  BY <1>3 DEF NoMsg, Message
<1>5. /\ msgs'[m] = msg /\ \A o \in Messages \ {m} : msgs'[o] = msgs[o]
      /\ msgs' \in [Messages -> Message]
  BY <1>2, <1>4 DEF KeptInv, Shapes
<1> HIDE DEF msg
<1>6. /\ server' = [j \in Ids |-> server'[j]] /\ server'[i] = NoKey
      /\ \A j \in Ids \ {i} : server'[j] = server[j]
  BY <1>2, <1>3 DEF KeptInv, Shapes
<1>7. /\ Taken' = Taken \cup {m} /\ m \notin Taken /\ OnServer' = OnServer \ {i}
      /\ Leaving' = Leaving /\ \A v \in Logins : BatchIds(v)' = BatchIds(v)
      /\ Bundles' = Bundles
  <2>1. Taken' = Taken \cup {m} /\ m \notin Taken
    BY <1>1, <1>4, <1>5 DEF Taken
  <2>2. OnServer' = OnServer \ {i}
    BY <1>3, <1>6 DEF OnServer
  <2>3. /\ Leaving' = Leaving /\ \A v \in Logins : BatchIds(v)' = BatchIds(v)
        /\ Bundles' = Bundles
    BY <1>1 DEF Leaving, BatchIds, Bundles
  <2> QED
    BY <2>1, <2>2, <2>3
<1>8. \A o \in Taken : msgs'[o] = msgs[o] /\ o # m
  BY <1>5, <1>7 DEF Taken
<1>9. Shapes'
  <2>1. \A o \in Taken' : msgs'[o].key \in Keys
    BY <1>3, <1>4, <1>5, <1>7, <1>8 DEF KeptInv, Shapes
  <2>2. \A j \in Ids : server'[j] \in Slot(j)
    BY <1>6 DEF KeptInv, Shapes, Slot
  <2> QED
    BY <1>1, <1>5, <1>6, <1>7, <2>1, <2>2 DEF KeptInv, Shapes
<1>10. ASSUME Kept PROVE Kept'
  <2>1. i \in history.accepted /\ disk[i] = server[i]
    BY <1>10 DEF Kept, ServedKept
  <2>2. BatchesKept' /\ BundlesKept' /\ CacheKept'
    BY <1>1, <1>7, <1>10 DEF Kept, BatchesKept, BundlesKept, CacheKept
  <2>3. ServedKept'
    BY <1>1, <1>6, <1>7, <1>10 DEF Kept, ServedKept, OnServer
  <2>4. \A o \in Taken : msgs[o].key[1] \in Ids /\ msgs[o].key[1] # i
    BY <1>3, <1>10 DEF Kept, MessagesKept, KeptInv, Shapes, Keys
  <2>5. MessagesKept'
    <3>1. \A o \in Messages : msgs'[o].pc # "unreadable"
      BY <1>4, <1>5, <1>10 DEF Kept, MessagesKept
    <3>2. /\ msgs'[m].key[1] \in history'.accepted
          /\ server'[msgs'[m].key[1]] = NoKey
          /\ disk'[msgs'[m].key[1]] = msgs'[m].key
          /\ msgs'[m].pc = "sent"
      BY <1>1, <1>3, <1>4, <1>5, <1>6, <2>1
    <3>3. ASSUME NEW o \in Taken
          PROVE  /\ msgs'[o].key[1] \in history'.accepted
                 /\ server'[msgs'[o].key[1]] = NoKey
                 /\ msgs'[o].pc # "read" => disk'[msgs'[o].key[1]] = msgs'[o].key
                 /\ msgs'[o].pc = "load" =>
                      msgs'[o].seen = msgs'[o].key /\ msgs'[o].fill \in {NoKey, msgs'[o].key}
      BY <1>1, <1>6, <1>8, <1>10, <2>4 DEF Kept, MessagesKept
    <3>4. \A o, q \in Taken : o # q => msgs'[o].key[1] # msgs'[q].key[1]
      BY <1>8, <1>10 DEF Kept, MessagesKept
    <3>5. \A o \in Taken : msgs'[o].key[1] # msgs'[m].key[1]
      BY <1>3, <1>4, <1>5, <1>8, <2>4
    <3> QED
      BY <1>7, <3>1, <3>2, <3>3, <3>4, <3>5 DEF MessagesKept
  <2> QED
    BY <2>2, <2>3, <2>5 DEF Kept
<1> QED
  BY <1>9, <1>10

\* A message that stays under the key it has.
LEMMA MessageStays ==
  ASSUME KeptInv, NEW m \in Taken, NEW msg \in Message,
         msgs' = [msgs EXCEPT ![m] = msg], msg.key = msgs[m].key,
         msg.pc \in {"load", "read"},
         UNCHANGED << store, disk, uploads, wire, server, history >>,
         cache' \in Seq(Entry)
  PROVE  /\ Shapes'
         /\ Kept /\ (msg.pc = "load" => msgs[m].pc = "sent" /\ msg.seen = msg.key /\ msg.fill \in {NoKey, msg.key})
              /\ (\A e \in Range(cache') : e \in Range(cache) \/ disk[e.k] \in {NoKey, e.v})
              => Kept'
<1>1. /\ m \in Messages /\ msgs'[m] = msg /\ \A o \in Messages \ {m} : msgs'[o] = msgs[o]
      /\ msgs' \in [Messages -> Message]
  BY DEF KeptInv, Shapes, Taken
<1>2. /\ Taken' = Taken /\ OnServer' = OnServer /\ Leaving' = Leaving /\ Bundles' = Bundles
      /\ \A v \in Logins : BatchIds(v)' = BatchIds(v)
  <2>1. Taken' = Taken
    BY <1>1 DEF Taken
  <2> QED
    BY <2>1 DEF OnServer, Leaving, BatchIds, Bundles
<1>3. \A o \in Taken : msgs'[o].key = msgs[o].key /\ o \in Messages
  BY <1>1 DEF Taken
<1>4. Shapes'
  BY <1>1, <1>2, <1>3 DEF KeptInv, Shapes
<1>5. ASSUME Kept, msg.pc = "load" => msgs[m].pc = "sent" /\ msg.seen = msg.key /\ msg.fill \in {NoKey, msg.key},
             \A e \in Range(cache') : e \in Range(cache) \/ disk[e.k] \in {NoKey, e.v}
      PROVE  Kept'
  <2>1. BatchesKept' /\ BundlesKept' /\ ServedKept'
    BY <1>2, <1>5 DEF Kept, BatchesKept, BundlesKept, ServedKept
  <2>2. CacheKept'
    BY <1>2, <1>5 DEF Kept, CacheKept
  <2>3. MessagesKept'
    <3>1. \A o \in Messages : msgs'[o].pc # "unreadable"
      BY <1>1, <1>5 DEF Kept, MessagesKept
    <3>2. ASSUME NEW o \in Taken
          PROVE  /\ msgs'[o].key[1] \in history'.accepted
                 /\ server'[msgs'[o].key[1]] = NoKey
                 /\ msgs'[o].pc # "read" => disk'[msgs'[o].key[1]] = msgs'[o].key
                 /\ msgs'[o].pc = "load" =>
                      msgs'[o].seen = msgs'[o].key /\ msgs'[o].fill \in {NoKey, msgs'[o].key}
      <4>1. CASE o = m
        BY <1>1, <1>3, <1>5, <4>1 DEF Kept, MessagesKept
      <4>2. CASE o # m
        BY <1>1, <1>3, <1>5, <4>2 DEF Kept, MessagesKept
      <4> QED
        BY <4>1, <4>2
    <3>3. \A o, q \in Taken : o # q => msgs'[o].key[1] # msgs'[q].key[1]
      BY <1>3, <1>5 DEF Kept, MessagesKept
    <3> QED
      BY <1>2, <3>1, <3>2, <3>3 DEF MessagesKept
  <2> QED
    BY <2>1, <2>2, <2>3 DEF Kept
<1> QED
  BY <1>4, <1>5

LEMMA LoadStep ==
  ASSUME KeptInv, NEW m \in Messages, LoadPreKey(m)
  PROVE  Shapes' /\ (Kept => Kept')
<1> DEFINE id == msgs[m].key[1]
           msg == [msgs[m] EXCEPT !.pc = "load", !.seen = Got(id), !.fill = Missed(id)]
<1>1. m \in Taken /\ msgs[m].pc = "sent" /\ msgs[m] \in Message /\ msgs[m].key \in Keys
  <2>1. m \in Taken
    BY DEF LoadPreKey, Taken
  <2> QED
    BY <2>1 DEF LoadPreKey, KeptInv, Shapes
<1>2. id \in Ids
  BY <1>1 DEF Keys
<1>3. /\ Got(id) \in Keys \cup {NoKey} /\ Missed(id) \in {NoKey, disk[id]}
      /\ Missed(id) \in Keys \cup {NoKey}
      /\ CacheKept /\ id \in Leaving /\ disk[id] # NoKey => Got(id) = disk[id]
  BY <1>2, GotIsStored DEF KeptInv
<1> HIDE DEF id
<1>4. msg \in Message /\ msg.pc = "load" /\ msg.key = msgs[m].key /\ msg.seen = Got(id) /\ msg.fill = Missed(id)
  BY <1>1, <1>3 DEF Message
<1>5. msgs' = [msgs EXCEPT ![m] = msg]
  BY DEF LoadPreKey, id
<1>6. UNCHANGED << store, disk, cache, uploads, wire, server, history >> /\ cache \in Seq(Entry)
  BY DEF LoadPreKey, KeptInv, Shapes
<1> HIDE DEF msg
<1>7. ASSUME Kept PROVE msg.seen = msg.key /\ msg.fill \in {NoKey, msg.key}
  <2>1. disk[id] = msgs[m].key /\ id \in history.accepted
    BY <1>1, <1>7 DEF Kept, MessagesKept, id
  <2>2. id \in Leaving
    BY <2>1, LeavingIs DEF KeptInv, Shapes
  <2>3. disk[id] # NoKey
    BY <1>1, <2>1, NoKeyIsNone
  <2> QED
    BY <1>3, <1>4, <1>7, <2>1, <2>2, <2>3 DEF Kept
<1> QED
  BY <1>1, <1>4, <1>5, <1>6, <1>7, MessageStays

\* The key that is read is the one the message is under.
LEMMA DecryptStep ==
  ASSUME KeptInv, NEW m \in Messages, Decrypt(m)
  PROVE  Shapes' /\ (Kept => Kept')
<1> DEFINE id == msgs[m].key[1]
           fill == msgs[m].fill
<1>1. m \in Taken /\ msgs[m].pc = "load" /\ msgs[m] \in Message /\ msgs[m].key \in Keys
  <2>1. m \in Taken
    BY DEF Decrypt, Taken
  <2> QED
    BY <2>1 DEF Decrypt, KeptInv, Shapes
<1>2. id \in Ids /\ fill \in Keys \cup {NoKey}
  BY <1>1 DEF Keys, Message
<1>3. /\ cache' = Fill(id, fill)
      /\ UNCHANGED << store, disk, uploads, wire, server, history >>
  BY DEF Decrypt
<1>4. Kept => fill \in {NoKey, disk[id]}
  BY <1>1 DEF Kept, MessagesKept
<1> HIDE DEF id, fill
<1>5. /\ cache' \in Seq(Entry)
      /\ \A e \in Range(cache') :
           e \in Range(cache) \/ (fill # NoKey /\ e.k = id /\ e.v = fill)
  BY <1>2, <1>3, FillEntries DEF KeptInv
<1>6. Kept => \A e \in Range(cache') : e \in Range(cache) \/ disk[e.k] \in {NoKey, e.v}
  BY <1>4, <1>5
<1>7. CASE msgs[m].seen = msgs[m].key
  <2> DEFINE msg == [msgs[m] EXCEPT !.pc = "read", !.seen = NoKey, !.fill = NoKey]
  <2>1. msg \in Message /\ msg.pc = "read" /\ msg.key = msgs[m].key
    BY <1>1 DEF Message
  <2>2. msgs' = [msgs EXCEPT ![m] = msg]
    BY <1>7 DEF Decrypt
  <2> HIDE DEF msg
  <2> QED
    BY <1>1, <1>3, <1>5, <1>6, <2>1, <2>2, MessageStays
<1>8. CASE msgs[m].seen # msgs[m].key
  <2> DEFINE msg == [NoMsg EXCEPT !.pc = "unreadable"]
  <2>1. msg \in Message /\ msg.pc = "unreadable"
    BY DEF Message, NoMsg
  <2>2. msgs' = [msgs EXCEPT ![m] = msg]
    BY <1>8 DEF Decrypt
  <2> HIDE DEF msg
  <2>3. msgs' \in [Messages -> Message] /\ Taken' \subseteq Taken
        /\ \A o \in Messages \ {m} : msgs'[o] = msgs[o]
    BY <2>1, <2>2 DEF KeptInv, Shapes, Taken
  <2>4. m \notin Taken'
    BY <2>1, <2>2 DEF KeptInv, Shapes, Taken
  <2>5. \A v \in Logins : BatchIds(v)' = BatchIds(v)
    BY <1>3 DEF BatchIds
  <2>6. \A o \in Taken' : msgs'[o].key \in Keys
    BY <2>3, <2>4 DEF KeptInv, Shapes, Taken
  <2>7. Shapes'
    BY <1>3, <1>5, <2>3, <2>5, <2>6 DEF KeptInv, Shapes
  <2>8. ~Kept
    BY <1>1, <1>8 DEF Kept, MessagesKept
  <2> QED
    BY <2>7, <2>8
<1> QED
  BY <1>7, <1>8

\* A key is removed when its message is read: nothing else is under it.
LEMMA RemoveStep ==
  ASSUME KeptInv, NEW m \in Messages, RemovePreKey(m)
  PROVE  Shapes' /\ (Kept => Kept')
<1> DEFINE id == msgs[m].key[1]
           msg == [NoMsg EXCEPT !.pc = "done"]
<1>1. m \in Taken /\ msgs[m].pc = "read" /\ msgs[m].key \in Keys
  <2>1. m \in Taken
    BY DEF RemovePreKey, Taken
  <2> QED
    BY <2>1 DEF RemovePreKey, KeptInv, Shapes
<1>2. id \in Ids
  BY <1>1 DEF Keys
<1>3. /\ cache' = Without(cache, id) /\ disk' = [disk EXCEPT ![id] = NoKey]
      /\ msgs' = [msgs EXCEPT ![m] = msg]
      /\ UNCHANGED << store, uploads, wire, server, history >>
  BY DEF RemovePreKey
<1>4. cache' \in Seq(Entry) /\ Range(cache') \subseteq Range(cache)
  BY <1>3, WithoutEntries DEF KeptInv, Shapes
<1>5. msg \in Message /\ msg.pc = "done"
  BY DEF Message, NoMsg
<1>6. Kept => /\ id \in history.accepted /\ server[id] = NoKey
              /\ \A o \in Taken \ {m} : msgs[o].key[1] # id
  BY <1>1 DEF Kept, MessagesKept
<1> HIDE DEF id, msg
<1>7. /\ disk' = [i \in Ids |-> disk'[i]] /\ disk'[id] = NoKey
      /\ \A i \in Ids \ {id} : disk'[i] = disk[i]
      /\ \A i \in Ids : disk'[i] \in Slot(i)
  BY <1>2, <1>3 DEF KeptInv, Shapes, Slot
<1>8. /\ msgs' \in [Messages -> Message] /\ msgs'[m] = msg
      /\ \A o \in Messages \ {m} : msgs'[o] = msgs[o]
  BY <1>3, <1>5 DEF KeptInv, Shapes
<1>9. Taken' = Taken \ {m}
  BY <1>5, <1>8 DEF Taken
<1>10. /\ OnServer' = OnServer /\ Leaving' = Leaving /\ Bundles' = Bundles
       /\ \A v \in Logins : BatchIds(v)' = BatchIds(v)
  BY <1>3 DEF OnServer, Leaving, BatchIds, Bundles
<1>11. \A o \in Taken' : o \in Taken /\ o # m /\ msgs'[o] = msgs[o]
  BY <1>8, <1>9 DEF Taken
<1>12. Shapes'
  <2>1. \A o \in Taken' : msgs'[o].key \in Keys
    BY <1>11 DEF KeptInv, Shapes
  <2> QED
    BY <1>3, <1>4, <1>7, <1>8, <1>10, <2>1 DEF KeptInv, Shapes
<1>13. ASSUME Kept PROVE Kept'
  <2>1. /\ history.accepted \subseteq history.sent /\ history.sent \subseteq Ids
        /\ \A b \in Bundles : b.ids \subseteq Ids
        /\ \A v \in Logins : uploads[v].pc = "stored" => BatchIds(v) \subseteq Ids
        /\ \A o \in Taken : msgs[o].key[1] \in Ids
        /\ \A v \in Logins : uploads[v].pc = "check" /\ uploads[v].fill # NoKey => uploads[v].from \in Ids
        /\ \A e \in Range(cache) : e.k \in Ids
    <3>1. \A e \in Range(cache) : e.k \in Ids
      <4>1. \A i \in DOMAIN cache : cache[i] \in Entry
        BY DEF KeptInv, Shapes
      <4>2. \A e \in Range(cache) : e \in Entry
        BY <4>1 DEF Range
      <4> QED
        BY <4>2 DEF Entry
    <3>2. \A o \in Taken : msgs[o].key[1] \in Ids
      BY DEF KeptInv, Shapes, Keys
    <3> QED
      BY <3>1, <3>2 DEF KeptInv, Shapes, Bundles
  <2>2. BatchesKept'
    <3>1. \A v \in Logins : uploads[v].pc = "stored" => id \notin BatchIds(v)
      BY <1>6, <1>13, <2>1 DEF Kept, BatchesKept
    <3> QED
      BY <1>3, <1>7, <1>10, <1>13, <2>1, <3>1 DEF Kept, BatchesKept
  <2>3. BundlesKept'
    <3>1. \A b \in Bundles : id \notin b.ids
      BY <1>6, <1>13 DEF Kept, BundlesKept
    <3> QED
      BY <1>3, <1>7, <1>10, <1>13, <2>1, <3>1 DEF Kept, BundlesKept
  <2>4. ServedKept'
    BY <1>3, <1>6, <1>7, <1>10, <1>13 DEF Kept, ServedKept, OnServer
  <2>5. MessagesKept'
    <3>1. \A o \in Messages : msgs'[o].pc # "unreadable"
      BY <1>5, <1>8, <1>13 DEF Kept, MessagesKept
    <3>2. ASSUME NEW o \in Taken'
          PROVE  /\ msgs'[o].key[1] \in history'.accepted
                 /\ server'[msgs'[o].key[1]] = NoKey
                 /\ msgs'[o].pc # "read" => disk'[msgs'[o].key[1]] = msgs'[o].key
                 /\ msgs'[o].pc = "load" =>
                      msgs'[o].seen = msgs'[o].key /\ msgs'[o].fill \in {NoKey, msgs'[o].key}
      BY <1>3, <1>6, <1>7, <1>11, <1>13, <2>1 DEF Kept, MessagesKept
    <3>3. \A o, q \in Taken' : o # q => msgs'[o].key[1] # msgs'[q].key[1]
      BY <1>11, <1>13 DEF Kept, MessagesKept
    <3> QED
      BY <3>1, <3>2, <3>3 DEF MessagesKept
  <2>6. CacheKept'
    BY <1>3, <1>4, <1>7, <1>10, <1>13, <2>1 DEF Kept, CacheKept
  <2> QED
    BY <2>2, <2>3, <2>4, <2>5, <2>6 DEF Kept
<1> QED
  BY <1>12, <1>13

\* The process ends: the cache is gone, no batch is about to leave any more,
\* and part of a new one may be on disk.
LEMMA CrashKeeps ==
  ASSUME KeptInv, Crash
  PROVE  /\ Shapes' /\ history'.reused \in BOOLEAN
         /\ ~history'.reused => ~history.reused /\ (Kept => Kept')
<1>1. /\ cache' = << >> /\ UNCHANGED << store, wire, server >>
      /\ uploads' = [u \in Logins |->
           IF uploads[u].pc = "idle" THEN Idle ELSE [Idle EXCEPT !.pc = "ended"]]
      /\ msgs' = [m \in Messages |->
           CASE msgs[m].pc = "load" -> [NoMsg EXCEPT !.pc = "sent", !.key = msgs[m].key]
             [] msgs[m].pc = "read" -> [NoMsg EXCEPT !.pc = "done"]
             [] OTHER -> msgs[m]]
  BY DEF Crash
<1>2. \A u \in Logins : uploads'[u].pc \in {"idle", "ended"}
  BY <1>1, Ended DEF Idle
<1> DEFINE DiskLeft ==
             /\ history'.sent = history.sent /\ history'.accepted = history.accepted
             /\ history'.reused \in BOOLEAN
             /\ disk' = [i \in Ids |-> disk'[i]] /\ \A i \in Ids : disk'[i] \in Slot(i)
             /\ ~history'.reused => ~history.reused /\ \A i \in Leaving : disk'[i] = disk[i]
<1>3. DiskLeft
  <2>1. CASE UNCHANGED << store, disk, history >>
    <3>1. history'.reused \in BOOLEAN
      BY <2>1 DEF KeptInv
    <3>2. disk' = [i \in Ids |-> disk'[i]] /\ \A i \in Ids : disk'[i] \in Slot(i)
      BY <2>1 DEF KeptInv, Shapes
    <3> QED
      BY <2>1, <3>1, <3>2
  <2>2. ASSUME NEW u \in Logins, NEW k \in LeftOf(uploads[u].count) \ {0},
               disk' = Written(u, next, k), history' = Reuse(k)
        PROVE  DiskLeft
    <3>1. k \in Nat
      BY <2>2, LeftOfBatch DEF KeptInv, AckInv, Upload
    <3>2. /\ disk' = [i \in Ids |-> disk'[i]] /\ \A i \in Ids : disk'[i] \in Slot(i)
          /\ \A i \in Ids : disk'[i] = IF i \in next..(next + k - 1) THEN << i, u >> ELSE disk[i]
      BY <2>2, <3>1, WrittenDisk
    <3>3. /\ history'.sent = history.sent /\ history'.accepted = history.accepted
          /\ history'.reused \in BOOLEAN
          /\ ~history'.reused => ~history.reused /\ (next..(next + k - 1)) \cap Leaving = {}
      BY <2>2, ReuseSays
    <3>4. Leaving \subseteq Ids
      BY LeavingIs DEF KeptInv, Shapes
    <3> QED
      BY <3>2, <3>3, <3>4
  <2> QED
    BY <2>1, <2>2 DEF Crash
<1>4. /\ \A m \in Messages : msgs'[m] \in Message
      /\ msgs' \in [Messages -> Message]
      /\ \A m \in Taken' : m \in Taken /\ msgs'[m].key = msgs[m].key /\ msgs'[m].pc = "sent"
                           /\ msgs[m].pc # "read" /\ msgs'[m].key \in Keys
      /\ \A m \in Messages : msgs'[m].pc = "unreadable" => msgs[m].pc = "unreadable"
  <2>1. ASSUME NEW m \in Messages
        PROVE  /\ msgs'[m] \in Message
               /\ m \in Taken' => /\ m \in Taken /\ msgs'[m].key = msgs[m].key /\ msgs'[m].pc = "sent"
                                  /\ msgs[m].pc # "read" /\ msgs'[m].key \in Keys
               /\ msgs'[m].pc = "unreadable" => msgs[m].pc = "unreadable"
    <3>1. msgs[m] \in Message /\ (m \in Taken => msgs[m].key \in Keys)
      BY DEF KeptInv, Shapes
    <3>2. CASE msgs[m].pc = "load"
      <4>1. msgs'[m] = [NoMsg EXCEPT !.pc = "sent", !.key = msgs[m].key]
        BY <1>1, <3>2
      <4>2. m \in Taken
        BY <3>2 DEF Taken
      <4> QED
        BY <3>1, <3>2, <4>1, <4>2 DEF NoMsg, Message
    <3>3. CASE msgs[m].pc = "read"
      <4>1. msgs'[m] = [NoMsg EXCEPT !.pc = "done"]
        BY <1>1, <3>3
      <4> QED
        BY <4>1 DEF NoMsg, Message, Taken
    <3>4. CASE msgs[m].pc \notin {"load", "read"}
      <4>1. msgs'[m] = msgs[m]
        BY <1>1, <3>4
      <4> QED
        BY <3>1, <3>4, <4>1 DEF Taken
    <3> QED
      BY <3>2, <3>3, <3>4
  <2>2. Taken' \subseteq Messages
    BY DEF Taken
  <2>3. msgs' \in [Messages -> Message]
    BY <1>1, <2>1
  <2> QED
    BY <2>1, <2>2, <2>3
<1>5. /\ OnServer' = OnServer /\ Bundles' = Bundles /\ Range(cache') = {} /\ cache' \in Seq(Entry)
  <2>1. OnServer' = OnServer /\ Bundles' = Bundles
    BY <1>1 DEF OnServer, Bundles
  <2>2. Range(<< >>) = {} /\ << >> \in Seq(Entry)
    BY DEF Range
  <2> QED
    BY <1>1, <2>1, <2>2
<1>6. Shapes'
  BY <1>1, <1>2, <1>3, <1>4, <1>5 DEF KeptInv, Shapes
<1>7. ASSUME Kept, ~history'.reused PROVE Kept'
  <2>1. /\ history.accepted \subseteq history.sent /\ \A b \in Bundles : b.ids \subseteq history.sent
        /\ \A i \in history.sent : disk'[i] = disk[i]
    BY <1>3, <1>7, LeavingIs DEF KeptInv, Shapes, Bundles
  <2>2. BatchesKept'
    BY <1>2 DEF BatchesKept
  <2>3. BundlesKept'
    BY <1>3, <1>5, <1>7, <2>1 DEF Kept, BundlesKept
  <2>4. ServedKept'
    BY <1>1, <1>3, <1>5, <1>7, <2>1 DEF Kept, ServedKept
  <2>5. MessagesKept'
    <3>1. \A m \in Messages : msgs'[m].pc # "unreadable"
      BY <1>4, <1>7 DEF Kept, MessagesKept
    <3>2. \A m \in Taken :
            /\ msgs[m].key[1] \in history.accepted
            /\ server[msgs[m].key[1]] = NoKey
            /\ msgs[m].pc # "read" => disk[msgs[m].key[1]] = msgs[m].key
      BY <1>7 DEF Kept, MessagesKept
    <3>3. \A m \in Taken' :
            /\ msgs'[m].key[1] \in history'.accepted
            /\ server'[msgs'[m].key[1]] = NoKey
            /\ disk'[msgs'[m].key[1]] = msgs'[m].key
      <4> TAKE m \in Taken'
      <4>1. m \in Taken /\ msgs'[m].key = msgs[m].key /\ msgs[m].pc # "read"
        BY <1>4
      <4>2. /\ msgs[m].key[1] \in history.accepted /\ server[msgs[m].key[1]] = NoKey
            /\ disk[msgs[m].key[1]] = msgs[m].key
        BY <3>2, <4>1
      <4> QED
        BY <1>1, <1>3, <2>1, <4>1, <4>2, ZenonT(30)
    <3>4. \A m, o \in Taken' : m # o => msgs'[m].key[1] # msgs'[o].key[1]
      BY <1>4, <1>7 DEF Kept, MessagesKept
    <3>5. \A m \in Taken' : msgs'[m].pc = "sent"
      BY <1>4
    <3> QED
      BY <3>1, <3>3, <3>4, <3>5 DEF MessagesKept
  <2>6. CacheKept'
    BY <1>2, <1>5 DEF CacheKept
  <2> QED
    BY <2>2, <2>3, <2>4, <2>5, <2>6 DEF Kept
<1> QED
  BY <1>3, <1>6, <1>7

LEMMA KeptNext == KeptInv /\ [Next]_vars => KeptInv'
<1> SUFFICES ASSUME KeptInv, [Next]_vars PROVE KeptInv'
  OBVIOUS
<1>1. AckInv'
  BY AckNext DEF KeptInv
<1> DEFINE Stays == /\ Shapes' /\ history'.reused \in BOOLEAN
                    /\ ~history'.reused => ~history.reused /\ (Kept => Kept')
<1>2. Stays
  <2>0. history.reused \in BOOLEAN
    BY DEF KeptInv
  <2>1. ASSUME NEW u \in Logins, Start(u) \/ Step(u) PROVE Stays
    <3>1. CASE Start(u) \/ Rejected(u) \/ SaveCreds(u) \/ Acknowledged(u)
      <4>1. history' = history
        BY <3>1 DEF Start, Rejected, SaveCreds, Acknowledged
      <4> QED
        BY <2>0, <3>1, <4>1, WaitingSteps
    <3>2. CASE Counted(u)
      <4>1. history' = history
        BY <3>2 DEF Counted
      <4> QED
        BY <2>0, <3>2, <4>1, CountedStep
    <3>3. CASE Enough(u) \/ StoreFails(u)
      BY <3>3, EndingSteps
    <3>4. CASE Generate(u)
      BY <3>4, GenerateStep
    <3>5. CASE SendBundle(u)
      BY <2>0, <3>5, SendBundleKeeps
    <3> QED
      BY <2>1, <3>1, <3>2, <3>3, <3>4, <3>5 DEF Step
  <2>2. ASSUME NEW b \in wire, Accept(b) \/ Lose(b) PROVE Stays
    BY <2>0, <2>2, ServerKeeps
  <2>3. ASSUME NEW m \in Messages, Take(m) \/ LoadPreKey(m) \/ Decrypt(m) \/ RemovePreKey(m)
        PROVE  Stays
    <3>1. history' = history
      BY <2>3 DEF Take, LoadPreKey, Decrypt, RemovePreKey
    <3>2. Shapes' /\ (Kept => Kept')
      BY <2>3, TakeStep, LoadStep, DecryptStep, RemoveStep
    <3> QED
      BY <2>0, <3>1, <3>2
  <2>4. CASE Crash
    BY <2>4, CrashKeeps
  <2>5. CASE UNCHANGED vars
    <3>1. /\ Taken' = Taken /\ Bundles' = Bundles /\ OnServer' = OnServer /\ Leaving' = Leaving
          /\ \A v \in Logins : BatchIds(v)' = BatchIds(v)
      BY <2>5 DEF vars, Taken, Bundles, OnServer, Leaving, BatchIds
    <3>2. Shapes'
      BY <2>5, <3>1 DEF vars, KeptInv, Shapes
    <3>3. Kept => Kept'
      BY <2>5, <3>1 DEF vars, Kept, BatchesKept, BundlesKept, ServedKept, MessagesKept, CacheKept
    <3> QED
      BY <2>0, <2>5, <3>2, <3>3 DEF vars
  <2> QED
    BY <2>1, <2>2, <2>3, <2>4, <2>5 DEF Next
<1> QED
  BY <1>1, <1>2 DEF KeptInv

\* As long as no keys are generated over ids that have left in a bundle or are
\* about to, every key the server hands out, or a peer has used, has its
\* private key on disk, whatever the store, however many logins overlap,
\* crash or lose their answers (uploadPreKeysToServer(), loadPreKey(),
\* removePreKey()).
THEOREM OfferedKeysKept == Spec => []DecryptableUnlessReused
<1>1. KeptInv => DecryptableUnlessReused
  <2> SUFFICES ASSUME KeptInv, ~history.reused PROVE Decryptable
    BY DEF DecryptableUnlessReused
  <2>1. ServedKept /\ MessagesKept
    BY DEF KeptInv, Kept
  <2>2. \A m \in Messages : msgs[m].pc \in {"sent", "load"} => m \in Taken
    BY DEF Taken
  <2> QED
    BY <2>1, <2>2 DEF Decryptable, ServedKept, MessagesKept
<1> QED
  BY <1>1, KeptInit, KeptNext, PTL DEF Spec

=============================================================================
