------------------------------ MODULE SenderKeys ------------------------------
(***************************************************************************)
(* The sender keys of a group (signal/group/, signal/libsignal.ts): a peer *)
(* sends to the group, this client decrypts.                               *)
(*                                                                         *)
(* Every message stanza is handled by an async function of its own, which  *)
(* nobody awaits (client.ts:544); so several are under way at once, and    *)
(* each loads the peer's record from the store, changes its copy and       *)
(* stores it, with awaits in between.  Stanzas may be lost, reordered and  *)
(* delivered again: the client acknowledges none, so the server repeats    *)
(* them after a reconnect.                                                 *)
(*                                                                         *)
(* A chain key is determined by its sender key and its iteration, and is   *)
(* represented by them.  1:1 sessions are external: a ciphertext of theirs *)
(* decrypts once.                                                          *)
(***************************************************************************)
EXTENDS Integers, Sequences, FiniteSets

CONSTANTS
  Handlers,         \* how many stanzas are handled at once
  MaxStates,        \* SenderKeyRecord.MAX_STATES
  MaxMessageKeys,   \* SenderKeyState.MAX_MESSAGE_KEYS
  MaxAhead,         \* how far getSenderKey() goes ahead
  MaxKeys,          \* bound: sender keys the peer uses
  MaxSends,         \* bound: stanzas the peer sends
  MaxReceipts       \* bound: deliveries of one stanza

ASSUME SenderKeysAssumption ==
  /\ MaxStates \in Nat \ {0} /\ MaxMessageKeys \in Nat \ {0} /\ MaxAhead \in Nat \ {0}
  /\ MaxKeys \in Nat \ {0} /\ MaxSends \in Nat /\ MaxReceipts \in Nat

VARIABLES
  pkey, pchain,     \* the peer's current sender key, and the iteration of its chain
  sent,             \* the stanzas the peer sent
  receipts,         \* how often each was received
  exists, record,   \* the store's entry for the peer: is there one, and its states
  opened,           \* stanzas whose 1:1 ciphertext has been decrypted
  pc, job, loaded,  \* the handlers: where, on which stanza, with which copy
  decrypted,        \* history: the messages (sender key, iteration) decrypted,
  twice,            \*   those decrypted more than once,
  evicted,          \*   and those whose key the limit of a state pushed out
  overlapped,       \* history: two handlers were under way at once
  crashed           \* history: the process ended while a handler was under way

peer     == << pkey, pchain, sent >>
store    == << exists, record >>
history  == << decrypted, twice, evicted >>
vars     == << peer, receipts, store, opened, pc, job, loaded, history, overlapped, crashed >>

Stanzas == 1..MaxSends
NotSent == -1     \* dist of a stanza that carries no key

Init ==
  /\ pkey = 1 /\ pchain = 0 /\ sent = << >>
  /\ receipts = [m \in Stanzas |-> 0]
  /\ exists = FALSE /\ record = << >>
  /\ opened = {}
  /\ pc = [h \in Handlers |-> "idle"]
  /\ job = [h \in Handlers |-> 1]
  /\ loaded = [h \in Handlers |-> << >>]
  /\ decrypted = {} /\ twice = {} /\ evicted = {}
  /\ overlapped = FALSE /\ crashed = FALSE

-----------------------------------------------------------------------------
(***************************************************************************)
(* The ratchet.  A state is one version of the peer's key: the iteration   *)
(* it was distributed at (history), the iteration of its chain, and the    *)
(* iterations whose message keys were skipped and kept.  The code keeps    *)
(* these in the order they were skipped, which is that of the iterations.  *)
(***************************************************************************)

\* addSenderKeyState(): a new version at the end, the oldest out at the limit.
AddState(r, k, i) ==
  LET s == Append(r, [key |-> k, from |-> i, chain |-> i, kept |-> {}])
  IN  IF Len(s) > MaxStates THEN Tail(s) ELSE s

BugLast(r, j, k) ==
  /\ j \in 1..Len(r) /\ r[j].key = k
  /\ \A l \in (j + 1)..Len(r) : r[l].key # k

\* getSenderKeyState(id) finds the first version with that id.
IsFirst(r, j, k) ==
  /\ j \in 1..Len(r) /\ r[j].key = k
  /\ \A l \in 1..(j - 1) : r[l].key # k

\* addSenderMessageKey(): of the skipped keys the newest are kept.
Newest(s) == { i \in s : Cardinality({ l \in s : l > i }) < MaxMessageKeys }

BugDropLast(st, i) == st.kept \cup (st.chain .. (i - 2))

\* getSenderKey() on the way to iteration i: what is kept or skipped.
Skipped(st, i) == st.kept \cup (st.chain .. (i - 1))

\* getSenderKey(): iteration i is behind the chain and its key was kept ...
Kept(st, i) == i < st.chain /\ i \in st.kept

\* ... or it is ahead, but not too far.
Ahead(st, i) == i >= st.chain /\ i - st.chain <= MaxAhead

\* The state after getSenderKey() returned the key of iteration i.
Ratchet(st, i) ==
  IF i < st.chain
  THEN [st EXCEPT !.kept = @ \ {i}]
  ELSE [st EXCEPT !.chain = i + 1, !.kept = Newest(Skipped(st, i))]

\* The keys it pushed out.
Evicts(st, i) ==
  IF i < st.chain THEN {} ELSE {st.key} \X (Skipped(st, i) \ Newest(Skipped(st, i)))

-----------------------------------------------------------------------------
(***************************************************************************)
(* The peer: encryptGroupMessage() of the same code, one send at a time    *)
(* (the queue has one worker).  A stanza carries the sender key for        *)
(* devices that the peer does not remember having sent it to, at the       *)
(* iteration the chain has before the message is encrypted.                *)
(***************************************************************************)

\* GroupCipher.encrypt(): iteration 0 on a fresh chain, else one past the
\* chain's own.
NextIteration == IF pchain = 0 THEN 0 ELSE pchain + 1

Send(withKey) ==
  /\ Len(sent) < MaxSends
  /\ withKey \/ \E m \in 1..Len(sent) : sent[m].key = pkey /\ sent[m].dist # NotSent
  /\ sent' = Append(sent, [key |-> pkey, iter |-> NextIteration,
                           dist |-> IF withKey THEN pchain ELSE NotSent])
  /\ pchain' = NextIteration + 1
  /\ UNCHANGED << pkey, receipts, store, opened, pc, job, loaded, history, overlapped, crashed >>

\* Other clients change their key when somebody leaves the group.
Rotate ==
  /\ pkey < MaxKeys /\ pchain > 0
  /\ pkey' = pkey + 1 /\ pchain' = 0
  /\ UNCHANGED << sent, receipts, store, opened, pc, job, loaded, history, overlapped, crashed >>

-----------------------------------------------------------------------------
(***************************************************************************)
(* The handlers: decryptMessageNode() on the two parts of a stanza, the    *)
(* 1:1 ciphertext that holds the key and the group ciphertext.             *)
(***************************************************************************)

GoTo(h, label) == pc' = [pc EXCEPT ![h] = label]

\* A handler returns; its copy of the record is gone.
Return(h) ==
  /\ GoTo(h, "idle")
  /\ job' = [job EXCEPT ![h] = 1]
  /\ loaded' = [loaded EXCEPT ![h] = << >>]

\* A stanza arrives and its 1:1 part is decrypted, unless it was before.
Receive(h, m) ==
  /\ pc[h] = "idle"
  /\ m \in 1..Len(sent) /\ receipts[m] < MaxReceipts
  /\ receipts' = [receipts EXCEPT ![m] = @ + 1]
  /\ job' = [job EXCEPT ![h] = m]
  /\ overlapped' = (overlapped \/ \E g \in Handlers : pc[g] # "idle")
  /\ IF sent[m].dist # NotSent /\ m \notin opened
     THEN opened' = opened \cup {m} /\ GoTo(h, "lookup")
     ELSE UNCHANGED opened /\ GoTo(h, "load")
  /\ UNCHANGED << peer, store, loaded, history, crashed >>

BugNoLookup(h) ==
  /\ pc[h] = "lookup"
  /\ GoTo(h, "create")
  /\ UNCHANGED << peer, receipts, store, opened, job, loaded, history, overlapped, crashed >>

\* processSenderKeyDistributionMessage(): is there an entry for the peer?
LookUp(h) ==
  /\ pc[h] = "lookup"
  /\ GoTo(h, IF exists THEN "fetch" ELSE "create")
  /\ UNCHANGED << peer, receipts, store, opened, job, loaded, history, overlapped, crashed >>

\* There was none: an empty record is stored, whatever is there by now.
Create(h) ==
  /\ pc[h] = "create"
  /\ exists' = TRUE /\ record' = << >>
  /\ GoTo(h, "fetch")
  /\ UNCHANGED << peer, receipts, opened, job, loaded, history, overlapped, crashed >>

\* loadSenderKey(), for the key or for the message: a copy of the record.
LoadSenderKey(h) ==
  /\ \/ pc[h] = "fetch" /\ GoTo(h, "process")
     \/ pc[h] = "load" /\ GoTo(h, "decrypt")
  /\ loaded' = [loaded EXCEPT ![h] = record]
  /\ UNCHANGED << peer, receipts, store, opened, job, history, overlapped, crashed >>

\* GroupSessionBuilder.process(), from the load on.
Process(h) ==
  /\ pc[h] = "process"
  /\ exists' = TRUE
  /\ record' = AddState(loaded[h], sent[job[h]].key, sent[job[h]].dist)
  /\ GoTo(h, "load")
  /\ UNCHANGED << peer, receipts, opened, job, loaded, history, overlapped, crashed >>

\* GroupCipher.decrypt(), from the load on: the message key is taken from the
\* copy, and the copy is stored.
Decrypt(h) ==
  LET m == sent[job[h]] IN
  /\ pc[h] = "decrypt"
  /\ \E j \in 1..Len(loaded[h]) :
       /\ IsFirst(loaded[h], j, m.key)
       /\ Kept(loaded[h][j], m.iter) \/ Ahead(loaded[h][j], m.iter)
       /\ exists' = TRUE
       /\ record' = [loaded[h] EXCEPT ![j] = Ratchet(@, m.iter)]
       /\ evicted' = evicted \cup Evicts(loaded[h][j], m.iter)
  /\ decrypted' = decrypted \cup {<< m.key, m.iter >>}
  /\ twice' = twice \cup ({<< m.key, m.iter >>} \cap decrypted)
  /\ Return(h)
  /\ UNCHANGED << peer, receipts, opened, overlapped, crashed >>

\* It throws instead: no session, an old counter, or too far ahead.  The
\* error becomes a stub message; nothing is stored and nothing is retried.
Refuse(h) ==
  LET m == sent[job[h]] IN
  /\ pc[h] = "decrypt"
  /\ \A j \in 1..Len(loaded[h]) :
       IsFirst(loaded[h], j, m.key) =>
         ~Kept(loaded[h][j], m.iter) /\ ~Ahead(loaded[h][j], m.iter)
  /\ Return(h)
  /\ UNCHANGED << peer, receipts, store, opened, history, overlapped, crashed >>

\* The process ends and is started again on the same store.
Crash ==
  /\ \E h \in Handlers : pc[h] # "idle"
  /\ pc' = [h \in Handlers |-> "idle"]
  /\ job' = [h \in Handlers |-> 1]
  /\ loaded' = [h \in Handlers |-> << >>]
  /\ crashed' = TRUE
  /\ UNCHANGED << peer, receipts, store, opened, history, overlapped >>

Handle(h) ==
  \/ LookUp(h)
  \/ Create(h)
  \/ LoadSenderKey(h)
  \/ Process(h)
  \/ Decrypt(h)
  \/ Refuse(h)

Next ==
  \/ \E withKey \in BOOLEAN : Send(withKey)
  \/ Rotate
  \/ \E h \in Handlers : \E m \in Stanzas : Receive(h, m)
  \/ \E h \in Handlers : Handle(h)
  \/ Crash

Spec == Init /\ [][Next]_vars

-----------------------------------------------------------------------------
(***************************************************************************)
(* Properties.                                                             *)
(***************************************************************************)

\* Every iteration the chain of a version has passed was decrypted, was pushed
\* out by the limit, or can still be decrypted.
Accounted(r) ==
  \A j \in 1..Len(r) : \A i \in r[j].from .. (r[j].chain - 1) :
    \/ i \in r[j].kept
    \/ << r[j].key, i >> \in decrypted
    \/ << r[j].key, i >> \in evicted

\* However handlers overlap and wherever the process ends, no message key of a
\* version that is on record is lost: overwritten records only go back.
KeysKept == Accounted(record)

\* A message is decrypted at most once, however often and in whatever order it
\* is delivered, when stanzas are handled one at a time and no version was
\* pushed out of the record.
DecryptedOnce == ~overlapped /\ Cardinality(opened) <= MaxStates => twice = {}

Settled == \A h \in Handlers : pc[h] = "idle"

\* A key the peer distributed is on record, when stanzas are handled one at a
\* time, the process did not end meanwhile, and there is room.
KeyOnRecord ==
  Settled /\ ~overlapped /\ ~crashed /\ Cardinality(opened) <= MaxStates =>
    \A m \in opened : \E j \in 1..Len(record) : record[j].key = sent[m].key

\* "Holds up to MAX_STATES (5) past states so out-of-order messages under an
\* older key can still be decrypted.  The oldest state is dropped once the cap
\* is reached" (sender-key-record.ts): a version leaves a full record only.
DroppedOnlyWhenFull ==
  [][\A j \in 1..Len(record) :
       \/ \E l \in 1..Len(record') :
            record'[l].key = record[j].key /\ record'[l].from = record[j].from
       \/ Len(record) = MaxStates]_vars

=============================================================================
