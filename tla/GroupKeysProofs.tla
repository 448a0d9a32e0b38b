--------------------------- MODULE GroupKeysProofs ---------------------------
(***************************************************************************)
(* Proofs about the two ends of group keys.  SenderKeys, the receiver: any *)
(* number of overlapping handlers, sends, receipts and crashes, and any    *)
(* limits of the record.  Relay, the sender: any number of overlapping     *)
(* calls, any users, devices and groups.                                   *)
(***************************************************************************)
EXTENDS SenderKeys, Relay, SequenceTheorems, FiniteSetTheorems, WellFoundedInduction, TLAPS

Version == [key : Int, from : Int, chain : Int, kept : SUBSET Int]
Stanza  == [key : Int, iter : Int, dist : Int]

\* What Accounted says of one version, for any histories.
Covered(st, done) == \A i \in st.from .. (st.chain - 1) : i \in st.kept \/ << st.key, i >> \in done

AllCovered(r, done) == \A j \in 1..Len(r) : Covered(r[j], done)

\* KeysKept is not inductive by itself: what is stored next is a copy that some
\* handler holds, so the copies must be accounted for as well.
KeysInv ==
  /\ pkey \in Int /\ pchain \in Int /\ sent \in Seq(Stanza)
  /\ record \in Seq(Version) /\ AllCovered(record, decrypted \cup evicted)
  /\ pc \in [Handlers -> {"idle", "lookup", "create", "fetch", "process", "load", "decrypt"}]
  /\ job \in [Handlers -> Nat]
  /\ \A h \in Handlers : pc[h] # "idle" => job[h] \in 1..Len(sent)
  /\ loaded \in [Handlers -> Seq(Version)]
  /\ \A h \in Handlers : AllCovered(loaded[h], decrypted \cup evicted)

LEMMA CoveredMonotonic ==
  ASSUME NEW r, NEW done, NEW more, done \subseteq more, AllCovered(r, done)
  PROVE  AllCovered(r, more)
BY DEF AllCovered, Covered

\* A new version has passed nothing yet, and the others stay.
LEMMA AddStateCovered ==
  ASSUME NEW r \in Seq(Version), NEW done, AllCovered(r, done), NEW k \in Int, NEW i \in Int
  PROVE  AddState(r, k, i) \in Seq(Version) /\ AllCovered(AddState(r, k, i), done)
<1> DEFINE st == [key |-> k, from |-> i, chain |-> i, kept |-> {}]
           s == Append(r, st)
<1>1. st \in Version
  BY DEF Version
<1>2. Covered(st, done)
  BY DEF Covered
<1> HIDE DEF st
<1>3. s \in Seq(Version) /\ Len(s) = Len(r) + 1 /\ Len(r) \in Nat
  BY <1>1, AppendProperties, LenProperties
<1>4. \A j \in 1..Len(s) : (j \in 1..Len(r) /\ s[j] = r[j]) \/ s[j] = st
  BY <1>1, <1>3, AppendProperties
<1>5. AllCovered(s, done)
  BY <1>2, <1>4 DEF AllCovered
<1> HIDE DEF s
<1>6. Tail(s) \in Seq(Version) /\ Len(Tail(s)) = Len(s) - 1 /\ \A j \in 1..Len(Tail(s)) : Tail(s)[j] = s[j + 1]
  <2>1. s # << >>
    BY <1>3, EmptySeq
  <2> QED
    BY <1>3, <2>1, HeadTailProperties
<1>7. AllCovered(Tail(s), done)
  <2>1. \A j \in 1..Len(Tail(s)) : j + 1 \in 1..Len(s)
    BY <1>3, <1>6
  <2> QED
    BY <1>5, <1>6, <2>1 DEF AllCovered
<1>8. AddState(r, k, i) = IF Len(s) > MaxStates THEN Tail(s) ELSE s
  BY DEF AddState, s, st
<1> QED
  BY <1>3, <1>5, <1>6, <1>7, <1>8

\* Taking the key of iteration i: whatever the chain passes is kept, i itself,
\* or pushed out.
LEMMA RatchetCovered ==
  ASSUME NEW st \in Version, NEW i \in Int, NEW done, Covered(st, done),
         Kept(st, i) \/ Ahead(st, i)
  PROVE  /\ Ratchet(st, i) \in Version
         /\ Covered(Ratchet(st, i), done \cup {<< st.key, i >>} \cup Evicts(st, i))
<1>0. /\ st.key \in Int /\ st.from \in Int /\ st.chain \in Int /\ st.kept \in SUBSET Int
  BY DEF Version
<1>1. CASE i < st.chain
  <2>1. Ratchet(st, i) = [st EXCEPT !.kept = st.kept \ {i}]
    BY <1>1 DEF Ratchet
  <2>2. Ratchet(st, i) \in Version
    BY <1>0, <2>1 DEF Version
  <2>3. Ratchet(st, i).from = st.from /\ Ratchet(st, i).chain = st.chain
        /\ Ratchet(st, i).key = st.key /\ Ratchet(st, i).kept = st.kept \ {i}
    BY <2>1 DEF Version
  <2> QED
    BY <2>2, <2>3 DEF Covered
<1>2. CASE i >= st.chain
  <2> DEFINE S == Skipped(st, i)
             N == Newest(Skipped(st, i))
  <2>1. ~(i < st.chain)
    BY <1>0, <1>2
  <2>2. Ratchet(st, i) = [st EXCEPT !.chain = i + 1, !.kept = N]
    BY <2>1 DEF Ratchet
  <2>3. Evicts(st, i) = {st.key} \X (S \ N)
    BY <2>1 DEF Evicts
  <2>4. N \subseteq S
    BY DEF Newest
  <2>5. S \subseteq Int /\ \A x \in Int : x \in st.kept \/ (x >= st.chain /\ x <= i - 1) => x \in S
    BY <1>0 DEF Skipped
  <2> HIDE DEF S, N
  <2>6. Ratchet(st, i) \in Version
    <3>1. N \in SUBSET Int /\ i + 1 \in Int
      <4>1. N \in SUBSET Int
        BY Zenon, <2>4, <2>5
      <4>2. i + 1 \in Int
        OBVIOUS
      <4> QED
        BY <4>1, <4>2
    <3>2. [st EXCEPT !.chain = i + 1] \in Version
      BY <3>1 DEF Version
    <3> QED
      BY <2>2, <3>1, <3>2 DEF Version
  <2>7. Ratchet(st, i).from = st.from /\ Ratchet(st, i).chain = i + 1
        /\ Ratchet(st, i).key = st.key /\ Ratchet(st, i).kept = N
    BY <2>2 DEF Version
  <2>8. ASSUME NEW x \in st.from .. i
        PROVE  x \in N \/ << st.key, x >> \in done \cup {<< st.key, i >>} \cup Evicts(st, i)
    <3>1. CASE x = i
      BY <3>1
    <3>2. CASE x \in S
      BY <2>3, <3>2
    <3>3. CASE x # i /\ x \notin S
      <4>1. x < st.chain /\ x \notin st.kept
        BY <1>0, <1>2, <2>5, <3>3
      <4>2. x \in st.from .. (st.chain - 1)
        BY <1>0, <4>1
      <4> QED
        BY <4>1, <4>2 DEF Covered
    <3> QED
      BY <3>1, <3>2, <3>3
  <2>9. st.from .. (i + 1 - 1) = st.from .. i
    BY <1>0
  <2> QED
    BY <2>6, <2>7, <2>8, <2>9 DEF Covered
<1> QED
  BY <1>0, <1>1, <1>2

-----------------------------------------------------------------------------

LEMMA KeysInvInit ==
  ASSUME Init
  PROVE  KeysInv
BY EmptySeq DEF Init, KeysInv, AllCovered, Covered

\* The step that replaces the record by a handler's changed copy.
LEMMA DecryptKeeps ==
  ASSUME KeysInv, NEW h \in Handlers, Decrypt(h)
  PROVE  /\ record' \in Seq(Version) /\ AllCovered(record', decrypted' \cup evicted')
         /\ decrypted \cup evicted \subseteq decrypted' \cup evicted'
<1> DEFINE m == sent[job[h]]
           r == loaded[h]
           done == decrypted \cup evicted
<1>1. pc[h] # "idle" /\ job[h] \in 1..Len(sent)
  BY DEF Decrypt, KeysInv
<1>2. m \in Stanza
  BY <1>1, ElementOfSeq DEF KeysInv
<1>3. m.key \in Int /\ m.iter \in Int
  BY <1>2 DEF Stanza
<1>4. r \in Seq(Version) /\ AllCovered(r, done)
  BY DEF KeysInv
<1>5. PICK j \in 1..Len(r) :
        /\ r[j].key = m.key
        /\ Kept(r[j], m.iter) \/ Ahead(r[j], m.iter)
        /\ record' = [r EXCEPT ![j] = Ratchet(@, m.iter)]
        /\ evicted' = evicted \cup Evicts(r[j], m.iter)
  BY DEF Decrypt, IsFirst
<1>6. decrypted' = decrypted \cup {<< m.key, m.iter >>}
  BY DEF Decrypt
<1> HIDE DEF m, r
<1> DEFINE more == done \cup {<< r[j].key, m.iter >>} \cup Evicts(r[j], m.iter)
<1>7. r[j] \in Version /\ Covered(r[j], done)
  BY <1>4, ElementOfSeq DEF AllCovered
<1>8. Ratchet(r[j], m.iter) \in Version /\ Covered(Ratchet(r[j], m.iter), more)
  BY <1>3, <1>5, <1>7, RatchetCovered
<1>9. decrypted' \cup evicted' = more
  BY <1>5, <1>6
<1>10. AllCovered(r, more)
  BY <1>4, CoveredMonotonic
<1> HIDE DEF done, more
<1>11. record' = [r EXCEPT ![j] = Ratchet(r[j], m.iter)]
  BY <1>5
<1>12. record' \in Seq(Version) /\ Len(record') = Len(r)
       /\ \A l \in 1..Len(r) : record'[l] = IF l = j THEN Ratchet(r[j], m.iter) ELSE r[l]
  BY <1>4, <1>8, <1>11, ExceptSeq
<1>13. AllCovered(record', more)
  BY <1>8, <1>10, <1>12 DEF AllCovered
<1> QED
  BY <1>9, <1>12, <1>13 DEF done, more

\* Every step keeps the invariant.
LEMMA KeysInvNext ==
  ASSUME KeysInv, [Next]_vars
  PROVE  KeysInv'
<1> DEFINE Labels == {"idle", "lookup", "create", "fetch", "process", "load", "decrypt"}
           done == decrypted \cup evicted
<1>0. /\ pc \in [Handlers -> Labels] /\ job \in [Handlers -> Nat]
      /\ loaded \in [Handlers -> Seq(Version)]
      /\ record \in Seq(Version) /\ AllCovered(record, done)
      /\ \A h \in Handlers : AllCovered(loaded[h], done)
  BY DEF KeysInv
<1> HIDE DEF done
\* What the handlers' steps leave to show.
<1>1. ASSUME UNCHANGED peer, job' = job, loaded' = loaded,
             NEW h \in Handlers, NEW l \in Labels, pc[h] # "idle", GoTo(h, l),
             record' \in Seq(Version), AllCovered(record', done), UNCHANGED history
      PROVE  KeysInv'
  BY <1>1 DEF KeysInv, GoTo, peer, history, done
<1>2. ASSUME NEW withKey \in BOOLEAN, Send(withKey) PROVE KeysInv'
  <2> DEFINE stanza == [key |-> pkey, iter |-> NextIteration,
                        dist |-> IF withKey THEN pchain ELSE NotSent]
  <2>1. NextIteration \in Int /\ NotSent \in Int
    BY DEF KeysInv, NextIteration, NotSent
  <2>2. stanza \in Stanza
    BY <2>1 DEF KeysInv, Stanza
  <2>3. sent' = Append(sent, stanza) /\ pkey' = pkey /\ pchain' = NextIteration + 1
    BY <1>2 DEF Send
  <2> HIDE DEF stanza
  <2>4. sent' \in Seq(Stanza) /\ Len(sent') = Len(sent) + 1 /\ Len(sent) \in Nat
    BY <2>2, <2>3, AppendProperties, LenProperties DEF KeysInv
  <2>5. \A h \in Handlers : pc[h] # "idle" => job[h] \in 1..Len(sent')
    BY <2>4 DEF KeysInv
  <2>6. UNCHANGED << record, pc, job, loaded, decrypted, evicted >>
    BY <1>2 DEF Send, store, history
  <2>7. pkey' \in Int /\ pchain' \in Int
    BY <2>1, <2>3 DEF KeysInv
  <2> QED
    BY <2>4, <2>5, <2>6, <2>7 DEF KeysInv
<1>3. ASSUME Rotate PROVE KeysInv'
  <2>1. UNCHANGED << sent, record, pc, job, loaded, decrypted, evicted >>
    BY <1>3 DEF Rotate, store, history
  <2>2. pkey' \in Int /\ pchain' \in Int
    BY <1>3 DEF Rotate, KeysInv
  <2> QED
    BY <2>1, <2>2 DEF KeysInv
<1>4. ASSUME NEW h \in Handlers, NEW m \in Stanzas, Receive(h, m) PROVE KeysInv'
  <2>1. \E l \in Labels : GoTo(h, l)
    BY <1>4 DEF Receive
  <2>2. job' = [job EXCEPT ![h] = m] /\ m \in 1..Len(sent) /\ UNCHANGED << peer, store, loaded, history >>
    BY <1>4 DEF Receive
  <2>3. Len(sent) \in Nat
    BY LenProperties DEF KeysInv
  <2>4. pc' \in [Handlers -> Labels] /\ \A g \in Handlers : g # h => pc'[g] = pc[g]
    BY <1>0, <2>1 DEF GoTo
  <2>5. job' \in [Handlers -> Nat]
    BY <1>0, <2>2, <2>3
  <2>6. \A g \in Handlers : pc'[g] # "idle" => job'[g] \in 1..Len(sent)
    BY <1>0, <2>2, <2>4 DEF KeysInv
  <2> QED
    BY <2>2, <2>4, <2>5, <2>6 DEF KeysInv, peer, store, history
<1>5. ASSUME NEW h \in Handlers, LookUp(h) PROVE KeysInv'
  <2>1. \E l \in Labels : GoTo(h, l)
    BY <1>5 DEF LookUp
  <2>2. UNCHANGED << peer, job, loaded, history >> /\ record' = record /\ pc[h] # "idle"
    BY <1>5 DEF LookUp, store
  <2> QED
    BY <1>0, <1>1, <2>1, <2>2
<1>6. ASSUME NEW h \in Handlers, Create(h) PROVE KeysInv'
  <2>1. GoTo(h, "fetch") /\ UNCHANGED << peer, job, loaded, history >> /\ pc[h] # "idle"
        /\ record' = << >>
    BY <1>6 DEF Create
  <2>2. record' \in Seq(Version) /\ AllCovered(record', done)
    BY <2>1, EmptySeq DEF AllCovered
  <2> QED
    BY <1>1, <2>1, <2>2
<1>7. ASSUME NEW h \in Handlers, LoadSenderKey(h) PROVE KeysInv'
  <2>1. \E l \in Labels : GoTo(h, l)
    BY <1>7 DEF LoadSenderKey
  <2>2. /\ loaded' = [loaded EXCEPT ![h] = record] /\ pc[h] # "idle"
        /\ UNCHANGED << peer, store, job, history >>
    BY <1>7 DEF LoadSenderKey
  <2>3. pc' \in [Handlers -> Labels] /\ \A g \in Handlers : g # h => pc'[g] = pc[g]
    BY <1>0, <2>1 DEF GoTo
  <2>4. loaded' \in [Handlers -> Seq(Version)] /\ \A g \in Handlers : AllCovered(loaded'[g], done)
    BY <1>0, <2>2
  <2>5. \A g \in Handlers : pc'[g] # "idle" => job[g] \in 1..Len(sent)
    BY <2>2, <2>3 DEF KeysInv
  <2> QED
    BY <2>2, <2>3, <2>4, <2>5 DEF KeysInv, peer, store, history, done
<1>8. ASSUME NEW h \in Handlers, Process(h) PROVE KeysInv'
  <2> DEFINE k == sent[job[h]].key
             i == sent[job[h]].dist
  <2>1. /\ GoTo(h, "load") /\ UNCHANGED << peer, job, loaded, history >> /\ pc[h] # "idle"
        /\ record' = AddState(loaded[h], k, i)
    BY <1>8 DEF Process
  <2>2. sent[job[h]] \in Stanza
    BY <2>1, ElementOfSeq DEF KeysInv
  <2>3. k \in Int /\ i \in Int
    BY <2>2 DEF Stanza
  <2> HIDE DEF k, i
  <2>4. loaded[h] \in Seq(Version) /\ AllCovered(loaded[h], done)
    BY <1>0
  <2>5. record' \in Seq(Version) /\ AllCovered(record', done)
    BY <2>1, <2>3, <2>4, AddStateCovered
  <2> QED
    BY <1>1, <2>1, <2>5
\* A handler that returns drops its copy; the others' stay covered.
<1>9. ASSUME NEW h \in Handlers, Return(h), UNCHANGED peer,
             record' \in Seq(Version), AllCovered(record', decrypted' \cup evicted'),
             done \subseteq decrypted' \cup evicted'
      PROVE  KeysInv'
  <2>1. pc' = [pc EXCEPT ![h] = "idle"] /\ job' = [job EXCEPT ![h] = 1]
        /\ loaded' = [loaded EXCEPT ![h] = << >>]
    BY <1>9 DEF Return, GoTo
  <2>2. pc' \in [Handlers -> Labels] /\ job' \in [Handlers -> Nat]
    BY <1>0, <2>1
  <2>3. << >> \in Seq(Version) /\ AllCovered(<< >>, decrypted' \cup evicted')
    BY EmptySeq DEF AllCovered
  <2>4. loaded' \in [Handlers -> Seq(Version)]
    BY <1>0, <2>1, <2>3
  <2>5. \A g \in Handlers : AllCovered(loaded'[g], decrypted' \cup evicted')
    <3>1. \A g \in Handlers : AllCovered(loaded[g], decrypted' \cup evicted')
      BY <1>0, <1>9, CoveredMonotonic
    <3> QED
      BY <1>0, <2>1, <2>3, <3>1
  <2>6. \A g \in Handlers : pc'[g] # "idle" => job'[g] \in 1..Len(sent)
    BY <1>0, <2>1 DEF KeysInv
  <2> QED
    BY <1>9, <2>2, <2>4, <2>5, <2>6 DEF KeysInv, peer
<1>10. ASSUME NEW h \in Handlers, Decrypt(h) PROVE KeysInv'
  <2>1. Return(h) /\ UNCHANGED peer
    BY <1>10 DEF Decrypt
  <2> QED
    BY <1>9, <1>10, <2>1, DecryptKeeps DEF done
<1>11. ASSUME NEW h \in Handlers, Refuse(h) PROVE KeysInv'
  <2>1. Return(h) /\ UNCHANGED << peer, store, history >>
    BY <1>11 DEF Refuse
  <2>2. record' = record /\ decrypted' = decrypted /\ evicted' = evicted /\ UNCHANGED peer
    BY <2>1 DEF store, history
  <2> QED
    BY <1>0, <1>9, <2>1, <2>2 DEF done
<1>12. ASSUME Crash PROVE KeysInv'
  <2>1. /\ pc' = [h \in Handlers |-> "idle"] /\ job' = [h \in Handlers |-> 1]
        /\ loaded' = [h \in Handlers |-> << >>] /\ UNCHANGED << peer, store, history >>
    BY <1>12 DEF Crash
  <2>2. << >> \in Seq(Version) /\ AllCovered(<< >>, done)
    BY EmptySeq DEF AllCovered
  <2> QED
    BY <1>0, <2>1, <2>2 DEF KeysInv, peer, store, history, done
<1>13. CASE UNCHANGED vars
  BY <1>13 DEF KeysInv, vars, peer, store, history
<1> QED
  BY <1>2, <1>3, <1>4, <1>5, <1>6, <1>7, <1>8, <1>10, <1>11, <1>12, <1>13 DEF Next, Handle

\* However handlers overlap, however often and in whatever order stanzas
\* arrive and wherever the process ends, decryptMessageNode() loses no message
\* key of a version on record: each was used, pushed out by MAX_MESSAGE_KEYS
\* or is there.
THEOREM KeysAlwaysKept == Spec => []KeysKept
<1>1. Init => KeysInv
  BY KeysInvInit
<1>2. KeysInv /\ [Next]_vars => KeysInv'
  BY KeysInvNext
<1>3. KeysInv => KeysKept
  <2> SUFFICES ASSUME KeysInv PROVE KeysKept
    OBVIOUS
  <2>1. AllCovered(record, decrypted \cup evicted)
    BY DEF KeysInv
  <2> QED
    BY <2>1 DEF KeysKept, Accounted, AllCovered, Covered
<1> QED
  BY <1>1, <1>2, <1>3, PTL DEF Spec

-----------------------------------------------------------------------------
(***************************************************************************)
(* One stanza at a time                                                    *)
(***************************************************************************)

Adding == {"lookup", "create", "fetch", "process"}
Serial == ~overlapped /\ Cardinality(opened) <= MaxStates

\* The message (key, iteration) d was decrypted with a version: the one that
\* is found for its key has passed it and kept nothing for it.
Used(r, d) == \E j \in 1..Len(r) : IsFirst(r, j, d[1]) /\ d[2] < r[j].chain /\ d[2] \notin r[j].kept

\* What a version kept, its chain has passed.
KeptBehind(r) == \A j \in 1..Len(r) : \A i \in r[j].kept : i < r[j].chain

\* At most one stanza is being handled.
Alone == \A g, h \in Handlers : pc[g] # "idle" /\ pc[h] # "idle" => g = h

\* Its handler knows what is on record.
HoldsRecord ==
  /\ ~exists => record = << >>
  /\ \A h \in Handlers : pc[h] = "create" => ~exists
  /\ \A h \in Handlers : pc[h] \in {"process", "decrypt"} => loaded[h] = record

\* There is room for the version it is adding.
Room ==
  /\ Len(record) <= Cardinality(opened)
  /\ \A h \in Handlers : pc[h] \in Adding => Len(record) + 1 <= Cardinality(opened) /\ job[h] \in opened

\* A key that was opened is on record, or being added.
OnRecord ==
  \A m \in opened :
    \/ \E j \in 1..Len(record) : record[j].key = sent[m].key
    \/ \E h \in Handlers : pc[h] \in Adding /\ job[h] = m

\* So no decrypted message's version ever leaves or goes back.
SerialNow ==
  /\ Alone
  /\ HoldsRecord
  /\ Room
  /\ KeptBehind(record)
  /\ \A d \in decrypted : Used(record, d)
  /\ twice = {}
  /\ ~crashed => OnRecord

SerialInv ==
  /\ opened \subseteq 1..Len(sent) /\ decrypted \subseteq Int \X Int
  /\ Serial => SerialNow

LEMMA SerialInit == Init => SerialInv
<1> SUFFICES ASSUME Init PROVE SerialInv
  OBVIOUS
<1>1. /\ record = << >> /\ opened = {} /\ decrypted = {} /\ twice = {} /\ Len(record) = 0
      /\ \A h \in Handlers : pc[h] = "idle"
  BY DEF Init
<1>2. Cardinality(opened) = 0
  BY <1>1, FS_EmptySet
<1> QED
  BY <1>1, <1>2 DEF SerialInv, SerialNow, Alone, HoldsRecord, Room, OnRecord, Adding, KeptBehind

\* What was opened only grows, by one stanza at a time.
LEMMA OpenedGrows ==
  ASSUME KeysInv, SerialInv, [Next]_vars
  PROVE  /\ IsFiniteSet(opened) /\ Cardinality(opened) \in Nat
         /\ \/ opened' = opened /\ Cardinality(opened') = Cardinality(opened)
            \/ \E m \in 1..Len(sent) : m \notin opened /\ opened' = opened \cup {m}
                                       /\ Cardinality(opened') = Cardinality(opened) + 1
         /\ opened' \subseteq 1..Len(sent')
         /\ \A m \in 1..Len(sent) : sent'[m] = sent[m]
         /\ Serial' => Serial
<1>1. Len(sent) \in Nat /\ IsFiniteSet(opened)
  <2>1. Len(sent) \in Nat
    BY LenProperties DEF KeysInv
  <2>2. IsFiniteSet(1..Len(sent))
    BY <2>1, FS_Interval
  <2> QED
    BY <2>1, <2>2, FS_Subset DEF SerialInv
<1>2. Cardinality(opened) \in Nat
  BY <1>1, FS_CardinalityType
<1>3. opened' = opened \/ \E m \in 1..Len(sent) : m \notin opened /\ opened' = opened \cup {m}
  BY DEF Next, Send, Rotate, Receive, Handle, LookUp, Create, LoadSenderKey, Process, Decrypt, Refuse,
         Crash, vars
<1>4. \A m : m \notin opened => Cardinality(opened \cup {m}) = Cardinality(opened) + 1
  BY <1>1, FS_AddElement
<1>5. overlapped => overlapped'
  BY DEF Next, Send, Rotate, Receive, Handle, LookUp, Create, LoadSenderKey, Process, Decrypt, Refuse,
         Crash, vars
<1>6. /\ Len(sent') >= Len(sent) /\ Len(sent') \in Nat
      /\ \A m \in 1..Len(sent) : sent'[m] = sent[m]
  <2>1. CASE \E b \in BOOLEAN : Send(b)
    <3>1. PICK e : sent' = Append(sent, e)
      BY <2>1 DEF Send
    <3> QED
      BY <1>1, <3>1 DEF KeysInv
  <2>2. CASE sent' = sent
    BY <1>1, <2>2
  <2> QED
    BY <2>1, <2>2 DEF Next, Rotate, Receive, Handle, LookUp, Create, LoadSenderKey, Process, Decrypt,
                      Refuse, Crash, vars, peer
<1>7. opened' \subseteq 1..Len(sent')
  <2>1. 1..Len(sent) \subseteq 1..Len(sent')
    BY <1>1, <1>6
  <2> QED
    BY <1>3, <2>1 DEF SerialInv
<1>8. Serial' => Serial
  BY <1>2, <1>3, <1>4, <1>5, SenderKeysAssumption DEF Serial
<1> QED
  BY <1>1, <1>2, <1>3, <1>4, <1>6, <1>7, <1>8

\* Taking the key of iteration i uses it up, and no other comes back.
LEMMA RatchetUses ==
  ASSUME NEW st \in Version, NEW i \in Int, \A x \in st.kept : x < st.chain
  PROVE  LET s == Ratchet(st, i)
         IN  /\ s.key = st.key /\ \A x \in s.kept : x < s.chain
             /\ Kept(st, i) \/ Ahead(st, i) => i < s.chain /\ i \notin s.kept
             /\ \A x \in Int : x < st.chain /\ x \notin st.kept => x < s.chain /\ x \notin s.kept
<1>0. st.chain \in Int /\ st.kept \in SUBSET Int
  BY DEF Version
<1>1. CASE i < st.chain
  <2>1. Ratchet(st, i) = [st EXCEPT !.kept = st.kept \ {i}]
    BY <1>1 DEF Ratchet
  <2>2. Ratchet(st, i).key = st.key /\ Ratchet(st, i).chain = st.chain
        /\ Ratchet(st, i).kept = st.kept \ {i}
    BY <2>1 DEF Version
  <2> QED
    BY <1>1, <2>2
<1>2. CASE ~(i < st.chain)
  <2> DEFINE N == Newest(Skipped(st, i))
  <2>1. Ratchet(st, i) = [st EXCEPT !.chain = i + 1, !.kept = N]
    BY <1>2 DEF Ratchet
  <2>2. \A x \in N : x \in st.kept \/ (x \in Int /\ st.chain <= x /\ x <= i - 1)
    BY <1>0 DEF Newest, Skipped
  <2> HIDE DEF N
  <2>3. Ratchet(st, i).key = st.key /\ Ratchet(st, i).chain = i + 1 /\ Ratchet(st, i).kept = N
    BY <2>1 DEF Version
  <2>4. \A x \in N : x \in Int /\ x <= i - 1
    BY <1>0, <1>2, <2>2
  <2>5. i \notin N
    BY <2>4
  <2>6. \A x \in Int : x < st.chain /\ x \notin st.kept => x < i + 1 /\ x \notin N
    BY <1>0, <1>2, <2>2
  <2>7. \A x \in N : x < i + 1
    BY <2>4
  <2> QED
    BY <2>3, <2>5, <2>6, <2>7
<1> QED
  BY <1>1, <1>2

\* A new version at the end, where there is room, is not found instead of an
\* older one.
LEMMA AddStateUses ==
  ASSUME NEW r \in Seq(Version), NEW k \in Int, NEW i \in Int, Len(r) + 1 <= MaxStates, KeptBehind(r)
  PROVE  LET s == AddState(r, k, i)
         IN  /\ s \in Seq(Version) /\ Len(s) = Len(r) + 1 /\ KeptBehind(s)
             /\ \A d : Used(r, d) => Used(s, d)
             /\ \A j \in 1..Len(r) : s[j] = r[j]
             /\ s[Len(r) + 1].key = k
<1> DEFINE st == [key |-> k, from |-> i, chain |-> i, kept |-> {}]
           s == Append(r, st)
<1>1. st \in Version /\ st.key = k /\ st.kept = {}
  BY DEF Version
<1> HIDE DEF st
<1>2. /\ s \in Seq(Version) /\ Len(s) = Len(r) + 1 /\ Len(r) \in Nat
      /\ \A j \in 1..Len(r) : s[j] = r[j]
      /\ s[Len(r) + 1] = st
  BY <1>1, AppendProperties, LenProperties
<1>3. AddState(r, k, i) = s
  BY <1>2, SenderKeysAssumption DEF AddState, st
<1> HIDE DEF s
<1>4. \A j \in 1..Len(s) : j \in 1..Len(r) \/ j = Len(r) + 1
  BY <1>2
<1>5. KeptBehind(s)
  BY <1>1, <1>2, <1>4 DEF KeptBehind
<1>6. ASSUME NEW d, Used(r, d) PROVE Used(s, d)
  <2>1. PICK j \in 1..Len(r) : IsFirst(r, j, d[1]) /\ d[2] < r[j].chain /\ d[2] \notin r[j].kept
    BY <1>6 DEF Used
  <2>2. j \in 1..Len(s) /\ \A l \in 1..(j - 1) : l \in 1..Len(r)
    BY <1>2
  <2>3. IsFirst(s, j, d[1])
    BY <1>2, <2>1, <2>2 DEF IsFirst
  <2> QED
    BY <1>2, <2>1, <2>2, <2>3 DEF Used
<1> QED
  BY <1>1, <1>2, <1>3, <1>5, <1>6

\* A handler that goes on, or starts alone, stays alone.
LEMMA AloneKept ==
  ASSUME KeysInv, Alone, NEW h \in Handlers, NEW l, pc' = [pc EXCEPT ![h] = l],
         pc[h] # "idle" \/ \A g \in Handlers : pc[g] = "idle"
  PROVE  Alone' /\ \A g \in Handlers : g # h => pc[g] = "idle" /\ pc'[g] = "idle"
BY DEF KeysInv, Alone

\* Every step keeps it: what a lone handler stores is what was on record, with
\* a version more, or with a key used up.
LEMMA SerialStep ==
  ASSUME KeysInv, SerialInv, [Next]_vars
  PROVE  SerialInv'
<1>0. /\ IsFiniteSet(opened) /\ Cardinality(opened) \in Nat
      /\ opened' \subseteq 1..Len(sent')
      /\ \A m \in 1..Len(sent) : sent'[m] = sent[m]
      /\ Serial' => Serial
  BY OpenedGrows
<1>t. /\ pc \in [Handlers -> {"idle", "lookup", "create", "fetch", "process", "load", "decrypt"}]
      /\ job \in [Handlers -> Nat] /\ loaded \in [Handlers -> Seq(Version)]
      /\ record \in Seq(Version) /\ Len(record) \in Nat
      /\ opened \subseteq 1..Len(sent)
  BY LenProperties DEF KeysInv, SerialInv
<1>1. decrypted' \subseteq Int \X Int
  <2>1. decrypted' = decrypted \/ \E h \in Handlers : Decrypt(h)
    BY DEF Next, Send, Rotate, Receive, Handle, LookUp, Create, LoadSenderKey, Process, Refuse, Crash,
           vars, history
  <2>2. ASSUME NEW h \in Handlers, Decrypt(h) PROVE decrypted' \subseteq Int \X Int
    <3>1. sent[job[h]] \in Stanza
      <4>1. job[h] \in 1..Len(sent)
        BY <2>2 DEF Decrypt, KeysInv
      <4> QED
        BY <4>1, ElementOfSeq DEF KeysInv
    <3>2. sent[job[h]].key \in Int /\ sent[job[h]].iter \in Int
      BY <3>1 DEF Stanza
    <3>3. decrypted' = decrypted \cup {<< sent[job[h]].key, sent[job[h]].iter >>}
      BY <2>2 DEF Decrypt
    <3> QED
      BY <3>2, <3>3 DEF SerialInv
  <2> QED
    BY <2>1, <2>2 DEF SerialInv
<1>2. SUFFICES ASSUME Serial' PROVE SerialNow'
  BY <1>0, <1>1 DEF SerialInv
<1>3. Serial /\ Alone /\ HoldsRecord /\ Room /\ KeptBehind(record)
      /\ (\A d \in decrypted : Used(record, d)) /\ twice = {} /\ (~crashed => OnRecord)
  BY <1>0, <1>2 DEF SerialInv, SerialNow
\* What the peer does changes nothing here.
<1>4. ASSUME UNCHANGED << receipts, store, opened, pc, job, loaded, history, overlapped, crashed >>
      PROVE  SerialNow'
  <2>1. Alone' /\ HoldsRecord' /\ Room' /\ KeptBehind(record)' /\ twice' = {}
        /\ \A d \in decrypted' : Used(record', d)
    BY <1>3, <1>4 DEF Alone, HoldsRecord, Room, store, history
  <2>2. ~crashed' => OnRecord'
    <3>1. \A m \in opened : sent'[m].key = sent[m].key
      BY <1>0, <1>t
    <3> QED
      BY <1>3, <1>4, <3>1 DEF OnRecord, store
  <2> QED
    BY <2>1, <2>2 DEF SerialNow
<1>5. ASSUME NEW h \in Handlers, NEW m \in Stanzas, Receive(h, m) PROVE SerialNow'
  <2>1. /\ \A g \in Handlers : pc[g] = "idle"
        /\ UNCHANGED << sent, exists, record, loaded, decrypted, twice, crashed >>
        /\ job' = [job EXCEPT ![h] = m]
    BY <1>2, <1>5 DEF Receive, Serial, peer, store, history
  <2>2. \E l \in {"lookup", "load"} : pc' = [pc EXCEPT ![h] = l]
    BY <1>5 DEF Receive, GoTo
  <2>3. Alone' /\ \A g \in Handlers : g # h => pc'[g] = "idle"
    BY <1>3, <2>1, <2>2, AloneKept
  <2>4. pc'[h] \in {"lookup", "load"} /\ job'[h] = m
    BY <1>t, <2>1, <2>2
  <2>5. HoldsRecord'
    BY <1>3, <2>1, <2>3, <2>4 DEF HoldsRecord
  <2>6. CASE opened' = opened /\ pc'[h] = "load"
    <3>1. Room' /\ (~crashed' => OnRecord')
      BY <1>3, <2>1, <2>3, <2>6 DEF Room, OnRecord, Adding
    <3> QED
      BY <1>3, <2>1, <2>3, <2>5, <3>1 DEF SerialNow
  <2>7. CASE m \notin opened /\ opened' = opened \cup {m} /\ pc'[h] = "lookup"
    <3>1. Cardinality(opened') = Cardinality(opened) + 1
      BY <1>0, <2>7, FS_AddElement
    <3>2. Room'
      <4>1. Len(record) + 1 <= Cardinality(opened') /\ Len(record) <= Cardinality(opened')
        BY <1>0, <1>t, <1>3, <3>1 DEF Room
      <4>2. m \in opened' /\ record' = record
        BY <2>1, <2>7
      <4> QED
        BY <2>3, <2>4, <4>1, <4>2 DEF Room, Adding
    <3>3. ~crashed' => OnRecord'
      BY <1>3, <2>1, <2>3, <2>4, <2>7 DEF OnRecord, Adding
    <3> QED
      BY <1>3, <2>1, <2>3, <2>5, <3>2, <3>3 DEF SerialNow
  <2> QED
    BY <1>t, <1>5, <2>6, <2>7 DEF Receive, GoTo
<1>6. ASSUME NEW h \in Handlers, LookUp(h) PROVE SerialNow'
  <2>1. /\ pc[h] = "lookup" /\ pc' = [pc EXCEPT ![h] = IF exists THEN "fetch" ELSE "create"]
        /\ UNCHANGED << sent, exists, record, opened, job, loaded, decrypted, twice, crashed >>
    BY <1>6 DEF LookUp, GoTo, peer, store, history
  <2>2. Alone' /\ \A g \in Handlers : g # h => pc[g] = "idle" /\ pc'[g] = "idle"
    BY <1>3, <2>1, AloneKept
  <2>3. pc'[h] = IF exists THEN "fetch" ELSE "create"
    BY <1>t, <2>1
  <2>4. HoldsRecord' /\ Room'
    BY <1>3, <2>1, <2>2, <2>3 DEF HoldsRecord, Room, Adding
  <2>5. ~crashed' => OnRecord'
    BY <1>3, <2>1, <2>2, <2>3 DEF OnRecord, Adding
  <2> QED
    BY <1>3, <2>1, <2>2, <2>4, <2>5 DEF SerialNow
<1>7. ASSUME NEW h \in Handlers, Create(h) PROVE SerialNow'
  <2>1. /\ pc[h] = "create" /\ pc' = [pc EXCEPT ![h] = "fetch"] /\ exists' /\ record' = << >>
        /\ UNCHANGED << sent, opened, job, loaded, decrypted, twice, crashed >>
    BY <1>7 DEF Create, GoTo, peer, history
  <2>2. record = << >>
    BY <1>3, <2>1 DEF HoldsRecord
  <2>3. Alone' /\ \A g \in Handlers : g # h => pc[g] = "idle" /\ pc'[g] = "idle"
    BY <1>3, <2>1, AloneKept
  <2>4. pc'[h] = "fetch"
    BY <1>t, <2>1
  <2>5. HoldsRecord' /\ Room'
    BY <1>3, <2>1, <2>2, <2>3, <2>4 DEF HoldsRecord, Room, Adding
  <2>6. ~crashed' => OnRecord'
    BY <1>3, <2>1, <2>2, <2>3, <2>4 DEF OnRecord, Adding
  <2> QED
    BY <1>3, <2>1, <2>2, <2>3, <2>5, <2>6 DEF SerialNow
<1>8. ASSUME NEW h \in Handlers, LoadSenderKey(h) PROVE SerialNow'
  <2>1. /\ loaded' = [loaded EXCEPT ![h] = record]
        /\ UNCHANGED << sent, exists, record, opened, job, decrypted, twice, crashed >>
    BY <1>8 DEF LoadSenderKey, peer, store, history
  <2>2. \/ pc[h] = "fetch" /\ pc' = [pc EXCEPT ![h] = "process"]
        \/ pc[h] = "load" /\ pc' = [pc EXCEPT ![h] = "decrypt"]
    BY <1>8 DEF LoadSenderKey, GoTo
  <2>3. Alone' /\ \A g \in Handlers : g # h => pc[g] = "idle" /\ pc'[g] = "idle"
    BY <1>3, <2>2, AloneKept
  <2>4. \/ pc[h] = "fetch" /\ pc'[h] = "process"
        \/ pc[h] = "load" /\ pc'[h] = "decrypt"
    BY <1>t, <2>2
  <2>5. HoldsRecord'
    BY <1>t, <1>3, <2>1, <2>3, <2>4 DEF HoldsRecord
  <2>6. Room' /\ (~crashed' => OnRecord')
    BY <1>3, <2>1, <2>3, <2>4 DEF Room, OnRecord, Adding
  <2> QED
    BY <1>3, <2>1, <2>3, <2>5, <2>6 DEF SerialNow
<1>9. ASSUME NEW h \in Handlers, Process(h) PROVE SerialNow'
  <2> DEFINE k == sent[job[h]].key
             i == sent[job[h]].dist
  <2>1. /\ pc[h] = "process" /\ pc' = [pc EXCEPT ![h] = "load"] /\ exists'
        /\ record' = AddState(loaded[h], k, i)
        /\ UNCHANGED << sent, opened, job, loaded, decrypted, twice, crashed >>
    BY <1>9 DEF Process, GoTo, peer, history
  <2>2. k \in Int /\ i \in Int
    <3>1. sent[job[h]] \in Stanza
      BY <2>1, ElementOfSeq DEF KeysInv
    <3> QED
      BY <3>1 DEF Stanza
  <2> HIDE DEF i
  <2>3. record' = AddState(record, k, i) /\ Len(record) + 1 <= Cardinality(opened)
    BY <1>3, <2>1 DEF HoldsRecord, Room, Adding
  <2>4. Len(record) + 1 <= MaxStates
    BY <1>0, <1>t, <1>3, <2>3, SenderKeysAssumption DEF Serial
  <2>5. /\ Len(record') = Len(record) + 1 /\ KeptBehind(record')
        /\ \A d : Used(record, d) => Used(record', d)
        /\ \A j \in 1..Len(record) : record'[j] = record[j]
        /\ record'[Len(record) + 1].key = k
    BY <1>t, <1>3, <2>2, <2>3, <2>4, AddStateUses
  <2>6. Alone' /\ \A g \in Handlers : g # h => pc[g] = "idle" /\ pc'[g] = "idle"
    BY <1>3, <2>1, AloneKept
  <2>7. pc'[h] = "load"
    BY <1>t, <2>1
  <2>8. HoldsRecord' /\ Room'
    BY <1>3, <2>1, <2>3, <2>5, <2>6, <2>7 DEF HoldsRecord, Room, Adding
  <2>9. ~crashed' => OnRecord'
    <3>1. Len(record) + 1 \in 1..Len(record') /\ \A j \in 1..Len(record) : j \in 1..Len(record')
      BY <1>t, <2>5
    <3>2. \A g \in Handlers : pc[g] \in Adding => g = h
      BY <2>6 DEF Adding
    <3> QED
      BY <1>3, <2>1, <2>5, <3>1, <3>2 DEF OnRecord
  <2> QED
    BY <1>3, <2>1, <2>5, <2>6, <2>8, <2>9 DEF SerialNow
\* A handler that returns with the record it is alone to hold.
<1>10. ASSUME NEW h \in Handlers, Return(h), pc[h] = "decrypt", UNCHANGED << sent, opened, crashed >>,
              exists' \/ (~exists /\ record' = << >>), Len(record') = Len(record), KeptBehind(record'),
              \A j \in 1..Len(record) : record'[j].key = record[j].key,
              \A d \in decrypted' : Used(record', d), twice' = {}
       PROVE  SerialNow'
  <2>1. /\ pc' = [pc EXCEPT ![h] = "idle"] /\ job' = [job EXCEPT ![h] = 1]
        /\ loaded' = [loaded EXCEPT ![h] = << >>]
    BY <1>10 DEF Return, GoTo
  <2>2. Alone' /\ \A g \in Handlers : g # h => pc[g] = "idle" /\ pc'[g] = "idle"
    BY <1>3, <1>10, <2>1, AloneKept
  <2>3. \A g \in Handlers : pc'[g] = "idle"
    BY <1>t, <2>1, <2>2
  <2>4. \A g \in Handlers : pc[g] \notin Adding
    BY <1>10, <2>2 DEF Adding
  <2>5. HoldsRecord' /\ Room'
    BY <1>3, <1>10, <2>3 DEF HoldsRecord, Room, Adding
  <2>6. ~crashed' => OnRecord'
    BY <1>3, <1>10, <2>3, <2>4 DEF OnRecord
  <2> QED
    BY <1>10, <2>2, <2>5, <2>6 DEF SerialNow
<1>11. ASSUME NEW h \in Handlers, Refuse(h) PROVE SerialNow'
  <2>1. Return(h) /\ pc[h] = "decrypt"
        /\ UNCHANGED << sent, exists, record, opened, decrypted, twice, crashed >>
    BY <1>11 DEF Refuse, peer, store, history
  <2>2. exists' \/ (~exists /\ record' = << >>)
    BY <1>3, <2>1 DEF HoldsRecord
  <2> QED
    BY <1>3, <1>10, <2>1, <2>2
<1>12. ASSUME NEW h \in Handlers, Decrypt(h) PROVE SerialNow'
  <2> DEFINE m == sent[job[h]]
  <2>1. /\ Return(h) /\ pc[h] = "decrypt" /\ UNCHANGED << sent, opened, crashed >>
        /\ decrypted' = decrypted \cup {<< m.key, m.iter >>}
        /\ twice' = twice \cup ({<< m.key, m.iter >>} \cap decrypted)
    BY <1>12 DEF Decrypt, peer
  <2>2. loaded[h] = record
    BY <1>3, <2>1 DEF HoldsRecord
  <2>3. PICK j \in 1..Len(record) :
          /\ IsFirst(record, j, m.key)
          /\ Kept(record[j], m.iter) \/ Ahead(record[j], m.iter)
          /\ exists'
          /\ record' = [record EXCEPT ![j] = Ratchet(record[j], m.iter)]
    BY <1>12, <2>2 DEF Decrypt
  <2>4. m.key \in Int /\ m.iter \in Int
    <3>1. m \in Stanza
      BY <2>1, ElementOfSeq DEF KeysInv
    <3> QED
      BY <3>1 DEF Stanza
  <2> HIDE DEF m
  <2>5. record[j] \in Version /\ \A l \in 1..Len(record) : record[l] \in Version
    BY <1>t, <2>3, ElementOfSeq
  <2> DEFINE s == Ratchet(record[j], m.iter)
  <2>6. \A x \in record[j].kept : x < record[j].chain
    BY <1>3 DEF KeptBehind
  <2>7. /\ s.key = record[j].key /\ \A x \in s.kept : x < s.chain
        /\ m.iter < s.chain /\ m.iter \notin s.kept
        /\ \A x \in Int : x < record[j].chain /\ x \notin record[j].kept => x < s.chain /\ x \notin s.kept
    BY <2>3, <2>4, <2>5, <2>6, RatchetUses
  <2> HIDE DEF s
  <2>8. /\ Len(record') = Len(record)
        /\ \A l \in 1..Len(record) : record'[l] = IF l = j THEN s ELSE record[l]
    BY <1>t, <2>3 DEF s
  <2>9. KeptBehind(record') /\ \A l \in 1..Len(record) : record'[l].key = record[l].key
    BY <1>3, <2>7, <2>8 DEF KeptBehind
  <2>10. \A l \in 1..Len(record) : \A k : IsFirst(record, l, k) => IsFirst(record', l, k)
    <3>1. \A l \in 1..Len(record) : \A q \in 1..(l - 1) : q \in 1..Len(record)
      BY <1>t
    <3> QED
      BY <2>8, <2>9, <3>1 DEF IsFirst
  <2>11. \A d \in decrypted : Used(record', d)
    <3> TAKE d \in decrypted
    <3>1. d[2] \in Int
      BY DEF SerialInv
    <3>2. PICK l \in 1..Len(record) :
            IsFirst(record, l, d[1]) /\ d[2] < record[l].chain /\ d[2] \notin record[l].kept
      BY <1>3 DEF Used
    <3>3. d[2] < record'[l].chain /\ d[2] \notin record'[l].kept
      BY <2>7, <2>8, <3>1, <3>2
    <3> QED
      BY <2>8, <2>10, <3>2, <3>3 DEF Used
  <2>12. Used(record', << m.key, m.iter >>)
    BY <2>3, <2>7, <2>8, <2>10 DEF Used
  <2>13. << m.key, m.iter >> \notin decrypted
    <3> SUFFICES ASSUME << m.key, m.iter >> \in decrypted PROVE FALSE
      OBVIOUS
    <3>1. PICK l \in 1..Len(record) :
            IsFirst(record, l, m.key) /\ m.iter < record[l].chain /\ m.iter \notin record[l].kept
      BY <1>3 DEF Used
    <3>2. l = j
      <4>1. Len(record) \in Nat /\ j \in 1..Len(record)
        BY <1>t, <2>3 DEF IsFirst
      <4>2. ~(l < j) /\ ~(j < l)
        BY <2>3, <3>1, <4>1 DEF IsFirst
      <4> QED
        BY <3>1, <4>1, <4>2
    <3> QED
      BY <2>3, <2>4, <2>5, <3>1, <3>2 DEF Kept, Ahead, Version
  <2>14. twice' = {} /\ \A d \in decrypted' : Used(record', d)
    BY <1>3, <2>1, <2>11, <2>12, <2>13
  <2> QED
    BY <1>10, <2>1, <2>3, <2>8, <2>9, <2>14
<1>13. ASSUME Crash PROVE SerialNow'
  <2>1. /\ \A h \in Handlers : pc'[h] = "idle"
        /\ crashed' /\ UNCHANGED << exists, record, opened, decrypted, twice >>
    BY <1>13 DEF Crash, store, history
  <2>2. Alone' /\ HoldsRecord' /\ Room'
    BY <1>3, <2>1 DEF Alone, HoldsRecord, Room, Adding
  <2> QED
    BY <1>3, <2>1, <2>2 DEF SerialNow
<1>14. CASE \E withKey \in BOOLEAN : Send(withKey)
  BY <1>4, <1>14 DEF Send
<1>15. CASE Rotate
  BY <1>4, <1>15 DEF Rotate
<1>16. CASE UNCHANGED vars
  BY <1>4, <1>16 DEF vars
<1> QED
  BY <1>5, <1>6, <1>7, <1>8, <1>9, <1>11, <1>12, <1>13, <1>14, <1>15, <1>16 DEF Next, Handle

\* While stanzas are handled one at a time and the record has room for what
\* they bring, GroupCipher.decrypt() never takes a message key twice, however
\* often and in whatever order a stanza arrives and wherever the process ends.
THEOREM DecryptedAtMostOnce == Spec => []DecryptedOnce
<1>1. Init => KeysInv /\ SerialInv
  BY KeysInvInit, SerialInit
<1>2. (KeysInv /\ SerialInv) /\ [Next]_vars => (KeysInv /\ SerialInv)'
  BY KeysInvNext, SerialStep
<1>3. KeysInv /\ SerialInv => DecryptedOnce
  BY DEF SerialInv, Serial, SerialNow, DecryptedOnce
<1> QED
  BY <1>1, <1>2, <1>3, PTL DEF Spec

\* Then, unless the process ended between the decryption of a 1:1 ciphertext
\* and GroupSessionBuilder.process(), what a stanza brought is on record.
THEOREM DistributedKeysKept == Spec => []KeyOnRecord
<1>1. Init => KeysInv /\ SerialInv
  BY KeysInvInit, SerialInit
<1>2. (KeysInv /\ SerialInv) /\ [Next]_vars => (KeysInv /\ SerialInv)'
  BY KeysInvNext, SerialStep
<1>3. KeysInv /\ SerialInv => KeyOnRecord
  BY DEF SerialInv, Serial, SerialNow, OnRecord, Adding, Settled, KeyOnRecord
<1> QED
  BY <1>1, <1>2, <1>3, PTL DEF Spec

-----------------------------------------------------------------------------
(***************************************************************************)
(* Relay: stanzas are complete, and the sender key gets where it must.     *)
(***************************************************************************)

Call ==
  [pc : {"idle", "usync", "ratchet", "validate", "fetch", "encrypt", "remember",
         "check", "resend", "send"} \cup Ended,
   kind : {"none", "group", "direct", "peer", "resend"},
   to : Users \cup Groups, whom : Devices, users : Seq(Users), devs : Seq(Devices),
   marks : SUBSET Devices, recips : [Devices -> Nat], missing : SUBSET Devices,
   done : SUBSET Devices]

RelayTypes ==
  /\ cache \in [Users -> Seq(Devices)] /\ sessions \subseteq Devices
  /\ memory \in [Groups -> SUBSET Devices]
  /\ mutex \in [Devices -> Seq(Sends)]
  /\ calls \in [Sends -> Call]

\* A call after all its tasks.
Complete == {"remember", "check", "resend", "send"}

Shaped(call) ==
  /\ call.pc = "usync" => call.users # << >>
  /\ call.pc \in {"ratchet", "remember"} => call.kind = "group"
  /\ call.pc \in {"check", "resend"} => call.kind = "resend"
  /\ call.kind = "group" => call.to \in Groups
  /\ call.pc \in Complete => Targets(call) \subseteq call.done

\* A task waits for a call that encrypts, or that another task failed; what a
\* call is to encrypt for is done or has a task.
Tasks ==
  \A s \in Sends :
    /\ \A d \in Devices : s \in Range(mutex[d]) => calls[s].pc \in {"encrypt", "failed"}
    /\ calls[s].pc = "encrypt" =>
         \A d \in Targets(calls[s]) : d \in calls[s].done \/ s \in Range(mutex[d])

Gives(call) == call.kind = "group" /\ call.pc \in {"remember", "send", "sent", "unsent"}

Given(g) == { d \in Devices : GaveKey(g, d) }

\* What a group call has marked was given the key, or is its own to give.
Marked(call, given) ==
  call.kind = "group" =>
    /\ call.pc \in {"usync", "ratchet", "remember", "send"} => call.marks \subseteq given
    /\ call.pc \in {"validate", "fetch", "encrypt"} => call.marks \subseteq given \cup Targets(call)
    /\ call.pc \in {"validate", "fetch", "encrypt", "remember", "send"} =>
         \A d \in Range(call.devs) : IsHosted(d) \/ d \in call.marks
    /\ call.pc \in {"sent", "unsent"} => \A d \in Range(call.devs) : IsHosted(d) \/ d \in given

\* Both properties are about calls that are complete: before that, a task
\* stands for each device to encrypt for, and a mark for each to give the key.
RelayInv ==
  /\ RelayTypes /\ Tasks
  /\ \A s \in Sends : Shaped(calls[s])
  /\ \A s \in Sends, g \in Groups : calls[s].to = g => Marked(calls[s], Given(g))
  /\ \A g \in Groups : memory[g] \subseteq Given(g)

\* Induction over the natural numbers, for a set: the induction theorems of
\* the library are about an operator.
LEMMA Induction ==
  ASSUME NEW S, 0 \in S, \A n \in Nat : n \in S => n + 1 \in S
  PROVE  \A n \in Nat : n \in S
<1> DEFINE R == {p \in Nat \X Nat : p[1] < p[2]}
           T == {n \in Nat : n \notin S}
<1> SUFFICES ASSUME T # {} PROVE FALSE
  OBVIOUS
<1>1. T \subseteq Nat
  OBVIOUS
<1>2. PICK m \in T : \A y \in T : ~(<< y, m >> \in R)
  <2>1. IsWellFoundedOn(R, Nat)
    BY NatLessThanWellFounded DEF OpToRel
  <2> HIDE DEF R, T
  <2> QED
    BY <1>1, <2>1, WFMin
<1>3. m # 0 /\ m \in Nat
  OBVIOUS
<1>4. m - 1 \notin T
  <2>1. << m - 1, m >> \in R
    BY <1>3
  <2> HIDE DEF R, T
  <2> QED
    BY <1>2, <2>1
<1> QED
  BY <1>3, <1>4

\* What getUSyncDevices() looks up is in the cache.
LEMMA HitsIs ==
  ASSUME NEW c \in [Users -> Seq(Devices)], NEW us \in Seq(Users)
  PROVE  Hits(c, us) \in 0..Len(us)
<1> DEFINE Hit(n) == /\ \A i \in 1..n : c[us[i]] # << >>
                     /\ n = Len(us) \/ c[us[n + 1]] = << >>
           S == {n \in Nat : n <= Len(us) => \A i \in 1..n : c[us[i]] # << >>}
<1>1. \E n \in 0..Len(us) : Hit(n)
  <2> SUFFICES ASSUME \A n \in 0..Len(us) : ~Hit(n) PROVE FALSE
    OBVIOUS
  <2>1. 0 \in S
    OBVIOUS
  <2>2. ASSUME NEW n \in Nat, n \in S PROVE n + 1 \in S
    <3> SUFFICES ASSUME n + 1 <= Len(us), NEW i \in 1..(n + 1) PROVE c[us[i]] # << >>
      OBVIOUS
    <3>1. n \in 0..Len(us) /\ n # Len(us) /\ \A k \in 1..n : c[us[k]] # << >>
      BY <2>2
    <3>2. c[us[n + 1]] # << >>
      BY <3>1
    <3>3. i = n + 1 \/ i \in 1..n
      BY <3>1
    <3> QED
      BY <3>1, <3>2, <3>3
  <2>3. \A n \in Nat : n \in S
    <3> HIDE DEF S
    <3> QED
      BY <2>1, <2>2, Induction
  <2>4. Len(us) \in Nat /\ Hit(Len(us))
    BY <2>3
  <2> QED
    BY <2>4
<1>2. Hits(c, us) = CHOOSE n \in 0..Len(us) : Hit(n)
  BY DEF Hits
<1> HIDE DEF Hit
<1> QED
  BY <1>1, <1>2, Zenon

LEMMA FlattenIs ==
  ASSUME NEW S, NEW seqs \in Seq(Seq(S))
  PROVE  FlattenSeq(seqs) \in Seq(S)
<1> DEFINE len == Len(seqs)
           Joined(g, n) == IF n = 1 THEN seqs[n] ELSE g[n - 1] \o seqs[n]
           Flat(g, m) == g = [n \in 1..m |-> Joined(g, n)]
<1>1. CASE len = 0
  BY <1>1 DEF FlattenSeq
<1>2. CASE len # 0
  <2>1. \A m \in Nat : \E g : Flat(g, m)
    <3> DEFINE T == {m \in Nat : \E g : Flat(g, m)}
    <3>1. 0 \in T
      <4>1. Flat([n \in 1..0 |-> << >>], 0)
        OBVIOUS
      <4> QED
        BY <4>1
    <3>2. ASSUME NEW m \in Nat, m \in T PROVE m + 1 \in T
      <4>1. PICK g : Flat(g, m)
        BY <3>2
      <4> DEFINE h == [n \in 1..(m + 1) |-> IF n = m + 1 THEN Joined(g, n) ELSE g[n]]
      <4>2. \A n \in 1..m : g[n] = Joined(g, n) /\ h[n] = g[n]
        <5>1. ASSUME NEW n \in 1..m PROVE g[n] = Joined(g, n)
          <6> HIDE DEF Joined
          <6> QED
            BY <4>1
        <5>2. ASSUME NEW n \in 1..m PROVE h[n] = g[n]
          <6>1. n \in 1..(m + 1) /\ n # m + 1
            OBVIOUS
          <6> HIDE DEF Joined
          <6> QED
            BY <6>1
        <5> QED
          BY <5>1, <5>2
      <4>3. \A n \in 1..(m + 1) : n # 1 => n - 1 \in 1..m
        OBVIOUS
      <4>4. \A n \in 1..(m + 1) : Joined(h, n) = Joined(g, n)
        BY <4>2, <4>3
      <4>5. \A n \in 1..(m + 1) : h[n] = Joined(h, n)
        <5> SUFFICES ASSUME NEW n \in 1..(m + 1) PROVE h[n] = Joined(h, n)
          OBVIOUS
        <5>1. Joined(h, n) = Joined(g, n)
          BY <4>4
        <5>2. CASE n = m + 1
          <6>1. h[n] = Joined(g, n)
            BY <5>2
          <6> QED
            BY <5>1, <6>1
        <5>3. CASE n \in 1..m
          BY <4>2, <5>1, <5>3
        <5> QED
          BY <5>2, <5>3
      <4>6. Flat(h, m + 1)
        BY <4>5
      <4> HIDE DEF Flat
      <4> QED
        BY <4>6
    <3> HIDE DEF T
    <3>3. \A m \in Nat : m \in T
      BY <3>1, <3>2, Induction
    <3> QED
      BY <3>3 DEF T
  <2> DEFINE flatten == CHOOSE g : Flat(g, len)
  <2>2. Flat(flatten, len)
    <3>1. len \in Nat
      OBVIOUS
    <3> HIDE DEF Flat, len
    <3> QED
      BY <2>1, <3>1, Zenon
  <2>3. FlattenSeq(seqs) = flatten[len]
    BY <1>2, Zenon DEF FlattenSeq
  <2>4. \A n \in 1..len : flatten[n] = Joined(flatten, n)
    BY <2>2
  <2>5. len \in Nat \ {0} /\ \A n \in 1..len : seqs[n] \in Seq(S)
    BY <1>2
  <2> DEFINE T == {n \in Nat : n + 1 <= len => flatten[n + 1] \in Seq(S)}
  <2> HIDE DEF flatten, len
  <2>6. 0 \in T
    <3>1. flatten[1] = seqs[1] /\ seqs[1] \in Seq(S)
      BY <2>4, <2>5
    <3> QED
      BY <3>1
  <2>7. ASSUME NEW n \in Nat, n \in T PROVE n + 1 \in T
    <3> SUFFICES ASSUME n + 2 <= len PROVE flatten[n + 2] \in Seq(S)
      OBVIOUS
    <3>1. flatten[n + 2] = flatten[n + 1] \o seqs[n + 2]
      <4>1. n + 2 \in 1..len /\ n + 2 # 1 /\ (n + 2) - 1 = n + 1
        BY <2>5
      <4>2. flatten[n + 2] = Joined(flatten, n + 2)
        BY <2>4, <4>1
      <4> QED
        BY <4>1, <4>2
    <3>2. flatten[n + 1] \in Seq(S) /\ seqs[n + 2] \in Seq(S)
      BY <2>5, <2>7
    <3> QED
      BY <3>1, <3>2, ConcatProperties
  <2>8. \A n \in Nat : n \in T
    <3> HIDE DEF T
    <3> QED
      BY <2>6, <2>7, Induction
  <2>9. len - 1 \in Nat /\ (len - 1) + 1 = len
    BY <2>5
  <2>10. len - 1 \in T
    BY <2>8, <2>9
  <2> QED
    BY <2>3, <2>9, <2>10
<1> QED
  BY <1>1, <1>2

LEMMA LookupIs ==
  ASSUME NEW c \in [Users -> Seq(Devices)], NEW call \in Call
  PROVE  /\ Lookup(c, call) \in Call
         /\ Lookup(c, call).kind = call.kind /\ Lookup(c, call).to = call.to
         /\ Lookup(c, call).marks = call.marks
<1> DEFINE n == Hits(c, call.users)
           us == SubSeq(call.users, n + 1, Len(call.users))
           found == FlattenSeq([i \in 1..n |-> c[call.users[i]]])
           devs == call.devs \o found
<1>1. call.users \in Seq(Users) /\ call.devs \in Seq(Devices)
  BY DEF Call
<1>2. n \in 0..Len(call.users)
  BY <1>1, HitsIs
<1> HIDE DEF n
<1>3. us \in Seq(Users)
  BY <1>1, <1>2
<1>4. found \in Seq(Devices)
  <2>1. \A i \in 1..n : c[call.users[i]] \in Seq(Devices)
    BY <1>1, <1>2
  <2>2. [i \in 1..n |-> c[call.users[i]]] \in Seq(Seq(Devices))
    BY <1>2, <2>1
  <2> QED
    BY <2>2, FlattenIs
<1> HIDE DEF found
<1>5. devs \in Seq(Devices)
  BY <1>1, <1>4, ConcatProperties
<1>6. Lookup(c, call) = [call EXCEPT !.users = us, !.devs = devs]
  BY DEF Lookup, n, found
<1> HIDE DEF us, devs
<1> QED
  BY <1>3, <1>5, <1>6 DEF Call

LEMMA DevicesAre ==
  ASSUME RelayAssumption, NEW u \in Users
  PROVE  << u, 0 >> \in Devices /\ DevicesOf[u] \in Seq(Devices)
<1> DEFINE own == Range(DevicesOf[u]) \cup {<< u, 0 >>}
<1>1. own \subseteq Devices
  <2>1. own \in { Range(DevicesOf[v]) \cup {<< v, 0 >>} : v \in Users }
    OBVIOUS
  <2> QED
    BY <2>1 DEF Devices
<1>2. DevicesOf[u] \in Seq(Users \X Nat)
  BY DEF RelayAssumption
<1>3. \A i \in 1..Len(DevicesOf[u]) : DevicesOf[u][i] \in Devices
  BY <1>1, <1>2 DEF Range
<1>4. ASSUME NEW s \in Seq(Users \X Nat), \A i \in 1..Len(s) : s[i] \in Devices
      PROVE  s \in Seq(Devices)
  <2>1. Len(s) \in Nat /\ s = [i \in 1..Len(s) |-> s[i]]
    BY LenProperties
  <2>2. [i \in 1..Len(s) |-> s[i]] \in Seq(Devices)
    BY <1>4, <2>1
  <2> QED
    BY <2>1, <2>2
<1> QED
  BY <1>1, <1>2, <1>3, <1>4

LEMMA RecipientsIs ==
  ASSUME NEW devs \in Seq(Devices)
  PROVE  Recipients(devs) \in [Devices -> Nat]
<1>1. ASSUME NEW d PROVE Times(d, devs) \in Nat
  <2>1. IsFiniteSet(1..Len(devs))
    BY FS_Interval
  <2>2. IsFiniteSet({ i \in 1..Len(devs) : devs[i] = d })
    BY <2>1, FS_Subset
  <2> QED
    BY <2>2, FS_CardinalityType DEF Times
<1> QED
  BY <1>1 DEF Recipients

\* A call that enumerates devices, or has them all.
LEMMA EnumeratedIs ==
  ASSUME NEW call \in Call, call.kind = "group" => call.to \in Groups
  PROVE  LET new == Enumerated(call)
         IN  /\ new \in Call /\ Shaped(new)
             /\ new.pc \in {"usync", "ratchet", "validate"}
             /\ new.kind = call.kind /\ new.to = call.to /\ new.marks = call.marks
             /\ new.kind = "group" => new.pc # "validate"
<1>1. CASE call.users # << >>
  <2>1. Enumerated(call) = [call EXCEPT !.pc = "usync"]
    BY <1>1 DEF Enumerated
  <2> QED
    BY <1>1, <2>1 DEF Call, Shaped, Complete
<1>2. CASE call.users = << >> /\ call.kind = "group"
  <2>1. Enumerated(call) = [call EXCEPT !.pc = "ratchet"]
    BY <1>2 DEF Enumerated
  <2> QED
    BY <1>2, <2>1 DEF Call, Shaped, Complete
<1>3. CASE call.users = << >> /\ call.kind # "group"
  <2> DEFINE r == Recipients(call.devs)
  <2>1. Enumerated(call) = [call EXCEPT !.pc = "validate", !.recips = r]
    BY <1>3 DEF Enumerated
  <2>2. r \in [Devices -> Nat]
    BY RecipientsIs DEF Call
  <2> HIDE DEF r
  <2> QED
    BY <1>3, <2>1, <2>2 DEF Call, Shaped, Complete
<1> QED
  BY <1>1, <1>2, <1>3

LEMMA IdleIs == RelayAssumption => Idle \in Call
BY DEF RelayAssumption, Idle, NoTasks, Call

LEMMA EndIs ==
  ASSUME RelayAssumption, NEW call \in Call, NEW how \in Ended
  PROVE  /\ End(call, how) \in Call /\ End(call, how).pc = how
         /\ call.kind = "group" /\ how # "failed" =>
              /\ End(call, how).kind = "group" /\ End(call, how).to = call.to
              /\ End(call, how).devs = call.devs /\ End(call, how).done = call.done
         /\ ~(call.kind = "group" /\ how # "failed") => End(call, how).kind = "none"
<1>1. Idle \in Call /\ Idle.kind = "none"
  BY IdleIs DEF Idle
<1> QED
  BY <1>1 DEF End, Call

-----------------------------------------------------------------------------
\* Whoever was given the key has it for good.
LEMMA GivenGrows ==
  ASSUME RelayInv, NEW s \in Sends, NEW new \in Call, calls' = [calls EXCEPT ![s] = new],
         Gives(calls[s]) => /\ Gives(new) /\ new.to = calls[s].to
                            /\ calls[s].done \subseteq new.done
  PROVE  /\ \A g : Given(g) \subseteq Given(g)'
         /\ Gives(new) => new.done \subseteq Given(new.to)'
<1>1. calls'[s] = new /\ \A t \in Sends \ {s} : calls'[t] = calls[t]
  BY DEF RelayInv, RelayTypes
<1>2. \A g, d : GaveKey(g, d) <=> \E t \in Sends : Gives(calls[t]) /\ calls[t].to = g /\ d \in calls[t].done
  BY DEF GaveKey, Gives
<1>3. \A g, d : GaveKey(g, d)' <=> \E t \in Sends : Gives(calls'[t]) /\ calls'[t].to = g /\ d \in calls'[t].done
  BY DEF GaveKey, Gives
<1>4. \A g, d : GaveKey(g, d) => GaveKey(g, d)'
  BY <1>1, <1>2, <1>3
<1>5. \A d \in new.done : Gives(new) => GaveKey(new.to, d)'
  BY <1>1, <1>3
<1>6. new.done \subseteq Devices
  BY DEF Call
<1> QED
  BY <1>4, <1>5, <1>6 DEF Given

LEMMA MarkedMore ==
  ASSUME NEW call, NEW given, NEW more, given \subseteq more, Marked(call, given)
  PROVE  Marked(call, more)
BY DEF Marked

\* A step of one call.
LEMMA CallMoves ==
  ASSUME RelayInv, NEW s \in Sends, NEW new \in Call, calls' = [calls EXCEPT ![s] = new],
         cache' \in [Users -> Seq(Devices)], sessions' \subseteq Devices,
         mutex' \in [Devices -> Seq(Sends)], memory' \in [Groups -> SUBSET Devices],
         Tasks', Shaped(new),
         Gives(calls[s]) => /\ Gives(new) /\ new.to = calls[s].to
                            /\ calls[s].done \subseteq new.done,
         Marked(new, Given(new.to) \cup IF Gives(new) THEN new.done ELSE {}),
         \A g \in Groups : memory'[g] \subseteq Given(g) \cup
                             IF Gives(new) /\ new.to = g THEN new.done ELSE {}
  PROVE  RelayInv'
<1>1. calls'[s] = new /\ \A t \in Sends \ {s} : calls'[t] = calls[t]
  BY DEF RelayInv, RelayTypes
<1>2. /\ \A g : Given(g) \subseteq Given(g)'
      /\ Gives(new) => new.done \subseteq Given(new.to)'
  BY GivenGrows
<1>3. RelayTypes'
  BY <1>1 DEF RelayInv, RelayTypes
<1>4. ASSUME NEW t \in Sends, NEW g \in Groups, calls'[t].to = g PROVE Marked(calls'[t], Given(g)')
  <2>1. CASE t = s
    <3>1. new.to = g /\ Given(g) \cup (IF Gives(new) THEN new.done ELSE {}) \subseteq Given(g)'
      BY <1>1, <1>2, <1>4, <2>1
    <3>2. Marked(new, Given(g)')
      BY <3>1, MarkedMore
    <3> QED
      BY <1>1, <2>1, <3>2
  <2>2. CASE t # s
    <3>1. calls'[t] = calls[t] /\ Marked(calls[t], Given(g))
      BY <1>1, <1>4, <2>2 DEF RelayInv
    <3>2. Given(g) \subseteq Given(g)'
      BY <1>2
    <3>3. Marked(calls[t], Given(g)')
      BY <3>1, <3>2, MarkedMore
    <3> QED
      BY <3>1, <3>3
  <2> QED
    BY <2>1, <2>2
<1>5. \A g \in Groups : memory'[g] \subseteq Given(g)'
  <2> TAKE g \in Groups
  <2>1. Given(g) \subseteq Given(g)' /\ (Gives(new) /\ new.to = g => new.done \subseteq Given(g)')
    BY <1>2
  <2> QED
    BY <2>1
<1>6. \A t \in Sends, g \in Groups : (calls[t].to = g => Marked(calls[t], Given(g)))'
  BY <1>4 DEF Marked, Targets
<1>7. \A t \in Sends : Shaped(calls[t])'
  <2>1. \A t \in Sends : Shaped(calls'[t])
    BY <1>1 DEF RelayInv
  <2> QED
    BY <2>1 DEF Shaped, Targets
<1> QED
  BY <1>3, <1>5, <1>6, <1>7 DEF RelayInv

\* A call that has no tasks and starts none.
LEMMA Untasked ==
  ASSUME RelayInv, NEW s \in Sends, NEW new \in Call, calls' = [calls EXCEPT ![s] = new],
         calls[s].pc \notin {"encrypt", "failed"}, new.pc # "encrypt", UNCHANGED mutex
  PROVE  Tasks'
<1>1. calls'[s] = new /\ \A t \in Sends \ {s} : calls'[t] = calls[t]
  BY DEF RelayInv, RelayTypes
<1>2. \A d \in Devices : s \notin Range(mutex[d])
  BY DEF RelayInv, Tasks
<1>3. ASSUME NEW t \in Sends
      PROVE  /\ \A d \in Devices : t \in Range(mutex'[d]) => calls'[t].pc \in {"encrypt", "failed"}
             /\ calls'[t].pc = "encrypt" =>
                  \A d \in Targets(calls'[t]) : d \in calls'[t].done \/ t \in Range(mutex'[d])
  BY <1>1, <1>2 DEF RelayInv, Tasks
<1> QED
  BY <1>3 DEF Tasks, Targets

\* Every call begins, and goes on after a query, with devices to enumerate.
LEMMA Enumerates ==
  ASSUME RelayInv, NEW s \in Sends, calls[s].pc \in {"idle", "usync"},
         NEW call \in Call,
         call.kind = "group" => call.to \in Groups /\ call.marks \subseteq Given(call.to),
         calls' = [calls EXCEPT ![s] = Enumerated(call)],
         cache' \in [Users -> Seq(Devices)], UNCHANGED << sessions, memory, mutex >>
  PROVE  RelayInv'
<1> DEFINE new == Enumerated(call)
<1>1. /\ new \in Call /\ Shaped(new) /\ new.pc \in {"usync", "ratchet", "validate"}
      /\ new.kind = call.kind /\ new.to = call.to /\ new.marks = call.marks
      /\ new.kind = "group" => new.pc # "validate"
  BY EnumeratedIs
<1>2. calls' = [calls EXCEPT ![s] = new]
  OBVIOUS
<1> HIDE DEF new
<1>3. Tasks'
  BY <1>1, <1>2, Untasked
<1>4. ~Gives(calls[s]) /\ ~Gives(new)
  BY <1>1 DEF Gives
<1>5. Marked(new, Given(new.to) \cup IF Gives(new) THEN new.done ELSE {})
  BY <1>1 DEF Marked
<1>6. \A g \in Groups : memory'[g] \subseteq Given(g) \cup IF Gives(new) /\ new.to = g THEN new.done ELSE {}
  BY DEF RelayInv
<1>7. sessions' \subseteq Devices /\ mutex' \in [Devices -> Seq(Sends)] /\ memory' \in [Groups -> SUBSET Devices]
  BY DEF RelayInv, RelayTypes
<1> QED
  BY <1>1, <1>2, <1>3, <1>4, <1>5, <1>6, <1>7, CallMoves

LEMMA BeginSteps ==
  ASSUME RelayAssumption, RelayInv, NEW s \in Sends, Begin(s)
  PROVE  RelayInv'
<1>1. calls[s].pc = "idle" /\ UNCHANGED << cache, sessions, memory, mutex >>
      /\ cache \in [Users -> Seq(Devices)]
  BY DEF Begin, CallGroup, CallDirect, CallPeer, CallResend, RelayInv, RelayTypes
<1>2. Idle \in Call /\ Me \in Users
  BY IdleIs DEF RelayAssumption
<1>3. \A u \in Users : << u, 0 >> \in Devices
  BY DevicesAre
<1>4. CASE CallGroup(s)
  <2>1. PICK g \in Groups : \E us \in {Members[g], << >>} :
          calls' = [calls EXCEPT ![s] =
            Enumerated(Lookup(cache, [Idle EXCEPT !.kind = "group", !.to = g,
                                                  !.users = us, !.marks = memory[g]]))]
    BY <1>4 DEF CallGroup
  <2>2. PICK us \in {Members[g], << >>} :
          calls' = [calls EXCEPT ![s] =
            Enumerated(Lookup(cache, [Idle EXCEPT !.kind = "group", !.to = g,
                                                  !.users = us, !.marks = memory[g]]))]
    BY <2>1
  <2> DEFINE call == [Idle EXCEPT !.kind = "group", !.to = g, !.users = us, !.marks = memory[g]]
             found == Lookup(cache, call)
  <2>3. us \in Seq(Users) /\ memory[g] \subseteq Devices /\ memory[g] \subseteq Given(g)
    <3>1. Members[g] \in Seq(Users) /\ << >> \in Seq(Users)
      BY DEF RelayAssumption
    <3>2. memory[g] \subseteq Devices
      BY DEF RelayInv, RelayTypes
    <3> QED
      BY <3>1, <3>2 DEF RelayInv
  <2>4. call \in Call /\ call.kind = "group" /\ call.to = g /\ call.marks = memory[g]
    BY <1>2, <2>3 DEF Call
  <2>5. calls' = [calls EXCEPT ![s] = Enumerated(found)]
    BY <2>2
  <2> HIDE DEF call
  <2>6. found \in Call /\ found.kind = "group" /\ found.to = g /\ found.marks = memory[g]
    BY <1>1, <2>4, LookupIs
  <2> HIDE DEF found
  <2> QED
    BY <1>1, <2>3, <2>5, <2>6, Enumerates
<1>5. CASE CallDirect(s)
  <2>1. PICK u \in Users :
          calls' = [calls EXCEPT ![s] =
            Enumerated(Lookup(cache, [Idle EXCEPT !.kind = "direct", !.to = u,
                                                  !.users = << Me, u >>]))]
    BY <1>5 DEF CallDirect
  <2> DEFINE call == [Idle EXCEPT !.kind = "direct", !.to = u, !.users = << Me, u >>]
             found == Lookup(cache, call)
  <2>2. call \in Call /\ call.kind = "direct"
    <3>1. << Me, u >> \in Seq(Users)
      BY <1>2
    <3> QED
      BY <1>2, <3>1 DEF Call
  <2>3. calls' = [calls EXCEPT ![s] = Enumerated(found)]
    BY <2>1
  <2> HIDE DEF call
  <2>4. found \in Call /\ found.kind = "direct"
    BY <1>1, <2>2, LookupIs
  <2> HIDE DEF found
  <2> QED
    BY <1>1, <2>3, <2>4, Enumerates
<1>6. CASE CallPeer(s)
  <2>1. PICK u \in Users :
          calls' = [calls EXCEPT ![s] =
            Enumerated([Idle EXCEPT !.kind = "peer", !.to = u,
              !.devs = << << u, 0 >> >> \o IF u = Me THEN << >> ELSE << << Me, 0 >> >>])]
    BY <1>6 DEF CallPeer
  <2> DEFINE devs == << << u, 0 >> >> \o IF u = Me THEN << >> ELSE << << Me, 0 >> >>
             call == [Idle EXCEPT !.kind = "peer", !.to = u, !.devs = devs]
  <2>2. devs \in Seq(Devices)
    <3>1. << << u, 0 >> >> \in Seq(Devices) /\ << >> \in Seq(Devices) /\ << << Me, 0 >> >> \in Seq(Devices)
      BY <1>2, <1>3
    <3> QED
      BY <3>1, ConcatProperties
  <2>3. calls' = [calls EXCEPT ![s] = Enumerated(call)]
    BY <2>1
  <2> HIDE DEF devs
  <2>4. call \in Call /\ call.kind = "peer"
    BY <1>2, <2>2 DEF Call
  <2> HIDE DEF call
  <2> QED
    BY <1>1, <2>3, <2>4, Enumerates
<1>7. CASE CallResend(s)
  <2>1. PICK d \in Devices :
          calls' = [calls EXCEPT ![s] =
            Enumerated([Idle EXCEPT !.kind = "resend", !.whom = d, !.devs = << d >>])]
    BY <1>7 DEF CallResend
  <2> DEFINE call == [Idle EXCEPT !.kind = "resend", !.whom = d, !.devs = << d >>]
  <2>2. call \in Call /\ call.kind = "resend"
    <3>1. << d >> \in Seq(Devices)
      OBVIOUS
    <3> QED
      BY <1>2, <3>1 DEF Call
  <2>3. calls' = [calls EXCEPT ![s] = Enumerated(call)]
    BY <2>1
  <2> HIDE DEF call
  <2> QED
    BY <1>1, <2>2, <2>3, Enumerates
<1> QED
  BY <1>4, <1>5, <1>6, <1>7 DEF Begin

LEMMA DevicesStep ==
  ASSUME RelayAssumption, RelayInv, NEW s \in Sends, DevicesAnswered(s) \/ DevicesUnknown(s)
  PROVE  RelayInv'
<1> DEFINE u == Head(calls[s].users)
<1>1. /\ calls[s].pc = "usync" /\ UNCHANGED << sessions, memory, mutex >>
      /\ cache \in [Users -> Seq(Devices)] /\ calls[s] \in Call
  BY DEF DevicesAnswered, DevicesUnknown, RelayInv, RelayTypes
<1>2. calls[s].users \in Seq(Users) /\ calls[s].users # << >> /\ calls[s].devs \in Seq(Devices)
  BY <1>1 DEF RelayInv, Shaped, Call
<1>3. u \in Users /\ Tail(calls[s].users) \in Seq(Users)
  BY <1>2, HeadTailProperties
<1>4. << u, 0 >> \in Devices /\ DevicesOf[u] \in Seq(Devices)
  BY <1>3, DevicesAre
<1>5. calls[s].kind = "group" => calls[s].to \in Groups /\ calls[s].marks \subseteq Given(calls[s].to)
  BY <1>1 DEF RelayInv, Shaped, Marked
<1> HIDE DEF u
<1>6. \E found \in Seq(Devices) : /\ cache' \in [Users -> Seq(Devices)]
                                  /\ calls' = [calls EXCEPT ![s] = Enumerated(Lookup(cache', Asked(s, found)))]
  <2>1. CASE DevicesAnswered(s)
    <3>1. PICK found \in {DevicesOf[u], << >>} :
            /\ CacheDevices(s, found)
            /\ calls' = [calls EXCEPT ![s] = Enumerated(Lookup(cache', Asked(s, found)))]
      BY <2>1 DEF DevicesAnswered, u
    <3>2. found \in Seq(Devices) /\ calls[s].devs \o found \in Seq(Devices)
      <4>1. found \in Seq(Devices)
        <5>1. << >> \in Seq(Devices)
          OBVIOUS
        <5> QED
          BY <1>4, <3>1, <5>1
      <4> QED
        BY <1>2, <4>1, ConcatProperties
    <3>3. cache' = cache \/ cache' = [cache EXCEPT ![u] = calls[s].devs \o found]
      BY <3>1 DEF CacheDevices, u
    <3>4. cache' \in [Users -> Seq(Devices)]
      BY <1>1, <3>2, <3>3
    <3> QED
      BY <3>1, <3>2, <3>4
  <2>2. CASE DevicesUnknown(s)
    <3>1. /\ cache' = [cache EXCEPT ![u] = << << u, 0 >> >>]
          /\ calls' = [calls EXCEPT ![s] = Enumerated(Lookup(cache', Asked(s, << << u, 0 >> >>)))]
      BY <2>2 DEF DevicesUnknown, u
    <3>2. << << u, 0 >> >> \in Seq(Devices)
      BY <1>4
    <3> QED
      BY <1>1, <3>1, <3>2
  <2> QED
    BY <2>1, <2>2
<1>7. PICK found \in Seq(Devices) :
        calls' = [calls EXCEPT ![s] = Enumerated(Lookup(cache', Asked(s, found)))]
  BY <1>6
<1>8. PICK c : c = cache' /\ c \in [Users -> Seq(Devices)]
  BY <1>6
<1> DEFINE asked == Asked(s, found)
           call == Lookup(c, asked)
<1>9. asked \in Call /\ asked.kind = calls[s].kind /\ asked.to = calls[s].to /\ asked.marks = calls[s].marks
  <2>1. calls[s].devs \o found \in Seq(Devices)
    BY <1>2, ConcatProperties
  <2>2. asked = [calls[s] EXCEPT !.devs = calls[s].devs \o found, !.users = Tail(calls[s].users)]
    BY DEF Asked
  <2> QED
    BY <1>1, <1>3, <2>1, <2>2 DEF Call
<1> HIDE DEF asked
<1>10. call \in Call /\ call.kind = calls[s].kind /\ call.to = calls[s].to /\ call.marks = calls[s].marks
  BY <1>8, <1>9, LookupIs
<1>11. calls' = [calls EXCEPT ![s] = Enumerated(call)]
  BY <1>7, <1>8 DEF asked
<1> HIDE DEF call
<1> QED
  BY <1>1, <1>5, <1>8, <1>10, <1>11, Enumerates

\* A step that needs no query, and neither starts nor runs a task.
LEMMA AloneMoves ==
  ASSUME RelayInv, NEW s \in Sends, NEW new \in Call, calls' = [calls EXCEPT ![s] = new],
         calls[s].pc \notin {"encrypt", "failed"}, new.pc # "encrypt", Shaped(new),
         Gives(calls[s]) => /\ Gives(new) /\ new.to = calls[s].to
                            /\ calls[s].done \subseteq new.done,
         Marked(new, Given(new.to) \cup IF Gives(new) THEN new.done ELSE {}),
         UNCHANGED << cache, sessions, mutex >>, memory' \in [Groups -> SUBSET Devices],
         \A g \in Groups : memory'[g] \subseteq Given(g) \cup
                             IF Gives(new) /\ new.to = g THEN new.done ELSE {}
  PROVE  RelayInv'
<1>1. Tasks'
  BY Untasked
<1>2. /\ cache' \in [Users -> Seq(Devices)] /\ sessions' \subseteq Devices
      /\ mutex' \in [Devices -> Seq(Sends)]
  BY DEF RelayInv, RelayTypes
<1> QED
  BY <1>1, <1>2, CallMoves

\* The devices that are not marked are marked, and are to be given the key.
LEMMA GroupStep ==
  ASSUME RelayInv, NEW s \in Sends, GroupEncrypted(s)
  PROVE  RelayInv'
<1> DEFINE call == calls[s]
           fresh == { d \in Range(call.devs) : d \notin call.marks /\ ~IsHosted(d) }
           then == IF fresh = {} THEN "remember" ELSE "validate"
           new == [call EXCEPT !.marks = call.marks \cup fresh, !.recips = Once(fresh), !.pc = then]
<1>1. /\ call.pc = "ratchet" /\ UNCHANGED << cache, sessions, memory, mutex >>
      /\ calls' = [calls EXCEPT ![s] = new]
  BY DEF GroupEncrypted
<1>2. call \in Call /\ call.kind = "group" /\ call.to \in Groups
  BY <1>1 DEF RelayInv, RelayTypes, Shaped
<1>3. call.marks \subseteq Given(call.to)
  BY <1>1, <1>2 DEF RelayInv, Marked
<1>4. fresh \subseteq Devices /\ Once(fresh) \in [Devices -> Nat]
  <2>1. \A d \in Range(call.devs) : d \in Devices
    <3>1. call.devs \in Seq(Devices)
      BY <1>2 DEF Call
    <3> QED
      BY <3>1 DEF Range
  <2> QED
    BY <2>1 DEF Once
<1>5. \A d \in Range(call.devs) : IsHosted(d) \/ d \in call.marks \cup fresh
  OBVIOUS
<1>6. then \in {"remember", "validate"} /\ (then = "remember" => fresh = {})
  OBVIOUS
<1> HIDE DEF call, fresh, then
<1>7. /\ new \in Call /\ new.kind = "group" /\ new.to = call.to /\ new.pc = then
      /\ new.devs = call.devs /\ new.marks = call.marks \cup fresh /\ new.recips = Once(fresh)
      /\ new.done = call.done
  BY <1>2, <1>4, <1>6 DEF Call
<1> HIDE DEF new
<1>8. Targets(new) = fresh
  BY <1>4, <1>7 DEF Targets, Once
<1>9. Shaped(new)
  BY <1>2, <1>6, <1>7, <1>8 DEF Shaped, Complete
<1>10. ~Gives(calls[s])
  BY <1>1 DEF Gives, call
<1>11. Marked(new, Given(new.to) \cup IF Gives(new) THEN new.done ELSE {})
  BY <1>3, <1>5, <1>6, <1>7, <1>8 DEF Marked
<1>12. /\ memory' \in [Groups -> SUBSET Devices]
       /\ \A g \in Groups : memory'[g] \subseteq Given(g) \cup
                              IF Gives(new) /\ new.to = g THEN new.done ELSE {}
  BY <1>1 DEF RelayInv, RelayTypes
<1>13. calls[s].pc \notin {"encrypt", "failed"} /\ new.pc # "encrypt"
  BY <1>1, <1>6, <1>7 DEF call
<1> QED
  BY <1>1, <1>7, <1>9, <1>10, <1>11, <1>12, <1>13, AloneMoves

\* What is remembered was given the key.
LEMMA RememberStep ==
  ASSUME RelayInv, NEW s \in Sends, Remember(s)
  PROVE  RelayInv'
<1> DEFINE call == calls[s]
           new == [call EXCEPT !.pc = "send"]
<1>1. /\ call.pc = "remember" /\ UNCHANGED << cache, sessions, mutex >>
      /\ calls' = [calls EXCEPT ![s] = new] /\ memory' = [memory EXCEPT ![call.to] = call.marks]
  BY DEF Remember
<1>2. /\ call \in Call /\ call.kind = "group" /\ call.to \in Groups
      /\ Targets(call) \subseteq call.done
  BY <1>1 DEF RelayInv, RelayTypes, Shaped, Complete
<1>3. /\ call.marks \subseteq Given(call.to)
      /\ \A d \in Range(call.devs) : IsHosted(d) \/ d \in call.marks
  BY <1>1, <1>2 DEF RelayInv, Marked
<1> HIDE DEF call
<1>4. /\ new \in Call /\ new.kind = "group" /\ new.to = call.to /\ new.pc = "send"
      /\ new.devs = call.devs /\ new.marks = call.marks /\ new.recips = call.recips
      /\ new.done = call.done
  BY <1>2 DEF Call
<1> HIDE DEF new
<1>5. Shaped(new)
  BY <1>2, <1>4 DEF Shaped, Complete, Targets
<1>6. Gives(new)
  BY <1>4 DEF Gives
<1>7. Marked(new, Given(new.to) \cup IF Gives(new) THEN new.done ELSE {})
  BY <1>3, <1>4 DEF Marked
<1>8. /\ memory' \in [Groups -> SUBSET Devices]
      /\ \A g \in Groups : memory'[g] \subseteq Given(g) \cup
                             IF Gives(new) /\ new.to = g THEN new.done ELSE {}
  <2>1. call.marks \in SUBSET Devices
    BY <1>2 DEF Call
  <2> QED
    BY <1>1, <1>3, <2>1 DEF RelayInv, RelayTypes
<1>9. /\ calls[s].pc \notin {"encrypt", "failed"} /\ new.pc # "encrypt"
      /\ new.to = calls[s].to /\ calls[s].done \subseteq new.done
  BY <1>1, <1>4 DEF call
<1> QED
  BY <1>1, <1>4, <1>5, <1>6, <1>7, <1>8, <1>9, AloneMoves

\* A call that fails: nothing is promised any more.
LEMMA Fails ==
  ASSUME RelayAssumption, RelayInv, NEW call \in Call
  PROVE  LET new == End(call, "failed")
         IN  /\ new \in Call /\ new.pc = "failed" /\ Shaped(new) /\ ~Gives(new)
             /\ \A given : Marked(new, given)
<1> DEFINE new == End(call, "failed")
<1>1. new \in Call /\ new.pc = "failed" /\ new.kind = "none"
  BY EndIs DEF Ended
<1> HIDE DEF new
<1>2. Shaped(new) /\ ~Gives(new) /\ \A given : Marked(new, given)
  BY <1>1 DEF Shaped, Gives, Marked, Complete
<1> QED
  BY <1>1, <1>2 DEF new

\* What is left of a call at its end.
LEMMA LastSteps ==
  ASSUME RelayAssumption, RelayInv, NEW s \in Sends,
         BundlesRefused(s) \/ Check(s) \/ Reencrypt(s) \/ SendStanza(s)
  PROVE  RelayInv'
<1> DEFINE call == calls[s]
<1>1. /\ call.pc \in {"fetch", "check", "resend", "send"}
      /\ UNCHANGED << cache, sessions, memory, mutex >> /\ call \in Call /\ Shaped(call)
      /\ memory' \in [Groups -> SUBSET Devices]
  BY DEF BundlesRefused, Check, Reencrypt, SendStanza, RelayInv, RelayTypes
<1>2. \A g \in Groups : memory'[g] \subseteq Given(g)
  BY <1>1 DEF RelayInv
<1>3. CASE calls' = [calls EXCEPT ![s] = End(call, "failed")] /\ call.pc # "send"
  <2> DEFINE new == End(call, "failed")
  <2>1. /\ new \in Call /\ new.pc = "failed" /\ Shaped(new) /\ ~Gives(new)
        /\ \A given : Marked(new, given)
    BY <1>1, Fails
  <2>2. calls' = [calls EXCEPT ![s] = new]
    BY <1>3
  <2>3. ~Gives(call)
    BY <1>1, <1>3 DEF Gives
  <2> HIDE DEF new
  <2> QED
    BY <1>1, <1>2, <2>1, <2>2, <2>3, AloneMoves
<1>4. CASE Check(s) /\ calls' = [calls EXCEPT ![s] = [call EXCEPT !.pc = "resend"]]
  <2> DEFINE new == [call EXCEPT !.pc = "resend"]
  <2>1. call.pc = "check" /\ call.kind = "resend" /\ Targets(call) \subseteq call.done
    BY <1>1, <1>4 DEF Check, Shaped, Complete
  <2>2. new \in Call /\ new.pc = "resend" /\ new.kind = "resend" /\ new.recips = call.recips /\ new.done = call.done
    BY <1>1, <2>1 DEF Call
  <2>3. calls' = [calls EXCEPT ![s] = new]
    BY <1>4
  <2> HIDE DEF new
  <2>4. Shaped(new) /\ ~Gives(new) /\ ~Gives(call) /\ \A given : Marked(new, given)
    BY <2>1, <2>2 DEF Shaped, Gives, Marked, Complete, Targets
  <2> QED
    BY <1>1, <1>2, <2>2, <2>3, <2>4, AloneMoves
<1>5. CASE Reencrypt(s) /\ calls' = [calls EXCEPT ![s] = [call EXCEPT !.pc = "send"]]
  <2> DEFINE new == [call EXCEPT !.pc = "send"]
  <2>1. call.pc = "resend" /\ call.kind = "resend" /\ Targets(call) \subseteq call.done
    BY <1>1, <1>5 DEF Reencrypt, Shaped, Complete
  <2>2. new \in Call /\ new.pc = "send" /\ new.kind = "resend" /\ new.recips = call.recips /\ new.done = call.done
    BY <1>1, <2>1 DEF Call
  <2>3. calls' = [calls EXCEPT ![s] = new]
    BY <1>5
  <2> HIDE DEF new
  <2>4. Shaped(new) /\ ~Gives(new) /\ ~Gives(call) /\ \A given : Marked(new, given)
    BY <2>1, <2>2 DEF Shaped, Gives, Marked, Complete, Targets
  <2> QED
    BY <1>1, <1>2, <2>2, <2>3, <2>4, AloneMoves
<1>6. CASE SendStanza(s)
  <2>1. PICK end \in {"sent", "unsent"} : calls' = [calls EXCEPT ![s] = End(call, end)]
    BY <1>6 DEF SendStanza
  <2> DEFINE new == End(call, end)
  <2>2. call.pc = "send"
    BY <1>6 DEF SendStanza
  <2>3. /\ new \in Call /\ new.pc = end
        /\ call.kind = "group" => /\ new.kind = "group" /\ new.to = call.to
                                  /\ new.devs = call.devs /\ new.done = call.done
        /\ call.kind # "group" => new.kind = "none"
    BY <1>1, EndIs DEF Ended
  <2>4. calls' = [calls EXCEPT ![s] = new]
    BY <2>1
  <2> HIDE DEF new
  <2>5. Shaped(new)
    BY <1>1, <2>3 DEF Shaped, Complete
  <2>6. call.kind = "group" => /\ call.marks \subseteq Given(call.to)
                               /\ \A d \in Range(call.devs) : IsHosted(d) \/ d \in call.marks
    BY <1>1, <2>2 DEF RelayInv, Shaped, Marked
  <2>7. Marked(new, Given(new.to) \cup IF Gives(new) THEN new.done ELSE {})
    BY <2>3, <2>6 DEF Marked
  <2>8. Gives(call) => Gives(new) /\ new.to = call.to /\ call.done \subseteq new.done
    BY <2>3 DEF Gives
  <2>9. call.pc \notin {"encrypt", "failed"} /\ new.pc # "encrypt"
    BY <2>2, <2>3
  <2>10. \A g \in Groups : memory'[g] \subseteq Given(g) \cup IF Gives(new) /\ new.to = g THEN new.done ELSE {}
    BY <1>2
  <2> QED
    BY <1>1, <2>3, <2>4, <2>5, <2>7, <2>8, <2>9, <2>10, AloneMoves
<1>7. BundlesRefused(s) => calls' = [calls EXCEPT ![s] = End(call, "failed")] /\ call.pc # "send"
  BY DEF BundlesRefused
<1>8. Check(s) => \/ calls' = [calls EXCEPT ![s] = End(call, "failed")] /\ call.pc # "send"
                  \/ calls' = [calls EXCEPT ![s] = [call EXCEPT !.pc = "resend"]]
  BY DEF Check
<1>9. Reencrypt(s) => \/ calls' = [calls EXCEPT ![s] = End(call, "failed")] /\ call.pc # "send"
                      \/ calls' = [calls EXCEPT ![s] = [call EXCEPT !.pc = "send"]]
  BY DEF Reencrypt
<1> QED
  BY <1>3, <1>4, <1>5, <1>6, <1>7, <1>8, <1>9

-----------------------------------------------------------------------------
LEMMA AppendedIs ==
  ASSUME NEW S, NEW q \in Seq(S), NEW s \in S, NEW n \in Nat
  PROVE  LET r == q \o [i \in 1..n |-> s]
         IN  r \in Seq(S) /\ Range(r) = Range(q) \cup IF n = 0 THEN {} ELSE {s}
<1> DEFINE more == [i \in 1..n |-> s]
           r == q \o more
<1>1. more \in Seq(S) /\ Len(more) = n /\ \A i \in 1..n : more[i] = s
  OBVIOUS
<1> HIDE DEF more
<1>2. /\ r \in Seq(S) /\ Len(r) = Len(q) + n /\ Len(q) \in Nat
      /\ \A i \in 1..Len(q) : r[i] = q[i]
      /\ \A i \in 1..n : r[Len(q) + i] = s
  <2>1. /\ r \in Seq(S) /\ Len(r) = Len(q) + Len(more)
        /\ \A i \in 1..Len(r) : r[i] = IF i <= Len(q) THEN q[i] ELSE more[i - Len(q)]
    BY <1>1, ConcatProperties
  <2>2. Len(q) \in Nat
    OBVIOUS
  <2> HIDE DEF r
  <2>3. Len(r) = Len(q) + n
    BY <1>1, <2>1
  <2>4. \A i \in 1..Len(q) : i \in 1..Len(r) /\ i <= Len(q)
    BY <2>2, <2>3
  <2>5. \A i \in 1..Len(q) : r[i] = q[i]
    BY <2>1, <2>4
  <2>6. ASSUME NEW i \in 1..n PROVE r[Len(q) + i] = s
    <3>1. Len(q) + i \in 1..Len(r) /\ ~(Len(q) + i <= Len(q)) /\ (Len(q) + i) - Len(q) = i
      BY <2>2, <2>3
    <3>2. r[Len(q) + i] = more[i]
      BY <2>1, <3>1
    <3> QED
      BY <1>1, <3>2
  <2> QED
    BY <2>1, <2>2, <2>3, <2>5, <2>6
<1> HIDE DEF r
<1>3. ASSUME NEW e \in Range(r) PROVE e \in Range(q) \cup IF n = 0 THEN {} ELSE {s}
  <2>1. PICK i \in 1..Len(r) : e = r[i]
    BY <1>2 DEF Range
  <2>2. CASE i \in 1..Len(q)
    BY <1>2, <2>1, <2>2 DEF Range
  <2>3. CASE i \notin 1..Len(q)
    <3>1. i - Len(q) \in 1..n /\ Len(q) + (i - Len(q)) = i
      BY <1>2, <2>3
    <3>2. e = s /\ n # 0
      BY <1>2, <2>1, <3>1
    <3> QED
      BY <3>2
  <2> QED
    BY <2>2, <2>3
<1>4. ASSUME NEW e \in Range(q) PROVE e \in Range(r)
  <2>1. PICK i \in 1..Len(q) : e = q[i]
    BY DEF Range
  <2>2. i \in 1..Len(r) /\ r[i] = e
    BY <1>2, <2>1
  <2> QED
    BY <1>2, <2>2 DEF Range
<1>5. n # 0 => s \in Range(r)
  <2> SUFFICES ASSUME n # 0 PROVE s \in Range(r)
    OBVIOUS
  <2>1. Len(q) + 1 \in 1..Len(r) /\ 1 \in 1..n
    BY <1>2
  <2>2. r[Len(q) + 1] = s
    BY <1>2, <2>1
  <2> QED
    BY <1>2, <2>1, <2>2 DEF Range
<1> QED
  BY <1>2, <1>3, <1>4, <1>5 DEF r, more

\* The tasks of a call join the mutexes, or there are none to wait for.
LEMMA TasksStart ==
  ASSUME RelayAssumption, RelayInv, NEW s \in Sends, calls[s].pc \in {"validate", "fetch"},
         StartTasks(s), UNCHANGED << cache, memory >>, sessions' \subseteq Devices
  PROVE  RelayInv'
<1> DEFINE call == calls[s]
           then == IF Targets(call) = {} THEN AfterNodes(call) ELSE "encrypt"
           new == [call EXCEPT !.pc = then, !.missing = {}]
<1>1. /\ call \in Call /\ mutex \in [Devices -> Seq(Sends)] /\ Shaped(call)
      /\ call.kind = "group" => call.to \in Groups
      /\ calls' = [calls EXCEPT ![s] = new]
      /\ mutex' = [d \in Devices |-> mutex[d] \o [i \in 1..call.recips[d] |-> s]]
  BY DEF RelayInv, RelayTypes, Shaped, StartTasks
<1>2. /\ call.pc \in {"validate", "fetch"} /\ ~Gives(call)
      /\ \A d \in Devices : s \notin Range(mutex[d])
  BY DEF RelayInv, Tasks, Gives
<1>3. call.kind = "group" =>
        /\ call.marks \subseteq Given(call.to) \cup Targets(call)
        /\ \A d \in Range(call.devs) : IsHosted(d) \/ d \in call.marks
  BY <1>1, <1>2 DEF RelayInv, Marked
<1>4. /\ then = "encrypt" <=> Targets(call) # {}
      /\ then \in {"remember", "check", "send", "encrypt"}
      /\ then = "remember" => call.kind = "group"
      /\ then = "check" => call.kind = "resend"
  BY DEF AfterNodes
<1>5. /\ mutex' \in [Devices -> Seq(Sends)]
      /\ \A d \in Devices : Range(mutex'[d]) = Range(mutex[d]) \cup IF d \in Targets(call) THEN {s} ELSE {}
  <2>1. ASSUME NEW d \in Devices
        PROVE  /\ mutex'[d] \in Seq(Sends)
               /\ Range(mutex'[d]) = Range(mutex[d]) \cup IF d \in Targets(call) THEN {s} ELSE {}
    <3>1. call.recips[d] \in Nat /\ mutex[d] \in Seq(Sends)
      BY <1>1 DEF Call
    <3>2. mutex'[d] = mutex[d] \o [i \in 1..call.recips[d] |-> s]
      BY <1>1
    <3>3. d \in Targets(call) <=> call.recips[d] # 0
      BY DEF Targets
    <3> DEFINE n == call.recips[d]
               r == mutex[d] \o [i \in 1..n |-> s]
    <3>4. r \in Seq(Sends) /\ Range(r) = Range(mutex[d]) \cup IF n = 0 THEN {} ELSE {s}
      <4>1. n \in Nat
        BY <3>1
      <4>2. PICK q : q = mutex[d] /\ q \in Seq(Sends)
        BY <3>1
      <4> HIDE DEF n
      <4>3. /\ q \o [i \in 1..n |-> s] \in Seq(Sends)
            /\ Range(q \o [i \in 1..n |-> s]) = Range(q) \cup IF n = 0 THEN {} ELSE {s}
        BY ONLY <4>1, <4>2, s \in Sends, AppendedIs
      <4> QED
        BY <4>2, <4>3
    <3>5. mutex'[d] = r
      BY <3>2
    <3> HIDE DEF r
    <3> QED
      BY <3>3, <3>4, <3>5
  <2> HIDE DEF call
  <2> QED
    BY <1>1, <2>1
<1> HIDE DEF call, then
<1>6. /\ new \in Call /\ new.pc = then /\ new.kind = call.kind /\ new.to = call.to
      /\ new.devs = call.devs /\ new.marks = call.marks /\ new.recips = call.recips
      /\ new.done = call.done
  BY <1>1, <1>4 DEF Call
<1> HIDE DEF new
<1>7. Targets(new) = Targets(call)
  BY <1>6 DEF Targets
<1>8. Shaped(new)
  BY <1>1, <1>4, <1>6, <1>7 DEF Shaped, Complete
<1>9. Marked(new, Given(new.to) \cup IF Gives(new) THEN new.done ELSE {})
  BY <1>3, <1>4, <1>6, <1>7 DEF Marked
<1>10. Tasks'
  <2>1. calls'[s] = new /\ \A t \in Sends \ {s} : calls'[t] = calls[t]
    BY <1>1 DEF RelayInv, RelayTypes
  <2> SUFFICES ASSUME NEW t \in Sends
               PROVE  /\ \A d \in Devices : t \in Range(mutex'[d]) => calls'[t].pc \in {"encrypt", "failed"}
                      /\ calls'[t].pc = "encrypt" =>
                           \A d \in Targets(calls'[t]) : d \in calls'[t].done \/ t \in Range(mutex'[d])
    BY DEF Tasks, Targets
  <2>2. CASE t = s
    <3>1. \A d \in Devices : s \in Range(mutex'[d]) => d \in Targets(call)
      BY <1>2, <1>5
    <3>2. \A d \in Targets(call) : d \in Devices /\ s \in Range(mutex'[d])
      BY <1>5 DEF Targets
    <3> QED
      BY <1>4, <1>6, <1>7, <2>1, <2>2, <3>1, <3>2
  <2>3. CASE t # s
    <3>1. calls'[t] = calls[t]
      BY <2>1, <2>3
    <3>2. \A d \in Devices : t \in Range(mutex'[d]) <=> t \in Range(mutex[d])
      BY <1>5, <2>3
    <3>3. \A d \in Targets(calls[t]) : d \in Devices
      BY DEF Targets
    <3> QED
      BY <3>1, <3>2, <3>3 DEF RelayInv, Tasks
  <2> QED
    BY <2>2, <2>3
<1>11. /\ cache' \in [Users -> Seq(Devices)] /\ memory' \in [Groups -> SUBSET Devices]
       /\ \A g \in Groups : memory'[g] \subseteq Given(g) \cup
                              IF Gives(new) /\ new.to = g THEN new.done ELSE {}
  BY DEF RelayInv, RelayTypes
<1> QED
  BY <1>1, <1>2, <1>5, <1>6, <1>8, <1>9, <1>10, <1>11, CallMoves DEF call

\* Validate, and the answer to the query for what is missing.
LEMMA SessionSteps ==
  ASSUME RelayAssumption, RelayInv, NEW s \in Sends, Validate(s) \/ BundlesAnswered(s)
  PROVE  RelayInv'
<1> DEFINE call == calls[s]
           missing == Targets(call) \ sessions
<1>1. call \in Call /\ Shaped(call) /\ sessions \subseteq Devices
  BY DEF RelayInv, RelayTypes
<1>2. CASE Validate(s) /\ missing = {}
  <2>1. call.pc = "validate" /\ StartTasks(s) /\ UNCHANGED << cache, sessions, memory >>
    BY <1>2 DEF Validate
  <2> QED
    BY <1>1, <2>1, TasksStart
<1>3. CASE Validate(s) /\ missing # {}
  <2> DEFINE new == [call EXCEPT !.pc = "fetch", !.missing = missing]
  <2>1. /\ call.pc = "validate" /\ UNCHANGED << cache, sessions, memory, mutex >>
        /\ calls' = [calls EXCEPT ![s] = new]
    BY <1>3 DEF Validate
  <2>2. missing \subseteq Devices
    BY DEF Targets
  <2>3. call.kind = "group" => call.to \in Groups
    BY <1>1 DEF Shaped
  <2>4. Marked(call, Given(call.to))
    BY <2>3 DEF RelayInv, Marked
  <2> HIDE DEF call, missing
  <2>5. /\ new \in Call /\ new.pc = "fetch" /\ new.kind = call.kind /\ new.to = call.to
        /\ new.devs = call.devs /\ new.marks = call.marks /\ new.recips = call.recips
    BY <1>1, <2>2 DEF Call
  <2> HIDE DEF new
  <2>6. Shaped(new) /\ ~Gives(new) /\ ~Gives(call)
    BY <1>1, <2>1, <2>5 DEF Shaped, Gives, Complete
  <2>7. Marked(new, Given(new.to) \cup IF Gives(new) THEN new.done ELSE {})
    BY <2>1, <2>4, <2>5 DEF Marked, Targets
  <2>8. /\ memory' \in [Groups -> SUBSET Devices]
        /\ \A g \in Groups : memory'[g] \subseteq Given(g) \cup
                               IF Gives(new) /\ new.to = g THEN new.done ELSE {}
    BY <2>1 DEF RelayInv, RelayTypes
  <2>9. calls[s].pc \notin {"encrypt", "failed"} /\ new.pc # "encrypt" /\ ~Gives(calls[s])
    BY <2>1, <2>5, <2>6 DEF call
  <2> QED
    BY <2>1, <2>5, <2>6, <2>7, <2>8, <2>9, AloneMoves
<1>4. CASE BundlesAnswered(s)
  <2>1. PICK got \in SUBSET call.missing : sessions' = sessions \cup got
    BY <1>4 DEF BundlesAnswered
  <2>2. call.pc = "fetch" /\ StartTasks(s) /\ UNCHANGED << cache, memory >>
    BY <1>4 DEF BundlesAnswered
  <2>3. sessions' \subseteq Devices
    BY <1>1, <2>1 DEF Call
  <2> QED
    BY <2>2, <2>3, TasksStart
<1> QED
  BY <1>2, <1>3, <1>4

LEMMA TailIs ==
  ASSUME NEW S, NEW q \in Seq(S), q # << >>
  PROVE  /\ Head(q) \in S /\ Tail(q) \in Seq(S)
         /\ Range(q) = {Head(q)} \cup Range(Tail(q))
<1>1. /\ Head(q) \in S /\ Tail(q) \in Seq(S) /\ Head(q) = q[1]
      /\ Len(q) \in Nat \ {0} /\ Len(Tail(q)) = Len(q) - 1
      /\ \A i \in 1..Len(Tail(q)) : Tail(q)[i] = q[i + 1]
  BY HeadTailProperties, EmptySeq
<1>2. PICK r : r = Tail(q)
  OBVIOUS
<1>3. /\ r \in Seq(S) /\ Len(r) = Len(q) - 1 /\ \A i \in 1..Len(r) : r[i] = q[i + 1]
  BY <1>1, <1>2
<1>4. ASSUME NEW e \in Range(q) PROVE e \in {Head(q)} \cup Range(r)
  <2>1. PICK i \in 1..Len(q) : e = q[i]
    BY DEF Range
  <2>2. CASE i = 1
    BY <1>1, <2>1, <2>2
  <2>3. CASE i # 1
    <3>1. i - 1 \in 1..Len(r) /\ (i - 1) + 1 = i
      BY <1>1, <1>3, <2>3
    <3>2. r[i - 1] = e
      BY <1>3, <2>1, <3>1
    <3> QED
      BY <1>3, <3>1, <3>2 DEF Range
  <2> QED
    BY <2>2, <2>3
<1>5. ASSUME NEW e \in Range(r) PROVE e \in Range(q)
  <2>1. PICK i \in 1..Len(r) : e = r[i]
    BY <1>3 DEF Range
  <2>2. i + 1 \in 1..Len(q) /\ q[i + 1] = e
    BY <1>1, <1>3, <2>1
  <2> QED
    BY <2>2 DEF Range
<1>6. Head(q) \in Range(q)
  BY <1>1 DEF Range
<1> QED
  BY <1>1, <1>2, <1>4, <1>5, <1>6

\* The task at the head of the mutex of a device.
LEMMA TaskStep ==
  ASSUME RelayAssumption, RelayInv, NEW d \in Devices, RunTask(d)
  PROVE  RelayInv'
<1> DEFINE s    == Head(mutex[d])
           call == calls[s]
           got  == [call EXCEPT !.done = call.done \cup {d}]
           last == \A e \in Devices : s \notin Range(mutex'[e])
           after == [got EXCEPT !.pc = AfterNodes(got)]
<1>1. /\ mutex \in [Devices -> Seq(Sends)] /\ calls \in [Sends -> Call] /\ mutex[d] # << >>
      /\ UNCHANGED << cache, sessions, memory >> /\ mutex' = [mutex EXCEPT ![d] = Tail(@)]
  BY DEF RelayInv, RelayTypes, RunTask, Release
<1>2. /\ s \in Sends /\ Tail(mutex[d]) \in Seq(Sends)
      /\ Range(mutex[d]) = {s} \cup Range(Tail(mutex[d]))
  BY <1>1, TailIs
<1>3. call \in Call /\ Shaped(call) /\ call.pc \in {"encrypt", "failed"}
  BY <1>1, <1>2 DEF RelayInv, Tasks
<1>4. /\ mutex' \in [Devices -> Seq(Sends)] /\ mutex'[d] = Tail(mutex[d])
      /\ \A e \in Devices \ {d} : mutex'[e] = mutex[e]
  BY <1>1, <1>2
<1>5. /\ cache' \in [Users -> Seq(Devices)] /\ memory' \in [Groups -> SUBSET Devices]
      /\ sessions' \subseteq Devices /\ \A g \in Groups : memory'[g] \subseteq Given(g)
  BY <1>1 DEF RelayInv, RelayTypes
<1>6. \A g \in Groups : call.to = g => Marked(call, Given(g))
  BY <1>2 DEF RelayInv
<1>7. ~Gives(call)
  BY <1>3 DEF Gives
<1>8. /\ \A e \in Devices : Range(mutex'[e]) \subseteq Range(mutex[e])
      /\ \A t \in Sends \ {s}, e \in Devices : t \in Range(mutex[e]) => t \in Range(mutex'[e])
      /\ \A e \in Devices \ {d} : Range(mutex'[e]) = Range(mutex[e])
  BY <1>2, <1>4
<1>9. call.pc = "encrypt" => \A e \in Targets(call) : e \in call.done \/ s \in Range(mutex[e])
  BY <1>2 DEF RelayInv, Tasks
<1>10. calls' = [calls EXCEPT ![s] = IF call.pc # "encrypt" THEN call
                                     ELSE IF d \notin sessions THEN End(call, "failed")
                                     ELSE IF last THEN after ELSE got]
  <2> DEFINE now == Encrypted(call, d)
  <2>2. calls' = [calls EXCEPT ![s] = IF now.pc = "encrypt" /\ last
                                      THEN [now EXCEPT !.pc = AfterNodes(now)] ELSE now]
    BY DEF RunTask
  <2>3. CASE call.pc # "encrypt"
    <3>1. now = call
      BY <2>3 DEF Encrypted
    <3> QED
      BY <2>2, <2>3, <3>1
  <2>4. CASE call.pc = "encrypt" /\ d \notin sessions
    <3>1. now = End(call, "failed")
      BY <2>4 DEF Encrypted
    <3>2. End(call, "failed").pc = "failed"
      BY <1>3, EndIs DEF Ended
    <3> HIDE DEF s, last, now
    <3> QED
      BY <2>2, <2>4, <3>1, <3>2
  <2>5. CASE call.pc = "encrypt" /\ d \in sessions
    <3>1. now = got
      BY <2>5 DEF Encrypted
    <3>2. got.pc = "encrypt"
      BY <1>3, <2>5 DEF Call
    <3> HIDE DEF s, last, now, got
    <3> QED
      BY <2>2, <2>5, <3>1, <3>2
  <2> QED
    BY <2>3, <2>4, <2>5
<1>11. ASSUME NEW new \in Call, calls' = [calls EXCEPT ![s] = new],
              (\E e \in Devices : s \in Range(mutex'[e])) => new.pc \in {"encrypt", "failed"},
              new.pc = "encrypt" => \A e \in Targets(new) : e \in new.done \/ s \in Range(mutex'[e])
       PROVE  Tasks'
  <2>1. calls'[s] = new /\ \A t \in Sends \ {s} : calls'[t] = calls[t]
    BY <1>1, <1>2, <1>11
  <2> SUFFICES ASSUME NEW t \in Sends
               PROVE  /\ \A e \in Devices : t \in Range(mutex'[e]) => calls'[t].pc \in {"encrypt", "failed"}
                      /\ calls'[t].pc = "encrypt" =>
                           \A e \in Targets(calls'[t]) : e \in calls'[t].done \/ t \in Range(mutex'[e])
    BY DEF Tasks, Targets
  <2> HIDE DEF s
  <2>2. CASE t = s
    BY <1>11, <2>1, <2>2
  <2>3. CASE t # s
    <3>1. calls'[t] = calls[t]
      BY <2>1, <2>3
    <3>2. \A e \in Devices : t \in Range(mutex'[e]) <=> t \in Range(mutex[e])
      BY <1>8, <2>3
    <3>3. \A e \in Targets(calls[t]) : e \in Devices
      BY DEF Targets
    <3> QED
      BY <3>1, <3>2, <3>3 DEF RelayInv, Tasks
  <2> QED
    BY <2>2, <2>3
<1>12. CASE call.pc = "failed"
  <2>1. calls' = [calls EXCEPT ![s] = call]
    BY <1>10, <1>12
  <2>2. Marked(call, Given(call.to) \cup IF Gives(call) THEN call.done ELSE {})
    BY <1>12 DEF Marked
  <2>3. Tasks'
    BY <1>3, <1>11, <1>12, <2>1
  <2>4. \A g \in Groups : memory'[g] \subseteq Given(g) \cup IF Gives(call) /\ call.to = g THEN call.done ELSE {}
    BY <1>5
  <2> HIDE DEF s
  <2> QED
    BY <1>2, <1>3, <1>4, <1>5, <1>7, <2>1, <2>2, <2>3, <2>4, CallMoves
<1>13. CASE call.pc = "encrypt" /\ d \notin sessions
  <2> DEFINE new == End(call, "failed")
  <2>1. calls' = [calls EXCEPT ![s] = new]
    BY <1>10, <1>13
  <2>2. /\ new \in Call /\ new.pc = "failed" /\ Shaped(new) /\ ~Gives(new)
        /\ \A given : Marked(new, given)
    BY <1>3, Fails
  <2> HIDE DEF new
  <2>3. Tasks'
    BY <1>11, <2>1, <2>2
  <2>4. \A g \in Groups : memory'[g] \subseteq Given(g) \cup IF Gives(new) /\ new.to = g THEN new.done ELSE {}
    BY <1>5
  <2> HIDE DEF s
  <2> QED
    BY <1>2, <1>4, <1>5, <1>7, <2>1, <2>2, <2>3, <2>4, CallMoves
<1>14. CASE call.pc = "encrypt" /\ d \in sessions
  <2> DEFINE new == IF last THEN after ELSE got
  <2>1. calls' = [calls EXCEPT ![s] = new]
    BY <1>10, <1>14
  <2>2. /\ got \in Call /\ got.pc = "encrypt" /\ got.kind = call.kind
        /\ AfterNodes(got) \in {"remember", "check", "send"}
        /\ AfterNodes(got) = "remember" <=> call.kind = "group"
        /\ AfterNodes(got) = "check" => call.kind = "resend"
    BY <1>3, <1>14 DEF Call, AfterNodes
  <2>3. /\ new \in Call /\ new.kind = call.kind /\ new.to = call.to /\ new.devs = call.devs
        /\ new.marks = call.marks /\ new.recips = call.recips /\ new.done = call.done \cup {d}
        /\ new.pc = IF last THEN AfterNodes(got) ELSE "encrypt"
    <3>1. CASE last
      <4> HIDE DEF last, s
      <4> QED
        BY <1>3, <2>2, <3>1 DEF Call
    <3>2. CASE ~last
      <4> HIDE DEF last, s
      <4> QED
        BY <1>3, <2>2, <3>2 DEF Call
    <3> QED
      BY <3>1, <3>2
  <2> DEFINE then == AfterNodes(got)
  <2> HIDE DEF new, got
  <2>4. \A e \in Targets(new) : e \in Devices /\ (e \in new.done \/ s \in Range(mutex'[e]))
    <3> SUFFICES ASSUME NEW e \in Targets(new) PROVE e \in Devices /\ (e \in new.done \/ s \in Range(mutex'[e]))
      OBVIOUS
    <3>1. e \in Targets(call) /\ e \in Devices
      BY <2>3 DEF Targets
    <3>2. CASE e = d
      BY <2>3, <3>1, <3>2
    <3>3. CASE e # d
      BY <1>8, <1>9, <1>14, <2>3, <3>1, <3>3
    <3> QED
      BY <3>2, <3>3
  <2>5. last => Targets(new) \subseteq new.done
    BY <2>4
  <2>6. (\E e \in Devices : s \in Range(mutex'[e])) => new.pc = "encrypt"
    BY <2>3
  <2>7. Tasks'
    BY <1>11, <2>1, <2>3, <2>4, <2>6
  <2>8. call.kind = "group" =>
          /\ call.to \in Groups /\ call.marks \subseteq Given(call.to) \cup Targets(call)
          /\ \A e \in Range(call.devs) : IsHosted(e) \/ e \in call.marks
    BY <1>3, <1>6, <1>14 DEF Shaped, Marked
  <2> HIDE DEF s, last, then
  <2>9. Shaped(new)
    <3>1. call.kind = "group" => call.to \in Groups
      BY <1>3 DEF Shaped
    <3> QED
      BY <2>2, <2>3, <2>5, <3>1 DEF Shaped, Complete, then
  <2>10. Marked(new, Given(new.to) \cup IF Gives(new) THEN new.done ELSE {})
    <3>1. Targets(new) = Targets(call)
      BY <2>3 DEF Targets
    <3>2. CASE last
      BY <2>2, <2>3, <2>5, <2>8, <3>1, <3>2 DEF Marked, Gives
    <3>3. CASE ~last
      BY <2>3, <2>8, <3>1, <3>3 DEF Marked, Gives
    <3> QED
      BY <3>2, <3>3
  <2>11. \A g \in Groups : memory'[g] \subseteq Given(g) \cup IF Gives(new) /\ new.to = g THEN new.done ELSE {}
    BY <1>5
  <2> QED
    BY <1>2, <1>4, <1>5, <1>7, <2>1, <2>3, <2>7, <2>9, <2>10, <2>11, CallMoves
<1> QED
  BY <1>3, <1>12, <1>13, <1>14

\* What happens to a session, or to the device cache, is no step of a call.
LEMMA ElsewhereSteps ==
  ASSUME RelayInv, UNCHANGED << memory, mutex, calls >>,
         cache' \in [Users -> Seq(Devices)], sessions' \subseteq Devices
  PROVE  RelayInv'
<1>1. RelayTypes'
  BY DEF RelayInv, RelayTypes
<1>2. Tasks'
  BY DEF RelayInv, Tasks, Targets
<1>3. \A s \in Sends : Shaped(calls[s])'
  BY DEF RelayInv, Shaped, Targets
<1>4. \A g : Given(g)' = Given(g)
  BY DEF Given, GaveKey
<1>5. \A s \in Sends, g \in Groups : (calls[s].to = g => Marked(calls[s], Given(g)))'
  BY <1>4 DEF RelayInv, Marked, Targets
<1>6. \A g \in Groups : (memory[g] \subseteq Given(g))'
  BY <1>4 DEF RelayInv
<1> QED
  BY <1>1, <1>2, <1>3, <1>5, <1>6 DEF RelayInv

LEMMA RelayStarts == RelayAssumption /\ RelayInit => RelayInv
<1> SUFFICES ASSUME RelayAssumption, RelayInit PROVE RelayInv
  OBVIOUS
<1>1. Idle \in Call /\ Idle.pc = "idle" /\ Idle.kind = "none"
  BY IdleIs DEF Idle
<1>2. /\ \A s \in Sends : calls[s] = Idle
      /\ \A d \in Devices : mutex[d] = << >> /\ Range(mutex[d]) = {}
  BY DEF RelayInit, Range
<1>3. RelayTypes
  <2>1. << >> \in Seq(Devices) /\ << >> \in Seq(Sends)
    OBVIOUS
  <2> QED
    BY <1>1, <2>1 DEF RelayInit, RelayTypes
<1>4. Tasks
  BY <1>1, <1>2 DEF Tasks
<1>5. \A s \in Sends : Shaped(calls[s]) /\ \A given : Marked(calls[s], given)
  BY <1>1, <1>2 DEF Shaped, Complete, Marked
<1>6. \A g \in Groups : memory[g] \subseteq Given(g)
  BY DEF RelayInit
<1> QED
  BY <1>3, <1>4, <1>5, <1>6 DEF RelayInv

LEMMA RelaySteps == RelayAssumption /\ RelayInv /\ [RelayNext]_relayVars => RelayInv'
<1> SUFFICES ASSUME RelayAssumption, RelayInv, [RelayNext]_relayVars PROVE RelayInv'
  OBVIOUS
<1>1. cache \in [Users -> Seq(Devices)] /\ sessions \subseteq Devices
  BY DEF RelayInv, RelayTypes
<1>2. CASE \E s \in Sends : Begin(s)
  BY <1>2, BeginSteps
<1>3. CASE \E s \in Sends : Continue(s)
  BY <1>3, DevicesStep, GroupStep, RememberStep, SessionSteps, LastSteps DEF Continue
<1>4. CASE \E d \in Devices : RunTask(d)
  BY <1>4, TaskStep
<1>5. CASE \E d \in Devices : SessionLost(d)
  <2>1. UNCHANGED << cache, memory, mutex, calls >> /\ sessions' \subseteq Devices
    BY <1>1, <1>5 DEF SessionLost
  <2> QED
    BY <1>1, <2>1, ElsewhereSteps
<1>6. CASE \E u \in Users : CacheExpires(u)
  <2>1. UNCHANGED << sessions, memory, mutex, calls >>
    BY <1>6 DEF CacheExpires
  <2>2. cache' \in [Users -> Seq(Devices)]
    <3>1. << >> \in Seq(Devices)
      OBVIOUS
    <3> QED
      BY <1>1, <1>6, <3>1 DEF CacheExpires
  <2> QED
    BY <1>1, <2>1, <2>2, ElsewhereSteps
<1>7. CASE UNCHANGED relayVars
  BY <1>1, <1>7, ElsewhereSteps DEF relayVars
<1> QED
  BY <1>2, <1>3, <1>4, <1>5, <1>6, <1>7 DEF RelayNext

LEMMA RelayInvariant == RelaySpec => []RelayInv
<1>1. RelayInit => RelayInv
  BY RelayAssumption, RelayStarts
<1>2. RelayInv /\ [RelayNext]_relayVars => RelayInv'
  BY RelayAssumption, RelaySteps
<1> QED
  BY <1>1, <1>2, PTL DEF RelaySpec

\* No stanza leaves with a device it names left without a ciphertext,
\* whatever sessions disappear while the tasks of a call wait in the mutex
\* (send-relay.ts:457).
THEOREM StanzasComplete == RelaySpec => []AllOrNothing
<1>1. RelayInv => AllOrNothing
  BY DEF RelayInv, Shaped, Complete, AllOrNothing
<1> QED
  BY <1>1, RelayInvariant, PTL

\* However many calls overlap, overwrite the memory of a group or fail on the
\* way: a device a group stanza was sent to has been given the sender key by
\* that call or another (send-relay.ts:615).
THEOREM KeysAreGiven == RelaySpec => []KeyReachesTargets
<1>1. RelayInv => KeyReachesTargets
  <2> SUFFICES ASSUME RelayInv, NEW s \in Sends, calls[s].kind = "group", calls[s].pc = "sent",
                      NEW d \in Range(calls[s].devs), ~IsHosted(d)
               PROVE  GaveKey(calls[s].to, d)
    BY DEF KeyReachesTargets
  <2> DEFINE g == calls[s].to
  <2>1. g \in Groups
    BY DEF RelayInv, Shaped
  <2>2. Marked(calls[s], Given(g))
    BY <2>1 DEF RelayInv
  <2>3. d \in Given(g)
    BY <2>2 DEF Marked
  <2> QED
    BY <2>3 DEF Given
<1> QED
  BY <1>1, RelayInvariant, PTL

=============================================================================
