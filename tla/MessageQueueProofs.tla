------------------------- MODULE MessageQueueProofs -------------------------
(***************************************************************************)
(* Proofs about MessageQueue, for every set of messages, every priority    *)
(* and every bound.                                                        *)
(***************************************************************************)
EXTENDS MessageQueue, SequenceTheorems, TLAPS

\* What InsertAt does to each position.
LEMMA InsertAtShape ==
  ASSUME NEW S, NEW s \in Seq(S), NEW i \in 1..(Len(s) + 1), NEW e \in S
  PROVE  /\ InsertAt(s, i, e) \in Seq(S)
         /\ Len(InsertAt(s, i, e)) = Len(s) + 1
         /\ \A k \in 1..(Len(s) + 1) :
              InsertAt(s, i, e)[k] = IF k < i THEN s[k]
                                     ELSE IF k = i THEN e ELSE s[k - 1]
<1> DEFINE L == SubSeq(s, 1, i - 1)
           R == SubSeq(s, i, Len(s))
<1>0. Len(s) \in Nat /\ \A k \in 1..Len(s) : s[k] \in S
  BY LenProperties, ElementOfSeq
<1>1. /\ L \in Seq(S) /\ Len(L) = i - 1
      /\ \A k \in 1..(i - 1) : L[k] = s[k]
  BY <1>0, SubSeqProperties
<1>2. /\ R \in Seq(S) /\ Len(R) = Len(s) - i + 1
      /\ \A k \in 1..(Len(s) - i + 1) : R[k] = s[k + i - 1]
  BY <1>0, SubSeqProperties
<1>3. InsertAt(s, i, e) = (L \o <<e>>) \o R
  BY DEF InsertAt
<1> HIDE DEF L, R
<1>4. /\ <<e>> \in Seq(S) /\ Len(<<e>>) = 1 /\ <<e>>[1] = e
  OBVIOUS
<1> DEFINE Le == L \o <<e>>
<1>5. /\ Le \in Seq(S)
      /\ Len(Le) = i
      /\ \A k \in 1..i : Le[k] = IF k < i THEN s[k] ELSE e
  BY <1>0, <1>1, <1>4, ConcatProperties
<1> HIDE DEF Le
<1>6. /\ Le \o R \in Seq(S)
      /\ Len(Le \o R) = Len(s) + 1
      /\ \A k \in 1..(Len(s) + 1) :
           (Le \o R)[k] = IF k <= i THEN Le[k] ELSE R[k - i]
  <2>1. i \in Nat /\ i + (Len(s) - i + 1) = Len(s) + 1
    BY <1>0
  <2>2. Len(Le) + Len(R) = Len(s) + 1
    BY <1>2, <1>5, <2>1
  <2>3. /\ Le \o R \in Seq(S) /\ Len(Le \o R) = Len(Le) + Len(R)
        /\ \A k \in 1..(Len(Le) + Len(R)) :
             (Le \o R)[k] = IF k <= Len(Le) THEN Le[k] ELSE R[k - Len(Le)]
    <3>1. Le \in Seq(S) /\ R \in Seq(S)
      BY <1>2, <1>5
    <3> QED
      BY <3>1, ConcatProperties
  <2>4. Len(Le) = i
    BY <1>5
  <2> QED
    BY <2>2, <2>3, <2>4
<1>7. ASSUME NEW k \in 1..(Len(s) + 1)
      PROVE  (Le \o R)[k] = IF k < i THEN s[k] ELSE IF k = i THEN e ELSE s[k - 1]
  <2>1. CASE k <= i
    BY <1>0, <1>5, <1>6, <2>1
  <2>2. CASE k > i
    <3>1. k - i \in 1..(Len(s) - i + 1) /\ (k - i) + i - 1 = k - 1
      BY <1>0, <2>2
    <3>2. R[k - i] = s[k - 1]
      BY <1>2, <3>1
    <3> QED
      BY <1>0, <1>6, <2>2, <3>2
  <2>3. k <= i \/ k > i
    BY <1>0
  <2> QED
    BY <2>1, <2>2, <2>3, Zenon
<1> QED
  BY <1>3, <1>6, <1>7 DEF Le

\* shift() drops position 1 and moves the others down.
LEMMA ShiftShape ==
  ASSUME NEW S, NEW s \in Seq(S), s # << >>
  PROVE  /\ Shift(s) \in Seq(S)
         /\ Len(Shift(s)) = Len(s) - 1
         /\ \A k \in 1..(Len(s) - 1) : Shift(s)[k] = s[k + 1]
         /\ Head(s) = s[1]
BY HeadTailProperties, LenProperties DEF Shift

\* Inserting m into a sequence that is sorted by R, where everything before
\* the position is R-before m and everything from it on is R-after m, gives a
\* sequence sorted by R, of m and the elements of the old one.
LEMMA InsertSorted ==
  ASSUME NEW S, NEW s \in Seq(S), NEW m \in S, NEW i \in 1..(Len(s) + 1),
         NEW R \in SUBSET (S \X S),
         \A k, l \in 1..Len(s) : k < l => << s[k], s[l] >> \in R,
         \A k \in 1..Len(s) : k < i => << s[k], m >> \in R,
         \A l \in 1..Len(s) : i <= l => << m, s[l] >> \in R
  PROVE  \A k, l \in 1..Len(InsertAt(s, i, m)) :
           k < l => << InsertAt(s, i, m)[k], InsertAt(s, i, m)[l] >> \in R
<1> DEFINE t == InsertAt(s, i, m)
           n == Len(s)
<1>0. n \in Nat
  BY LenProperties
<1>5. \A k \in 1..(n + 1) : t[k] = IF k < i THEN s[k]
                                   ELSE IF k = i THEN m ELSE s[k - 1]
  BY InsertAtShape
<1>3. i \in 1..(n + 1)
  OBVIOUS
<1>1. t \in Seq(S) /\ Len(t) = n + 1
  BY InsertAtShape
<1>6. /\ \A k, l \in 1..n : k < l => << s[k], s[l] >> \in R
      /\ \A k \in 1..n : k < i => << s[k], m >> \in R
      /\ \A l \in 1..n : i <= l => << m, s[l] >> \in R
  OBVIOUS
<1> HIDE DEF n, t
<1>2. \A k \in 1..(n + 1) : /\ k < i => t[k] = s[k] /\ k \in 1..n
                            /\ k = i => t[k] = m
                            /\ k > i => t[k] = s[k - 1] /\ k - 1 \in 1..n
  BY <1>0, <1>3, <1>5
<1>4. ASSUME NEW k \in 1..(n + 1), NEW l \in 1..(n + 1), k < l
      PROVE  << t[k], t[l] >> \in R
  <2>1. CASE l < i
    <3>1. t[k] = s[k] /\ t[l] = s[l] /\ k \in 1..n /\ l \in 1..n
      BY <1>0, <1>2, <1>3, <1>4, <2>1
    <3> QED
      BY <1>4, <1>6, <3>1
  <2>2. CASE l = i
    <3>1. t[k] = s[k] /\ t[l] = m /\ k \in 1..n /\ k < i
      BY <1>0, <1>2, <1>3, <1>4, <2>2
    <3> QED
      BY <1>4, <1>6, <3>1
  <2>3. CASE l > i
    <3>1. t[l] = s[l - 1] /\ l - 1 \in 1..n /\ i <= l - 1
      BY <1>0, <1>2, <1>3, <1>4, <2>3
    <3>2. CASE k < i
      <4>1. t[k] = s[k] /\ k \in 1..n /\ k < l - 1
        BY <1>0, <1>2, <1>3, <1>4, <2>3, <3>2
      <4> QED
        BY <1>4, <1>6, <3>1, <4>1
    <3>3. CASE k = i
      <4>1. t[k] = m
        BY <1>2, <3>3
      <4> QED
        BY <1>4, <1>6, <3>1, <4>1
    <3>4. CASE k > i
      <4>1. t[k] = s[k - 1] /\ k - 1 \in 1..n /\ k - 1 < l - 1
        BY <1>0, <1>2, <1>3, <1>4, <2>3, <3>4
      <4> QED
        BY <1>4, <1>6, <3>1, <4>1
    <3> QED
      BY <1>0, <1>3, <3>2, <3>3, <3>4
  <2> QED
    BY <1>0, <1>3, <2>1, <2>2, <2>3
<1> QED
  BY <1>1, <1>4 DEF n, t

\* The elements of the new sequence: m and those of the old one.
LEMMA InsertElements ==
  ASSUME NEW S, NEW s \in Seq(S), NEW m \in S, NEW i \in 1..(Len(s) + 1)
  PROVE  /\ \A k \in 1..Len(InsertAt(s, i, m)) :
              InsertAt(s, i, m)[k] = m \/ \E j \in 1..Len(s) : InsertAt(s, i, m)[k] = s[j]
         /\ \A k \in 1..Len(s) :
              \E j \in 1..Len(InsertAt(s, i, m)) : InsertAt(s, i, m)[j] = s[k]
         /\ i \in 1..Len(InsertAt(s, i, m)) /\ InsertAt(s, i, m)[i] = m
<1> DEFINE t == InsertAt(s, i, m)
           n == Len(s)
<1>0. n \in Nat /\ i \in 1..(n + 1)
  BY LenProperties
<1>1. /\ Len(t) = n + 1
      /\ \A k \in 1..(n + 1) : t[k] = IF k < i THEN s[k]
                                      ELSE IF k = i THEN m ELSE s[k - 1]
  BY InsertAtShape, SMTT(30)
<1>2. \A k \in 1..(n + 1) : t[k] = IF k < i THEN s[k]
                                   ELSE IF k = i THEN m ELSE s[k - 1]
  BY <1>1, Zenon
<1> HIDE DEF n, t
<1>3. ASSUME NEW k \in 1..(n + 1)
      PROVE  t[k] = m \/ \E j \in 1..n : t[k] = s[j]
  <2>1. CASE k < i
    <3>1. k \in 1..n /\ t[k] = s[k]
      BY <1>0, <1>2, <2>1
    <3> QED
      BY <3>1
  <2>2. CASE k = i
    BY <1>2, <2>2
  <2>3. CASE k > i
    <3>1. k - 1 \in 1..n /\ t[k] = s[k - 1]
      BY <1>0, <1>2, <2>3
    <3> QED
      BY <3>1
  <2> QED
    BY <1>0, <2>1, <2>2, <2>3
<1>4. ASSUME NEW k \in 1..n PROVE \E j \in 1..(n + 1) : t[j] = s[k]
  <2>1. CASE k < i
    <3>1. k \in 1..(n + 1)
      BY <1>0
    <3> QED
      BY <1>2, <2>1, <3>1
  <2>2. CASE k >= i
    <3>1. k + 1 \in 1..(n + 1) /\ k + 1 > i /\ (k + 1) - 1 = k
      BY <1>0, <2>2
    <3>2. t[k + 1] = s[k]
      BY <1>0, <1>2, <3>1
    <3> QED
      BY <3>1, <3>2
  <2> QED
    BY <1>0, <2>1, <2>2
<1>5. i \in 1..Len(t) /\ t[i] = m
  BY <1>0, <1>1, <1>2
<1> QED
  BY <1>1, <1>3, <1>4, <1>5 DEF n, t

\* TypeOK is not inductive by itself: what a worker adds to the dead letters
\* is a message only because a running worker holds one.
TypeInv == TypeOK /\ \A w \in Messages : pc[w] # "idle" => cur[w] \in Messages

\* A nonempty queue's first entry is a message, and what NextIteration does
\* keeps the worker's variables in their types.
LEMMA NextIterationType ==
  ASSUME TypeInv, NEW w \in Messages, NEW q \in Seq(Messages), NextIteration(w, q)
  PROVE  /\ pc' \in [Messages -> {"idle", "acquiring", "sending", "void"}]
         /\ cur' \in [Messages -> Messages \cup {NoMessage}]
         /\ processing' \in BOOLEAN
         /\ \A v \in Messages : pc'[v] # "idle" => cur'[v] \in Messages
<1> USE DEF TypeInv
<1>1. CASE q # << >>
  <2>1. Head(q) \in Messages
    BY <1>1, HeadTailProperties
  <2>2. /\ pc' = [pc EXCEPT ![w] = "acquiring"]
        /\ cur' = [cur EXCEPT ![w] = Head(q)]
    BY <1>1 DEF NextIteration, Take
  <2>3. processing' \in BOOLEAN
    BY <1>1 DEF TypeOK, NextIteration, Take
  <2> QED
    BY <2>1, <2>2, <2>3 DEF TypeOK
<1>2. CASE q = << >>
  BY <1>2, ZenonT(30) DEF TypeOK, NextIteration
<1> QED
  BY <1>1, <1>2

\* shift() never makes the queue longer.
LEMMA ShiftType ==
  ASSUME TypeInv
  PROVE  Shift(queue) \in Seq(Messages) /\ Len(Shift(queue)) <= MaxSize
<1>1. queue \in Seq(Messages) /\ Len(queue) \in Nat /\ Len(queue) <= MaxSize
  BY LenProperties DEF TypeInv, TypeOK
<1>2. CASE queue = << >>
  BY <1>1, <1>2 DEF Shift
<1>3. CASE queue # << >>
  <2>1. Shift(queue) \in Seq(Messages) /\ Len(Shift(queue)) = Len(queue) - 1
    BY <1>1, <1>3, ShiftShape
  <2> QED
    BY <1>1, <2>1, MessageQueueAssumption
<1> QED
  BY <1>2, <1>3

\* DeadLetterQueue.add keeps its list within its capacity.
LEMMA AddDeadType ==
  ASSUME TypeInv, NEW m \in Messages, AddDead(m)
  PROVE  dead' \in Seq(Messages) /\ Len(dead') <= MaxDead
<1>1. dead \in Seq(Messages) /\ Len(dead) \in Nat /\ Len(dead) <= MaxDead
  BY LenProperties DEF TypeInv, TypeOK
<1>2. MaxDead \in Nat /\ MaxDead > 0
  BY MessageQueueAssumption
<1>3. CASE Len(dead) >= MaxDead
  <2>1. dead # << >>
    BY <1>1, <1>2, <1>3
  <2>2. Tail(dead) \in Seq(Messages) /\ Len(Tail(dead)) = Len(dead) - 1
    BY <1>1, <2>1, HeadTailProperties
  <2>3. dead' = Append(Tail(dead), m)
    BY <1>3 DEF AddDead
  <2>4. dead' \in Seq(Messages) /\ Len(dead') = Len(Tail(dead)) + 1
    BY <2>2, <2>3, AppendProperties
  <2> QED
    BY <1>1, <1>2, <2>2, <2>4
<1>4. CASE ~(Len(dead) >= MaxDead)
  <2>1. dead' = Append(dead, m)
    BY <1>4 DEF AddDead
  <2>2. dead' \in Seq(Messages) /\ Len(dead') = Len(dead) + 1
    BY <1>1, <2>1, AppendProperties
  <2> QED
    BY <1>1, <1>2, <1>4, <2>2
<1> QED
  BY <1>3, <1>4

\* TypeInv is inductive.
LEMMA TypeInvCorrect == Spec => []TypeInv
<1>1. Init => TypeInv
  <2> SUFFICES ASSUME Init PROVE TypeInv
    OBVIOUS
  <2>1. /\ queue \in Seq(Messages) /\ Len(queue) <= MaxSize
        /\ dead \in Seq(Messages) /\ Len(dead) <= MaxDead
    BY EmptySeq, MessageQueueAssumption DEF Init
  <2>2. /\ attempts \in [Messages -> Nat]
        /\ enqueuedAt \in [Messages -> Nat]
        /\ delivered \in [Messages -> Nat]
    BY DEF Init
  <2> QED
    BY <2>1, <2>2 DEF Init, TypeOK, TypeInv
<1>2. TypeInv /\ [Next]_vars => TypeInv'
  <2> SUFFICES ASSUME TypeInv, [Next]_vars PROVE TypeInv'
    OBVIOUS
  <2> USE DEF TypeOK, TypeInv
  <2>1. ASSUME NEW m \in Messages, Enqueue(m) PROVE TypeInv'
    <3>1. PICK i \in 1..(Len(queue) + 1) : queue' = InsertAt(queue, i, m)
      BY <2>1 DEF Enqueue
    <3>2. queue' \in Seq(Messages) /\ Len(queue') <= MaxSize
      <4>1. queue' \in Seq(Messages) /\ Len(queue') = Len(queue) + 1
        BY <3>1, InsertAtShape
      <4>2. Len(queue) \in Nat /\ Len(queue) < MaxSize
        BY <2>1, LenProperties DEF Enqueue, HasRoom
      <4> QED
        BY <4>1, <4>2, MessageQueueAssumption
    <3>3. /\ pc' \in [Messages -> {"idle", "acquiring", "sending", "void"}]
          /\ cur' \in [Messages -> Messages \cup {NoMessage}]
          /\ processing' \in BOOLEAN
          /\ \A v \in Messages : pc'[v] # "idle" => cur'[v] \in Messages
      <4>1. CASE UNCHANGED worker
        BY <4>1 DEF worker
      <4>2. CASE queue' # << >> /\ processing' = TRUE /\ Take(m, queue')
        <5>1. Head(queue') \in Messages
          BY <3>2, <4>2, HeadTailProperties
        <5> QED
          BY <4>2, <5>1 DEF Take
      <4> QED
        BY <2>1, <4>1, <4>2 DEF Enqueue, ProcessNext
    <3>4. clock' \in Nat /\ enqueuedAt' \in [Messages -> Nat]
      BY <2>1 DEF Enqueue
    <3>5. promise' \in [Messages -> {"none", "pending", "resolved", "rejected"}]
          /\ early' \in SUBSET Messages
      BY <2>1 DEF Enqueue
    <3> QED
      BY <2>1, <3>2, <3>3, <3>4, <3>5 DEF Enqueue
  <2>2. ASSUME NEW m \in Messages, EnqueueFull(m) PROVE TypeInv'
    BY <2>2 DEF EnqueueFull, worker
  <2>3. ASSUME NEW w \in Messages, Acquired(w) PROVE TypeInv'
    <3>1. \A m \in Messages : attempts[m] + 1 \in Nat
      OBVIOUS
    <3>2. attempts' = [m \in Messages |-> IF m = cur[w] THEN attempts[m] + 1
                                          ELSE attempts[m]]
      BY <2>3, Zenon DEF Acquired
    <3>3. attempts' \in [Messages -> Nat]
      BY <3>1, <3>2
    <3> QED
      BY <2>3, <3>3 DEF Acquired
  <2>4. ASSUME NEW w \in Messages, SendSucceeds(w) PROVE TypeInv'
    <3>1. queue' \in Seq(Messages) /\ Len(queue') <= MaxSize
      BY <2>4, ShiftType DEF SendSucceeds
    <3>2. promise' \in [Messages -> {"none", "pending", "resolved", "rejected"}]
      BY <2>4 DEF SendSucceeds, Settle
    <3>3. delivered' \in [Messages -> Nat]
      <4>1. \A m \in Messages : delivered[m] + 1 \in Nat
        OBVIOUS
      <4>2. \/ delivered' = delivered
            \/ delivered' = [m \in Messages |-> IF m = cur[w] THEN delivered[m] + 1
                                               ELSE delivered[m]]
        BY <2>4, Zenon DEF SendSucceeds
      <4> QED
        BY <4>1, <4>2
    <3>4. NextIteration(w, queue')
      BY <2>4 DEF SendSucceeds
    <3> QED
      BY <2>4, <3>1, <3>2, <3>3, <3>4, NextIterationType DEF SendSucceeds
  <2>5. ASSUME NEW w \in Messages, SendFails(w) PROVE TypeInv'
    <3>1. queue' \in Seq(Messages) /\ Len(queue') <= MaxSize
      BY <2>5, ShiftType DEF SendFails
    <3>2. promise' \in [Messages -> {"none", "pending", "resolved", "rejected"}]
      BY <2>5 DEF SendFails, Settle
    <3>3. dead' \in Seq(Messages) /\ Len(dead') <= MaxDead
      BY <2>5, AddDeadType DEF SendFails
    <3>4. NextIteration(w, queue')
      BY <2>5 DEF SendFails
    <3> QED
      BY <2>5, <3>1, <3>2, <3>3, <3>4, NextIterationType DEF SendFails
  <2>6. CASE Clear
    BY <2>6, EmptySeq, MessageQueueAssumption DEF Clear, ClearQueue, worker
  <2>7. CASE Connect
    BY <2>7 DEF Connect, worker
  <2>8. CASE Disconnect
    <3>1. queue' \in Seq(Messages) /\ Len(queue') <= MaxSize
      BY <2>8, EmptySeq, MessageQueueAssumption DEF Disconnect, ClearQueue
    <3>2. promise' \in [Messages -> {"none", "pending", "resolved", "rejected"}]
      BY <2>8 DEF Disconnect, ClearQueue
    <3>3. relay' \in BOOLEAN /\ closing' \in BOOLEAN /\ cleared' \in BOOLEAN
      BY <2>8 DEF Disconnect, ClearQueue
    <3>4. UNCHANGED << sendFn, attempts, enqueuedAt, clock, dead, delivered, early,
                       pc, cur, processing >>
      BY <2>8 DEF Disconnect, worker
    <3> QED
      BY <3>1, <3>2, <3>3, <3>4
  <2>9. CASE HealthServerStopped
    BY <2>9 DEF HealthServerStopped, worker
  <2>10. CASE DrainDead
    BY <2>10, EmptySeq, MessageQueueAssumption DEF DrainDead, worker
  <2>11. CASE UNCHANGED vars
    BY <2>11 DEF vars, worker
  <2> QED
    BY <2>1, <2>2, <2>3, <2>4, <2>5, <2>6, <2>7, <2>8, <2>9, <2>10, <2>11
    DEF Next
<1> QED
  BY <1>1, <1>2, PTL DEF Spec

\* The state always has its declared types.
THEOREM TypeCorrect == Spec => []TypeOK
<1>1. TypeInv => TypeOK
  BY DEF TypeInv
<1> QED
  BY <1>1, TypeInvCorrect, PTL

-----------------------------------------------------------------------------
(***************************************************************************)
(* The order of the queue                                                  *)
(***************************************************************************)

\* Every entry was enqueued before now, by a call that did return a promise:
\* so a new entry is none of those in the queue, and newer than all of them.
Stamped ==
  \A k \in 1..Len(queue) :
    enqueuedAt[queue[k]] < clock /\ promise[queue[k]] # "none"

OrderInv == PriorityFifo /\ Stamped

\* How a step other than enqueue() changes the queue.
QueueShrinks == queue' \in {queue, Shift(queue), << >>}

\* What shift() and clear() leave of the queue is made of entries of the
\* queue, in the same order.
LEMMA ShrinkShape ==
  ASSUME TypeInv, QueueShrinks
  PROVE  \E d \in Nat :
           /\ Len(queue') + d <= Len(queue)
           /\ \A k \in 1..Len(queue') : queue'[k] = queue[k + d]
<1> USE DEF TypeInv, TypeOK
<1>0. Len(queue) \in Nat
  BY LenProperties
<1>1. CASE queue' = queue
  <2>1. Len(queue') + 0 <= Len(queue) /\ \A k \in 1..Len(queue') : queue'[k] = queue[k + 0]
    BY <1>0, <1>1
  <2> QED
    BY <2>1
<1>2. CASE queue # << >> /\ queue' = Shift(queue)
  <2>1. /\ Len(queue') = Len(queue) - 1
        /\ \A k \in 1..(Len(queue) - 1) : queue'[k] = queue[k + 1]
    BY <1>2, ShiftShape
  <2>2. Len(queue') + 1 <= Len(queue) /\ \A k \in 1..Len(queue') : queue'[k] = queue[k + 1]
    BY <1>0, <2>1
  <2> QED
    BY <2>2
<1>3. CASE queue' = << >>
  <2>1. Len(queue') = 0
    BY <1>3
  <2>2. Len(queue') + 0 <= Len(queue) /\ \A k \in 1..Len(queue') : queue'[k] = queue[k + 0]
    BY <1>0, <2>1
  <2> QED
    BY <2>2
<1>4. Shift(queue) = queue \/ queue # << >>
  BY DEF Shift
<1> QED
  BY <1>1, <1>2, <1>3, <1>4 DEF QueueShrinks

\* So a shrinking queue stays ordered, as long as the stamps do not change
\* and no promise is forgotten.
LEMMA ShrinkKeepsOrder ==
  ASSUME TypeInv, OrderInv, QueueShrinks, UNCHANGED << enqueuedAt, clock >>,
         \A m \in Messages : promise[m] # "none" => promise'[m] # "none"
  PROVE  OrderInv'
<1> USE DEF TypeInv, TypeOK
<1>1. PICK d \in Nat : /\ Len(queue') + d <= Len(queue)
                       /\ \A k \in 1..Len(queue') : queue'[k] = queue[k + d]
  BY ShrinkShape
<1>2. queue' \in Seq(Messages)
  <2>1. Shift(queue) \in Seq(Messages)
    BY ShiftShape DEF Shift
  <2> QED
    BY <2>1, EmptySeq DEF QueueShrinks
<1>3. Len(queue') \in Nat /\ Len(queue) \in Nat
  BY <1>2, LenProperties
<1>4. \A k \in 1..Len(queue') : k + d \in 1..Len(queue)
  BY <1>1, <1>3
<1>5. \A k \in 1..Len(queue) : queue[k] \in Messages
  BY ElementOfSeq
<1>6. PriorityFifo'
  <2> SUFFICES ASSUME NEW i \in 1..Len(queue'), NEW j \in 1..Len(queue'), i < j
               PROVE  \/ Weight[queue'[i]] < Weight[queue'[j]]
                      \/ /\ Weight[queue'[i]] = Weight[queue'[j]]
                         /\ enqueuedAt'[queue'[i]] < enqueuedAt'[queue'[j]]
    BY DEF PriorityFifo, Before
  <2>1. i + d < j + d
    BY <1>3
  <2>2. Before(queue[i + d], queue[j + d])
    BY <1>4, <2>1 DEF OrderInv, PriorityFifo
  <2> QED
    BY <1>1, <2>2 DEF Before
<1>7. Stamped'
  <2> SUFFICES ASSUME NEW k \in 1..Len(queue')
               PROVE  enqueuedAt'[queue'[k]] < clock' /\ promise'[queue'[k]] # "none"
    BY DEF Stamped
  <2>1. enqueuedAt[queue[k + d]] < clock /\ promise[queue[k + d]] # "none"
    BY <1>4 DEF OrderInv, Stamped
  <2> QED
    BY <1>1, <1>4, <1>5, <2>1
<1> QED
  BY <1>6, <1>7 DEF OrderInv

\* Every step other than enqueue() leaves the stamps alone, forgets no
\* promise and at most shrinks the queue.
LEMMA OtherStepsShrink ==
  ASSUME TypeInv, [Next]_vars, \A m \in Messages : ~Enqueue(m)
  PROVE  /\ QueueShrinks
         /\ UNCHANGED << enqueuedAt, clock >>
         /\ \A m \in Messages : promise[m] # "none" => promise'[m] # "none"
<1> USE DEF TypeInv, TypeOK, QueueShrinks
<1>1. ASSUME NEW m \in Messages, EnqueueFull(m) PROVE
        /\ QueueShrinks
        /\ UNCHANGED << enqueuedAt, clock >>
        /\ \A n \in Messages : promise[n] # "none" => promise'[n] # "none"
  BY <1>1 DEF EnqueueFull
<1>2. ASSUME NEW w \in Messages, Acquired(w) PROVE
        /\ QueueShrinks
        /\ UNCHANGED << enqueuedAt, clock >>
        /\ \A n \in Messages : promise[n] # "none" => promise'[n] # "none"
  BY <1>2 DEF Acquired
<1>3. ASSUME NEW w \in Messages, SendSucceeds(w) PROVE
        /\ QueueShrinks
        /\ UNCHANGED << enqueuedAt, clock >>
        /\ \A n \in Messages : promise[n] # "none" => promise'[n] # "none"
  BY <1>3 DEF SendSucceeds, Settle
<1>4. ASSUME NEW w \in Messages, SendFails(w) PROVE
        /\ QueueShrinks
        /\ UNCHANGED << enqueuedAt, clock >>
        /\ \A n \in Messages : promise[n] # "none" => promise'[n] # "none"
  BY <1>4 DEF SendFails, Settle
<1>5. CASE Clear \/ Disconnect
  BY <1>5 DEF Clear, Disconnect, ClearQueue
<1>6. CASE Connect \/ HealthServerStopped \/ DrainDead \/ UNCHANGED vars
  BY <1>6 DEF Connect, HealthServerStopped, DrainDead, vars
<1> QED
  BY <1>1, <1>2, <1>3, <1>4, <1>5, <1>6 DEF Next

\* enqueue() puts the new entry after everything as urgent and before
\* everything less urgent.
LEMMA EnqueueKeepsOrder ==
  ASSUME TypeInv, OrderInv, NEW m \in Messages, Enqueue(m)
  PROVE  OrderInv'
<1> DEFINE after == { p \in Messages \X Messages :
                        \/ Weight[p[1]] < Weight[p[2]]
                        \/ /\ Weight[p[1]] = Weight[p[2]]
                           /\ enqueuedAt'[p[1]] < enqueuedAt'[p[2]] }
<1>1. PICK i \in 1..(Len(queue) + 1) : InsertionPoint(m, i) /\ queue' = InsertAt(queue, i, m)
  BY DEF Enqueue
<1>2. queue \in Seq(Messages) /\ Len(queue) \in Nat /\ \A k \in 1..Len(queue) : queue[k] \in Messages
  BY LenProperties, ElementOfSeq DEF TypeInv, TypeOK
<1>3. \A k \in Messages : Weight[k] \in Int
  <2>1. 0..3 \subseteq Int
    OBVIOUS
  <2> QED
    BY <2>1, MessageQueueAssumption
<1>4. enqueuedAt \in [Messages -> Nat] /\ clock \in Nat
  BY DEF TypeInv, TypeOK
<1>5. /\ enqueuedAt' = [enqueuedAt EXCEPT ![m] = clock]
      /\ clock' = clock + 1
      /\ \A k \in Messages : k # m => promise'[k] = promise[k]
      /\ promise[m] = "none"
      /\ promise'[m] # "none"
  BY DEF Enqueue, TypeInv, TypeOK
<1>6. /\ enqueuedAt'[m] = clock
      /\ \A k \in 1..Len(queue) : /\ queue[k] # m
                         /\ enqueuedAt'[queue[k]] = enqueuedAt[queue[k]]
                         /\ enqueuedAt[queue[k]] < clock
                         /\ promise'[queue[k]] # "none"
  BY <1>2, <1>4, <1>5 DEF OrderInv, Stamped
<1>7. \A k, l \in 1..Len(queue) : k < l => Before(queue[k], queue[l])
  BY DEF OrderInv, PriorityFifo
<1>8. \A k, l \in 1..Len(queue) : k < l => << queue[k], queue[l] >> \in after
  BY <1>2, <1>6, <1>7 DEF Before
<1>9. /\ \A k \in 1..Len(queue) : k < i => Weight[queue[k]] <= Weight[m]
      /\ i \in 1..Len(queue) => Weight[queue[i]] > Weight[m]
  BY <1>1, <1>2 DEF InsertionPoint
<1>10. \A k \in 1..Len(queue) : k < i => << queue[k], m >> \in after
  BY <1>2, <1>3, <1>6, <1>9
<1>11. ASSUME NEW l \in 1..Len(queue), i <= l PROVE << m, queue[l] >> \in after
  <2>1. i \in 1..Len(queue) /\ (i = l \/ i < l)
    BY <1>1, <1>2, <1>11
  <2>2. Weight[queue[i]] <= Weight[queue[l]]
    BY <1>2, <1>3, <1>7, <2>1 DEF Before
  <2>3. Weight[m] < Weight[queue[l]]
    BY <1>2, <1>3, <1>9, <2>1, <2>2
  <2> QED
    BY <1>2, <2>3
<1> HIDE DEF after
<1>12. /\ \A k, l \in 1..Len(queue') : k < l => << queue'[k], queue'[l] >> \in after
       /\ \A k \in 1..Len(queue') : queue'[k] = m \/ \E j \in 1..Len(queue) : queue'[k] = queue[j]
  <2> DEFINE t == InsertAt(queue, i, m)
  <2>1. queue \in Seq(Messages) /\ m \in Messages /\ i \in 1..(Len(queue) + 1)
    BY <1>1, <1>2
  <2>2. \A k, l \in 1..Len(t) : k < l => << t[k], t[l] >> \in after
    <3>1. after \in SUBSET (Messages \X Messages)
      BY DEF after
    <3> QED
      BY <1>8, <1>10, <1>11, <2>1, <3>1, InsertSorted
  <2>3. \A k \in 1..Len(t) : t[k] = m \/ \E j \in 1..Len(queue) : t[k] = queue[j]
    BY <2>1, InsertElements
  <2>4. queue' = t
    BY <1>1
  <2> HIDE DEF t
  <2> QED
    BY <2>2, <2>3, <2>4
<1>13. Stamped'
  <2> SUFFICES ASSUME NEW k \in 1..Len(queue')
               PROVE  enqueuedAt'[queue'[k]] < clock' /\ promise'[queue'[k]] # "none"
    BY DEF Stamped
  <2>1. CASE queue'[k] = m
    BY <1>4, <1>5, <1>6, <2>1
  <2>2. CASE \E j \in 1..Len(queue) : queue'[k] = queue[j]
    <3>1. PICK j \in 1..Len(queue) : queue'[k] = queue[j]
      BY <2>2
    <3>2. enqueuedAt[queue[j]] \in Nat
      BY <1>2, <1>4
    <3> QED
      BY <1>4, <1>5, <1>6, <3>1, <3>2
  <2> QED
    BY <1>12, <2>1, <2>2
<1>14. PriorityFifo'
  <2> SUFFICES ASSUME NEW k \in 1..Len(queue'), NEW l \in 1..Len(queue'), k < l
               PROVE  \/ Weight[queue'[k]] < Weight[queue'[l]]
                      \/ /\ Weight[queue'[k]] = Weight[queue'[l]]
                         /\ enqueuedAt'[queue'[k]] < enqueuedAt'[queue'[l]]
    BY DEF PriorityFifo, Before
  <2> QED
    BY <1>12 DEF after
<1> QED
  BY <1>13, <1>14 DEF OrderInv

\* The queue stays ordered by priority and, within a priority, first come
\* first served.
LEMMA OrderInvCorrect == Spec => []OrderInv
<1>1. Init => OrderInv
  BY DEF Init, OrderInv, PriorityFifo, Stamped
<1>2. TypeInv /\ OrderInv /\ [Next]_vars => OrderInv'
  BY EnqueueKeepsOrder, OtherStepsShrink, ShrinkKeepsOrder
<1> QED
  BY <1>1, <1>2, TypeInvCorrect, PTL DEF Spec

\* The array of the queue is ordered whatever enqueue(), clear(),
\* disconnect() and a send in flight do to it (queue/index.ts).
THEOREM QueueOrdered == Spec => []PriorityFifo
<1>1. OrderInv => PriorityFifo
  BY DEF OrderInv
<1> QED
  BY <1>1, OrderInvCorrect, PTL

-----------------------------------------------------------------------------
(***************************************************************************)
(* The worker                                                              *)
(***************************************************************************)

\* The loop test keeps the one worker, or ends it.
LEMMA NextIterationSingle ==
  ASSUME TypeInv, SingleWorker, NEW w \in Messages, NEW q, pc[w] # "idle",
         NextIteration(w, q)
  PROVE  SingleWorker'
<1> USE DEF TypeInv, TypeOK, SingleWorker
<1>1. \A v \in Messages : v # w => pc[v] = "idle"
  OBVIOUS
<1>2. \A v \in Messages : v # w => pc'[v] = "idle"
  BY <1>1 DEF NextIteration, Take
<1>3. processing' <=> pc'[w] # "idle"
  <2>1. CASE q # << >>
    BY <2>1 DEF NextIteration, Take
  <2>2. CASE q = << >>
    BY <2>2 DEF NextIteration
  <2> QED
    BY <2>1, <2>2
<1> QED
  BY <1>2, <1>3

\* At most one call of processNext() is past its guard at a time, and the
\* flag `processing` tells whether one is (queue/index.ts).
THEOREM OneWorker == Spec => []SingleWorker
<1>1. Init => SingleWorker
  BY DEF Init, SingleWorker
<1>2. TypeInv /\ SingleWorker /\ [Next]_vars => SingleWorker'
  <2> SUFFICES ASSUME TypeInv, SingleWorker, [Next]_vars PROVE SingleWorker'
    OBVIOUS
  <2>1. CASE UNCHANGED worker
    BY <2>1 DEF worker, SingleWorker
  <2>2. ASSUME NEW m \in Messages, Enqueue(m) PROVE SingleWorker'
    <3>1. CASE ~processing /\ processing' = TRUE /\ Take(m, queue')
      <4>1. \A v \in Messages : pc[v] = "idle"
        BY <3>1 DEF SingleWorker
      <4>2. \A v \in Messages : pc'[v] # "idle" <=> v = m
        BY <3>1, <4>1 DEF Take, TypeInv, TypeOK
      <4> QED
        BY <3>1, <4>2 DEF SingleWorker
    <3> QED
      BY <2>1, <2>2, <3>1 DEF Enqueue, ProcessNext
  <2>3. ASSUME NEW w \in Messages, Acquired(w) PROVE SingleWorker'
    <3>1. \A v \in Messages : pc'[v] # "idle" <=> pc[v] # "idle"
      BY <2>3 DEF Acquired, TypeInv, TypeOK
    <3> QED
      BY <2>3, <3>1 DEF Acquired, SingleWorker
  <2>4. ASSUME NEW w \in Messages, SendSucceeds(w) \/ SendFails(w) PROVE SingleWorker'
    <3>1. pc[w] # "idle" /\ NextIteration(w, queue')
      BY <2>4 DEF SendSucceeds, SendFails
    <3> QED
      BY <3>1, NextIterationSingle
  <2>5. CASE \E m \in Messages : EnqueueFull(m)
    BY <2>1, <2>5 DEF EnqueueFull
  <2>6. CASE Clear \/ Connect \/ Disconnect \/ HealthServerStopped \/ DrainDead
    BY <2>1, <2>6 DEF Clear, Connect, Disconnect, HealthServerStopped, DrainDead
  <2>7. CASE UNCHANGED vars
    BY <2>1, <2>7 DEF vars, worker
  <2> QED
    BY <2>2, <2>3, <2>4, <2>5, <2>6, <2>7 DEF Next
<1> QED
  BY <1>1, <1>2, TypeInvCorrect, PTL DEF Spec

\* The entry a worker holds was enqueued.
HeldWasEnqueued ==
  \A w \in Messages : pc[w] # "idle" => promise[cur[w]] # "none"

OvertakeInv == OvertakenOnlyByMoreUrgent /\ HeldWasEnqueued

\* An ordered queue holds no entry twice: nothing is before itself.
LEMMA HeadIsUnique ==
  ASSUME TypeInv', OrderInv'
  PROVE  \A j \in 1..Len(queue') : queue'[j] = queue'[1] => j = 1
<1>1. queue' \in Seq(Messages) /\ enqueuedAt' \in [Messages -> Nat]
  BY DEF TypeInv, TypeOK
<1>2. Len(queue') \in Nat /\ \A k \in 1..Len(queue') : queue'[k] \in Messages
  BY <1>1, LenProperties, ElementOfSeq
<1>3. \A m \in Messages : Weight[m] \in Int
  <2>1. 0..3 \subseteq Int
    OBVIOUS
  <2> QED
    BY <2>1, MessageQueueAssumption
<1>4. ASSUME NEW j \in 1..Len(queue'), queue'[j] = queue'[1], j # 1 PROVE FALSE
  <2>1. 1 \in 1..Len(queue') /\ 1 < j
    BY <1>2, <1>4
  <2>2. \/ Weight[queue'[1]] < Weight[queue'[j]]
        \/ enqueuedAt'[queue'[1]] < enqueuedAt'[queue'[j]]
    BY <2>1 DEF OrderInv, PriorityFifo, Before
  <2> QED
    BY <1>1, <1>2, <1>3, <1>4, <2>1, <2>2
<1> QED
  BY <1>4

\* So nothing has overtaken an entry that is taken just now.
LEMMA TakenIsFirst ==
  ASSUME TypeInv', OrderInv', SingleWorker', NEW w \in Messages, queue' # << >>,
         pc'[w] # "idle", cur'[w] = Head(queue')
  PROVE  OvertakeInv'
<1>1. queue' \in Seq(Messages) /\ Len(queue') \in Nat /\ 1 \in 1..Len(queue')
  BY LenProperties, EmptySeq DEF TypeInv, TypeOK
<1>2. Head(queue') = queue'[1]
  OBVIOUS
<1>3. \A v \in Messages : pc'[v] # "idle" => v = w
  BY DEF SingleWorker
<1>4. OvertakenOnlyByMoreUrgent'
  BY <1>1, <1>2, <1>3, HeadIsUnique DEF OvertakenOnlyByMoreUrgent
<1>5. HeldWasEnqueued'
  BY <1>1, <1>2, <1>3 DEF HeldWasEnqueued, OrderInv, Stamped
<1> QED
  BY <1>4, <1>5 DEF OvertakeInv

\* enqueue() puts a new entry ahead of the one being sent only if it is more
\* urgent.
LEMMA EnqueueOvertakes ==
  ASSUME TypeInv, OrderInv, OvertakeInv, NEW m \in Messages, Enqueue(m),
         UNCHANGED worker
  PROVE  OvertakeInv'
<1>1. PICK i \in 1..(Len(queue) + 1) : InsertionPoint(m, i) /\ queue' = InsertAt(queue, i, m)
  BY DEF Enqueue
<1>2. queue \in Seq(Messages) /\ Len(queue) \in Nat /\ \A k \in 1..Len(queue) : queue[k] \in Messages
  BY LenProperties, ElementOfSeq DEF TypeInv, TypeOK
<1>3. \A k \in Messages : Weight[k] \in Int
  <2>1. 0..3 \subseteq Int
    OBVIOUS
  <2> QED
    BY <2>1, MessageQueueAssumption
<1>4. /\ Len(queue') = Len(queue) + 1
      /\ \A k \in 1..(Len(queue) + 1) :
           queue'[k] = IF k < i THEN queue[k] ELSE IF k = i THEN m ELSE queue[k - 1]
  BY <1>1, <1>2, InsertAtShape, SMTT(30)
<1>5. promise[m] = "none" /\ promise' = [promise EXCEPT ![m] = "pending"]
  BY DEF Enqueue
<1>6. pc' = pc /\ cur' = cur
  BY DEF worker
<1>7. HeldWasEnqueued'
  <2>1. \A v \in Messages : promise[v] # "none" => promise'[v] # "none"
    BY <1>5 DEF TypeInv, TypeOK
  <2>2. \A v \in Messages : pc[v] # "idle" => cur[v] \in Messages
    BY DEF TypeInv
  <2> QED
    BY <1>6, <2>1, <2>2 DEF OvertakeInv, HeldWasEnqueued
<1>8. ASSUME NEW w \in Messages, pc[w] # "idle",
             NEW k \in 1..(Len(queue) + 1), NEW j \in 1..(Len(queue) + 1),
             queue'[j] = cur[w], k < j
      PROVE  Weight[queue'[k]] < Weight[cur[w]]
  <2>1. cur[w] # m
    BY <1>5, <1>8 DEF OvertakeInv, HeldWasEnqueued
  <2>2. \A x, y \in 1..Len(queue) :
          queue[y] = cur[w] /\ x < y => Weight[queue[x]] < Weight[cur[w]]
    BY <1>8 DEF OvertakeInv, OvertakenOnlyByMoreUrgent
  <2>3. i \in 1..(Len(queue) + 1) /\ j # i
    BY <1>4, <1>8, <2>1
  <2>4. CASE j < i
    <3>1. /\ k \in 1..Len(queue) /\ j \in 1..Len(queue)
          /\ queue'[k] = queue[k] /\ queue'[j] = queue[j]
      BY <1>2, <1>4, <1>8, <2>3, <2>4
    <3> QED
      BY <1>8, <2>2, <3>1
  <2>5. CASE j > i
    <3>1. j - 1 \in 1..Len(queue) /\ queue[j - 1] = cur[w]
      BY <1>2, <1>4, <1>8, <2>3, <2>5
    <3>2. CASE k < i
      <4>1. k \in 1..Len(queue) /\ k < j - 1 /\ queue'[k] = queue[k]
        BY <1>2, <1>4, <1>8, <2>3, <2>5, <3>2
      <4> QED
        BY <2>2, <3>1, <4>1
    <3>3. CASE k > i
      <4>1. k - 1 \in 1..Len(queue) /\ k - 1 < j - 1 /\ queue'[k] = queue[k - 1]
        BY <1>2, <1>4, <1>8, <2>3, <3>3
      <4> QED
        BY <2>2, <3>1, <4>1
    <3>4. CASE k = i
      <4>1. queue'[k] = m
        BY <1>4, <3>4
      <4>2. i \in 1..Len(queue) /\ i <= j - 1 /\ Weight[m] < Weight[queue[i]]
        BY <1>1, <1>2, <1>3, <2>3, <2>5, <3>1 DEF InsertionPoint
      <4>3. i = j - 1 \/ Weight[queue[i]] <= Weight[queue[j - 1]]
        BY <1>2, <1>3, <3>1, <4>2 DEF OrderInv, PriorityFifo, Before
      <4> QED
        BY <1>2, <1>3, <3>1, <4>1, <4>2, <4>3
    <3> QED
      BY <1>2, <2>3, <3>2, <3>3, <3>4
  <2> QED
    BY <1>2, <2>3, <2>4, <2>5
<1>9. OvertakenOnlyByMoreUrgent'
  BY <1>4, <1>6, <1>8 DEF OvertakenOnlyByMoreUrgent
<1> QED
  BY <1>7, <1>9 DEF OvertakeInv

LEMMA OvertakeInvCorrect == Spec => []OvertakeInv
<1>1. Init => OvertakeInv
  BY DEF Init, OvertakeInv, OvertakenOnlyByMoreUrgent, HeldWasEnqueued
<1>2. TypeInv /\ TypeInv' /\ OrderInv /\ OrderInv' /\ SingleWorker /\ SingleWorker'
        /\ OvertakeInv /\ [Next]_vars => OvertakeInv'
  <2> SUFFICES ASSUME TypeInv, TypeInv', OrderInv, OrderInv', SingleWorker,
                      SingleWorker', OvertakeInv, [Next]_vars
               PROVE  OvertakeInv'
    OBVIOUS
  <2>1. ASSUME NEW m \in Messages, Enqueue(m) PROVE OvertakeInv'
    <3>1. CASE UNCHANGED worker
      BY <2>1, <3>1, EnqueueOvertakes
    <3>2. CASE queue' # << >> /\ Take(m, queue')
      <4>1. pc'[m] # "idle" /\ cur'[m] = Head(queue')
        BY <3>2 DEF Take, TypeInv, TypeOK
      <4> QED
        BY <3>2, <4>1, TakenIsFirst
    <3> QED
      BY <2>1, <3>1, <3>2 DEF Enqueue, ProcessNext
  <2>2. ASSUME NEW w \in Messages, Acquired(w) PROVE OvertakeInv'
    <3>1. \A v \in Messages : pc'[v] # "idle" <=> pc[v] # "idle"
      BY <2>2 DEF Acquired, TypeInv, TypeOK
    <3>2. UNCHANGED << queue, cur, promise >>
      BY <2>2 DEF Acquired
    <3> QED
      BY <3>1, <3>2 DEF OvertakeInv, OvertakenOnlyByMoreUrgent, HeldWasEnqueued
  <2>3. ASSUME NEW w \in Messages, SendSucceeds(w) \/ SendFails(w) PROVE OvertakeInv'
    <3>1. pc[w] # "idle" /\ NextIteration(w, queue')
      BY <2>3 DEF SendSucceeds, SendFails
    <3>2. CASE queue' # << >>
      <4>1. pc'[w] # "idle" /\ cur'[w] = Head(queue')
        BY <3>1, <3>2 DEF NextIteration, Take, TypeInv, TypeOK
      <4> QED
        BY <3>2, <4>1, TakenIsFirst
    <3>3. CASE queue' = << >>
      <4>1. processing' = FALSE
        BY <3>1, <3>3 DEF NextIteration
      <4>2. \A v \in Messages : pc'[v] = "idle"
        BY <4>1 DEF SingleWorker
      <4> QED
        BY <4>2 DEF OvertakeInv, OvertakenOnlyByMoreUrgent, HeldWasEnqueued
    <3> QED
      BY <3>2, <3>3
  <2>4. ASSUME NEW m \in Messages, EnqueueFull(m) PROVE OvertakeInv'
    <3>1. UNCHANGED << queue, pc, cur >>
      BY <2>4 DEF EnqueueFull, worker
    <3>2. \A n \in Messages : promise[n] # "none" => promise'[n] # "none"
      BY <2>4 DEF EnqueueFull, TypeInv, TypeOK
    <3> QED
      BY <3>1, <3>2 DEF OvertakeInv, OvertakenOnlyByMoreUrgent, HeldWasEnqueued, TypeInv
  <2>5. CASE Clear \/ Disconnect
    <3>1. queue' = << >> /\ UNCHANGED << pc, cur >>
      BY <2>5 DEF Clear, Disconnect, ClearQueue, worker
    <3>2. \A n \in Messages : promise[n] # "none" => promise'[n] # "none"
      BY <2>5 DEF Clear, Disconnect, ClearQueue
    <3>3. Len(queue') = 0
      BY <3>1
    <3>4. OvertakenOnlyByMoreUrgent'
      BY <3>3 DEF OvertakenOnlyByMoreUrgent
    <3>5. HeldWasEnqueued'
      BY <3>1, <3>2 DEF OvertakeInv, HeldWasEnqueued, TypeInv
    <3> QED
      BY <3>4, <3>5 DEF OvertakeInv
  <2>6. CASE Connect \/ HealthServerStopped \/ DrainDead \/ UNCHANGED vars
    <3>1. UNCHANGED << queue, pc, cur, promise >>
      BY <2>6 DEF Connect, HealthServerStopped, DrainDead, vars, worker
    <3> QED
      BY <3>1 DEF OvertakeInv, OvertakenOnlyByMoreUrgent, HeldWasEnqueued
  <2> QED
    BY <2>1, <2>2, <2>3, <2>4, <2>5, <2>6 DEF Next
<1> QED
  BY <1>1, <1>2, TypeInvCorrect, OrderInvCorrect, OneWorker, PTL DEF Spec

\* While the worker waits for the rate limiter or for the send, only more
\* urgent messages get ahead of the one it holds (queue/index.ts).
THEOREM NeverOvertakenByEqual == Spec => []OvertakenOnlyByMoreUrgent
<1>1. OvertakeInv => OvertakenOnlyByMoreUrgent
  BY DEF OvertakeInv
<1> QED
  BY <1>1, OvertakeInvCorrect, PTL

-----------------------------------------------------------------------------
(***************************************************************************)
(* What is lost, and what is sent                                          *)
(***************************************************************************)

LEMMA QueueElements ==
  ASSUME NEW s \in Seq(Messages)
  PROVE  \A m : m \in ToSet(s) <=> \E k \in 1..Len(s) : s[k] = m
<1>1. DOMAIN s = 1..Len(s)
  BY LenProperties
<1> QED
  BY <1>1 DEF ToSet

\* In an ordered queue shift() takes the first message out, and no other.
LEMMA ShiftElements ==
  ASSUME TypeInv, OrderInv, queue # << >>
  PROVE  /\ Shift(queue) \in Seq(Messages)
         /\ \A m : m \in ToSet(Shift(queue)) <=> m \in ToSet(queue) /\ m # queue[1]
<1> DEFINE n == Len(queue)
           s == Shift(queue)
<1>1. queue \in Seq(Messages) /\ n \in Nat /\ 1 \in 1..n
  BY LenProperties, EmptySeq DEF TypeInv, TypeOK
<1>2. s \in Seq(Messages) /\ Len(s) = n - 1 /\ \A k \in 1..(n - 1) : s[k] = queue[k + 1]
  BY <1>1, ShiftShape
<1>3. \A j \in 1..n : queue[j] = queue[1] => j = 1
  <2> SUFFICES ASSUME NEW j \in 1..n, queue[j] = queue[1], j # 1 PROVE FALSE
    OBVIOUS
  <2>1. Before(queue[1], queue[j])
    BY <1>1 DEF OrderInv, PriorityFifo
  <2>2. queue[1] \in Messages
    BY <1>1, ElementOfSeq
  <2>3. Weight[queue[1]] \in Int /\ enqueuedAt[queue[1]] \in Int
    <3>1. 0..3 \subseteq Int
      OBVIOUS
    <3>2. Weight[queue[1]] \in Int
      BY <2>2, <3>1, MessageQueueAssumption
    <3>3. enqueuedAt[queue[1]] \in Nat
      BY <2>2 DEF TypeInv, TypeOK
    <3> QED
      BY <3>2, <3>3
  <2> QED
    BY <2>1, <2>3 DEF Before
<1> HIDE DEF s
<1>4. ASSUME NEW m
      PROVE  (\E k \in 1..Len(s) : s[k] = m) <=> (\E k \in 1..n : queue[k] = m) /\ m # queue[1]
  <2>1. ASSUME NEW k \in 1..Len(s), s[k] = m PROVE (\E j \in 1..n : queue[j] = m) /\ m # queue[1]
    <3>1. k + 1 \in 1..n /\ k + 1 # 1 /\ queue[k + 1] = m
      BY <1>1, <1>2, <2>1
    <3> QED
      BY <1>3, <3>1
  <2>2. ASSUME NEW k \in 1..n, queue[k] = m, m # queue[1] PROVE \E j \in 1..Len(s) : s[j] = m
    <3>1. k - 1 \in 1..Len(s) /\ s[k - 1] = queue[(k - 1) + 1] /\ (k - 1) + 1 = k
      BY <1>1, <1>2, <2>2
    <3> QED
      BY <2>2, <3>1
  <2> QED
    BY <2>1, <2>2
<1> QED
  BY <1>1, <1>2, <1>4, QueueElements DEF s

\* enqueue() adds its message to the queue; to those that are all as urgent,
\* at the end.
LEMMA EnqueueElements ==
  ASSUME TypeInv, NEW m \in Messages, Enqueue(m)
  PROVE  /\ queue' \in Seq(Messages) /\ Len(queue') = Len(queue) + 1 /\ queue' # << >>
         /\ \A e : e \in ToSet(queue') <=> e = m \/ e \in ToSet(queue)
         /\ (\A k \in 1..Len(queue) : Weight[queue[k]] = Weight[m]) =>
              /\ \A k \in 1..Len(queue) : queue'[k] = queue[k]
              /\ queue'[Len(queue) + 1] = m
<1> DEFINE n == Len(queue)
<1>1. PICK i \in 1..(n + 1) : InsertionPoint(m, i) /\ queue' = InsertAt(queue, i, m)
  BY DEF Enqueue
<1>2. queue \in Seq(Messages) /\ n \in Nat /\ \A k \in 1..n : queue[k] \in Messages
  BY LenProperties, ElementOfSeq DEF TypeInv, TypeOK
<1>3. /\ queue' \in Seq(Messages) /\ Len(queue') = n + 1
      /\ \A k \in 1..(n + 1) :
           queue'[k] = IF k < i THEN queue[k] ELSE IF k = i THEN m ELSE queue[k - 1]
  <2>1. queue \in Seq(Messages) /\ m \in Messages /\ i \in 1..(Len(queue) + 1)
    BY <1>2
  <2>2. /\ InsertAt(queue, i, m) \in Seq(Messages)
        /\ Len(InsertAt(queue, i, m)) = Len(queue) + 1
        /\ \A k \in 1..(Len(queue) + 1) :
             InsertAt(queue, i, m)[k] = IF k < i THEN queue[k]
                                        ELSE IF k = i THEN m ELSE queue[k - 1]
    BY ONLY <2>1, InsertAtShape
  <2> QED
    BY <1>1, <2>2
<1>4. /\ \A k \in 1..(n + 1) : queue'[k] = m \/ \E j \in 1..n : queue'[k] = queue[j]
      /\ \A k \in 1..n : \E j \in 1..(n + 1) : queue'[j] = queue[k]
      /\ queue'[i] = m
  BY <1>1, <1>2, <1>3, InsertElements
<1>5. \A e : e \in ToSet(queue') <=> e = m \/ e \in ToSet(queue)
  <2>1. \A e : /\ e \in ToSet(queue') <=> \E k \in 1..(n + 1) : queue'[k] = e
               /\ e \in ToSet(queue) <=> \E k \in 1..n : queue[k] = e
    BY <1>2, <1>3, QueueElements
  <2> QED
    BY <1>1, <1>4, <2>1
<1>6. ASSUME \A k \in 1..n : Weight[queue[k]] = Weight[m]
      PROVE  /\ \A k \in 1..n : queue'[k] = queue[k]
             /\ queue'[n + 1] = m
  <2>1. Weight[m] \in Int
    <3>1. 0..3 \subseteq Int
      OBVIOUS
    <3> QED
      BY <3>1, MessageQueueAssumption
  <2>2. ~(i <= n)
    <3>1. ASSUME i <= n PROVE FALSE
      <4>1. Weight[queue[i]] > Weight[m] /\ i \in 1..n
        BY <1>1, <1>2, <3>1 DEF InsertionPoint
      <4> QED
        BY <1>6, <2>1, <4>1
    <3> QED
      BY <3>1
  <2>3. i = n + 1
    BY <1>1, <1>2, <2>2
  <2> QED
    BY <1>2, <1>3, <2>3
<1>7. queue' # << >>
  BY <1>2, <1>3
<1> QED
  BY <1>3, <1>5, <1>6, <1>7

\* A queue that nobody works on holds only what came before the send function:
\* enqueue() starts a worker, and a worker leaves an empty queue.
IdleQueue == ~processing => ToSet(queue) \subseteq early

LEMMA IdleQueueCorrect == Spec => []IdleQueue
<1>1. Init => IdleQueue
  BY DEF Init, IdleQueue, ToSet
<1>2. TypeInv /\ SingleWorker /\ IdleQueue /\ [Next]_vars => IdleQueue'
  <2> SUFFICES ASSUME TypeInv, SingleWorker, IdleQueue, [Next]_vars PROVE IdleQueue'
    OBVIOUS
  <2>1. ASSUME NEW m \in Messages, Enqueue(m), ~processing'
        PROVE  ToSet(queue') \subseteq early'
    <3>1. queue' # << >> /\ \A e : e \in ToSet(queue') <=> e = m \/ e \in ToSet(queue)
      BY <2>1, EnqueueElements
    <3>2. UNCHANGED worker /\ (processing \/ ~sendFn)
      BY <2>1, <3>1 DEF Enqueue, ProcessNext
    <3>3. ~processing /\ ~sendFn
      BY <2>1, <3>2 DEF worker
    <3>4. early' = early \cup {m}
      BY <2>1, <3>3 DEF Enqueue
    <3> QED
      BY <3>1, <3>3, <3>4 DEF IdleQueue
  <2>2. ASSUME NEW w \in Messages, SendSucceeds(w) \/ SendFails(w), ~processing'
        PROVE  ToSet(queue') \subseteq early'
    <3>1. NextIteration(w, queue') /\ pc[w] # "idle"
      BY <2>2 DEF SendSucceeds, SendFails
    <3>2. processing
      BY <3>1 DEF SingleWorker
    <3>3. queue' = << >>
      BY <2>2, <3>1, <3>2 DEF NextIteration
    <3> QED
      BY <3>3 DEF ToSet
  <2>3. CASE Clear \/ Disconnect
    <3>1. queue' = << >>
      BY <2>3 DEF Clear, Disconnect, ClearQueue
    <3> QED
      BY <3>1 DEF IdleQueue, ToSet
  <2>4. CASE \/ \E m \in Messages : EnqueueFull(m) \/ Acquired(m)
             \/ Connect \/ HealthServerStopped \/ DrainDead \/ UNCHANGED vars
    <3>1. UNCHANGED << queue, early, processing >>
      BY <2>4 DEF EnqueueFull, Acquired, Connect, HealthServerStopped, DrainDead, vars, worker
    <3> QED
      BY <3>1 DEF IdleQueue
  <2> QED
    BY <2>1, <2>2, <2>3, <2>4 DEF Next, IdleQueue
<1> QED
  BY <1>1, <1>2, TypeInvCorrect, OneWorker, PTL DEF Spec

\* Before the first clear() nothing takes the relay away again, so that no
\* worker sends into the void.
Wired ==
  ~cleared => /\ ~closing /\ (sendFn => relay)
              /\ \A w \in Messages : pc[w] # "void" /\ (pc[w] # "idle" => sendFn)

LEMMA WiredCorrect == Spec => []Wired
<1>1. Init => Wired
  BY DEF Init, Wired
<1>2. TypeInv /\ Wired /\ [Next]_vars => Wired'
  <2> SUFFICES ASSUME TypeInv, Wired, [Next]_vars, ~cleared' PROVE Wired'
    BY DEF Wired
  <2> USE DEF TypeInv, TypeOK
  <2>1. ASSUME NEW m \in Messages, Enqueue(m) PROVE Wired'
    <3>1. \A w \in Messages : pc'[w] = pc[w] \/ (sendFn /\ pc'[w] = "acquiring")
      BY <2>1 DEF Enqueue, ProcessNext, Take, worker
    <3> QED
      BY <2>1, <3>1 DEF Wired, Enqueue
  <2>2. ASSUME NEW w \in Messages, Acquired(w) PROVE Wired'
    <3>1. sendFn /\ relay
      BY <2>2 DEF Acquired, Wired
    <3> QED
      BY <2>2, <3>1 DEF Acquired, Wired
  <2>3. ASSUME NEW w \in Messages, SendSucceeds(w) \/ SendFails(w) PROVE Wired'
    <3>1. \A v \in Messages : pc'[v] \in {pc[v], "idle"} \/ (v = w /\ pc'[v] = "acquiring")
      BY <2>3 DEF SendSucceeds, SendFails, NextIteration, Take
    <3>2. UNCHANGED << sendFn, relay, closing, cleared >> /\ pc[w] # "idle"
      BY <2>3 DEF SendSucceeds, SendFails
    <3> QED
      BY <3>1, <3>2 DEF Wired
  <2>4. CASE Clear \/ Disconnect
    BY <2>4 DEF Clear, Disconnect, ClearQueue
  <2>5. CASE Connect
    BY <2>5 DEF Connect, Wired, worker
  <2>6. CASE HealthServerStopped
    BY <2>6 DEF HealthServerStopped, Wired
  <2>7. CASE (\E m \in Messages : EnqueueFull(m)) \/ DrainDead \/ UNCHANGED vars
    <3>1. UNCHANGED << sendFn, relay, closing, cleared, pc >>
      BY <2>7 DEF EnqueueFull, DrainDead, vars, worker
    <3> QED
      BY <3>1 DEF Wired
  <2> QED
    BY <2>1, <2>2, <2>3, <2>4, <2>5, <2>6, <2>7 DEF Next
<1> QED
  BY <1>1, <1>2, TypeInvCorrect, PTL DEF Spec

\* In the uniform use the worker holds the first entry of the queue, the one
\* shift() will drop; the queue is what is pending; and only the entry that is
\* held was ever tried, and not too often to be tried once more.
UniformInv ==
  Uniform =>
    /\ \A w \in Messages : pc[w] # "idle" => queue # << >> /\ cur[w] = queue[1]
    /\ \A m \in Messages :
         /\ promise[m] = "pending" <=> m \in ToSet(queue)
         /\ delivered[m] = IF promise[m] = "resolved" THEN 1 ELSE 0
         /\ attempts[m] <= MaxRetries
         /\ promise[m] = "none" => attempts[m] = 0
    /\ \A k \in 1..Len(queue) :
         \/ attempts[queue[k]] = 0
         \/ /\ k = 1
            /\ attempts[queue[k]] < MaxRetries \/ \E w \in Messages : pc[w] = "sending"

\* The use was uniform before if it is now: nothing is forgotten.
LEMMA UniformBefore ==
  ASSUME TypeInv, [Next]_vars, Uniform'
  PROVE  Uniform /\ \A m \in Messages : promise[m] # "none" => promise'[m] # "none"
<1>1. cleared => cleared'
  BY DEF Next, Enqueue, EnqueueFull, Acquired, SendSucceeds, SendFails, Clear, Connect, Disconnect,
         HealthServerStopped, DrainDead, ClearQueue, vars
<1>2. \A m \in Messages : promise[m] # "none" => promise'[m] # "none"
  <2>1. CASE \E m \in Messages : Enqueue(m)
    BY <2>1 DEF Enqueue, TypeInv, TypeOK
  <2>2. CASE \A m \in Messages : ~Enqueue(m)
    BY <2>2, OtherStepsShrink
  <2> QED
    BY <2>1, <2>2
<1> QED
  BY <1>1, <1>2 DEF Uniform

\* The worker that is there takes the next message or ends.
LEMMA NextInUniform ==
  ASSUME TypeInv, SingleWorker, NEW w \in Messages, pc[w] # "idle", NextIteration(w, queue'),
         queue' \in Seq(Messages)
  PROVE  /\ \A v \in Messages : pc'[v] # "idle" => queue' # << >> /\ cur'[v] = queue'[1]
         /\ \A v \in Messages : pc'[v] # "sending"
<1> USE DEF TypeInv, TypeOK
<1>1. \A v \in Messages : v # w => pc[v] = "idle"
  BY DEF SingleWorker
<1>2. CASE queue' # << >>
  <2>1. Head(queue') = queue'[1]
    BY <1>2
  <2>2. pc' = [pc EXCEPT ![w] = "acquiring"] /\ cur' = [cur EXCEPT ![w] = Head(queue')]
    BY <1>2 DEF NextIteration, Take
  <2> QED
    BY <1>1, <1>2, <2>1, <2>2
<1>3. CASE queue' = << >>
  BY <1>1, <1>3 DEF NextIteration
<1> QED
  BY <1>2, <1>3

LEMMA EnqueueUniform ==
  ASSUME TypeInv, OrderInv, SingleWorker, UniformInv, NEW m \in Messages, Enqueue(m),
         Uniform, Uniform'
  PROVE  UniformInv'
<1> DEFINE n == Len(queue)
<1>1. queue \in Seq(Messages) /\ n \in Nat /\ \A k \in 1..n : queue[k] \in Messages
  BY LenProperties, ElementOfSeq DEF TypeInv, TypeOK
<1>2. /\ promise[m] = "none" /\ promise' = [promise EXCEPT ![m] = "pending"]
      /\ UNCHANGED << attempts, delivered >>
  BY DEF Enqueue
<1>3. promise'[m] = "pending" /\ \A e \in Messages \ {m} : promise'[e] = promise[e]
  BY <1>2 DEF TypeInv, TypeOK
<1>4. \A k \in 1..n : Weight[queue[k]] = Weight[m]
  <2> SUFFICES ASSUME NEW k \in 1..n PROVE Weight[queue[k]] = Weight[m]
    OBVIOUS
  <2>1. promise[queue[k]] # "none" /\ queue[k] \in Messages
    BY <1>1 DEF OrderInv, Stamped
  <2>2. promise'[queue[k]] # "none" /\ promise'[m] # "none"
    BY <1>2, <1>3, <2>1
  <2> QED
    BY <2>1, <2>2 DEF Uniform
<1>5. /\ queue' \in Seq(Messages) /\ Len(queue') = n + 1 /\ queue' # << >>
      /\ \A e : e \in ToSet(queue') <=> e = m \/ e \in ToSet(queue)
      /\ \A k \in 1..n : queue'[k] = queue[k]
      /\ queue'[n + 1] = m
  BY <1>4, EnqueueElements
<1>6. /\ \A w \in Messages : pc[w] # "idle" => queue # << >> /\ cur[w] = queue[1]
      /\ \A e \in Messages :
           /\ promise[e] = "pending" <=> e \in ToSet(queue)
           /\ delivered[e] = IF promise[e] = "resolved" THEN 1 ELSE 0
           /\ attempts[e] <= MaxRetries
           /\ promise[e] = "none" => attempts[e] = 0
      /\ \A k \in 1..n :
           \/ attempts[queue[k]] = 0
           \/ /\ k = 1
              /\ attempts[queue[k]] < MaxRetries \/ \E w \in Messages : pc[w] = "sending"
  BY DEF UniformInv
<1>7. \A w \in Messages : /\ pc'[w] # "idle" => cur'[w] = queue'[1]
                          /\ pc[w] = "sending" => pc'[w] = "sending"
  <2>1. CASE UNCHANGED worker
    <3>1. ASSUME NEW w \in Messages, pc[w] # "idle" PROVE cur[w] = queue'[1]
      <4>1. cur[w] = queue[1] /\ 1 \in 1..n
        BY <1>1, <1>6, <3>1
      <4> QED
        BY <1>5, <4>1
    <3> QED
      BY <2>1, <3>1 DEF worker
  <2>2. CASE ~processing /\ Take(m, queue')
    <3>1. \A w \in Messages : pc[w] = "idle"
      BY <2>2 DEF SingleWorker
    <3>2. Head(queue') = queue'[1]
      BY <1>5
    <3> QED
      BY <2>2, <3>1, <3>2 DEF Take, TypeInv, TypeOK
  <2> QED
    BY <2>1, <2>2 DEF Enqueue, ProcessNext
<1>8. \A e \in Messages :
        /\ promise'[e] = "pending" <=> e \in ToSet(queue')
        /\ delivered'[e] = IF promise'[e] = "resolved" THEN 1 ELSE 0
        /\ attempts'[e] <= MaxRetries
        /\ promise'[e] = "none" => attempts'[e] = 0
  BY <1>2, <1>3, <1>5, <1>6
<1>9. ASSUME NEW k \in 1..(n + 1)
      PROVE  \/ attempts'[queue'[k]] = 0
             \/ /\ k = 1
                /\ attempts'[queue'[k]] < MaxRetries \/ \E w \in Messages : pc'[w] = "sending"
  <2>1. CASE k = n + 1
    BY <1>2, <1>5, <1>6, <2>1
  <2>2. CASE k # n + 1
    <3>1. k \in 1..n /\ queue'[k] = queue[k]
      BY <1>1, <1>5, <2>2
    <3>2. (\E w \in Messages : pc[w] = "sending") => \E w \in Messages : pc'[w] = "sending"
      BY <1>7
    <3> QED
      BY <1>2, <1>6, <3>1, <3>2
  <2> QED
    BY <2>1, <2>2
<1> QED
  BY <1>5, <1>7, <1>8, <1>9 DEF UniformInv

\* The entry that is sent leaves the queue, and its promise settles.
LEMMA SentLeaves ==
  ASSUME TypeInv, OrderInv, SingleWorker, UniformInv, Uniform, NEW w \in Messages,
         pc[w] # "idle", NEW outcome \in {"resolved", "rejected"},
         queue' = Shift(queue), Settle(cur[w], outcome), NextIteration(w, queue'),
         UNCHANGED attempts,
         delivered' = IF outcome = "resolved" THEN [delivered EXCEPT ![cur[w]] = @ + 1] ELSE delivered
  PROVE  UniformInv'
<1> DEFINE m == cur[w]
<1>1. /\ queue # << >> /\ m = queue[1]
      /\ \A e \in Messages :
           /\ promise[e] = "pending" <=> e \in ToSet(queue)
           /\ delivered[e] = IF promise[e] = "resolved" THEN 1 ELSE 0
           /\ attempts[e] <= MaxRetries
           /\ promise[e] = "none" => attempts[e] = 0
      /\ \A k \in 1..Len(queue) : attempts[queue[k]] = 0 \/ k = 1
  BY DEF UniformInv
<1>2. queue \in Seq(Messages) /\ Len(queue) \in Nat /\ 1 \in 1..Len(queue) /\ m \in Messages
  BY <1>1, LenProperties, EmptySeq DEF TypeInv, TypeOK
<1>3. queue' \in Seq(Messages) /\ \A e : e \in ToSet(queue') <=> e \in ToSet(queue) /\ e # m
  BY <1>1, ShiftElements
<1>4. /\ Len(queue') = Len(queue) - 1
      /\ \A k \in 1..(Len(queue) - 1) : queue'[k] = queue[k + 1]
  BY <1>1, <1>2, ShiftShape
<1>5. promise[m] = "pending"
  <2>1. m \in ToSet(queue)
    BY <1>1, <1>2, QueueElements
  <2> QED
    BY <1>1, <1>2, <2>1
<1>6. promise'[m] = outcome /\ \A e \in Messages \ {m} : promise'[e] = promise[e]
  BY <1>2, <1>5 DEF Settle, TypeInv, TypeOK
<1>7. /\ delivered'[m] = IF outcome = "resolved" THEN 1 ELSE 0
      /\ \A e \in Messages \ {m} : delivered'[e] = delivered[e]
  <2>1. delivered[m] = 0 /\ delivered \in [Messages -> Nat]
    BY <1>1, <1>2, <1>5 DEF TypeInv, TypeOK
  <2> HIDE DEF m
  <2>2. CASE outcome = "resolved"
    <3>1. delivered' = [delivered EXCEPT ![m] = @ + 1]
      BY <2>2 DEF m
    <3> QED
      BY <1>2, <2>1, <2>2, <3>1
  <2>3. CASE outcome # "resolved"
    BY <2>1, <2>3
  <2> QED
    BY <2>2, <2>3
<1>8. \A v \in Messages : pc'[v] # "idle" => queue' # << >> /\ cur'[v] = queue'[1]
  BY <1>3, NextInUniform
<1>9. \A e \in Messages :
        /\ promise'[e] = "pending" <=> e \in ToSet(queue')
        /\ delivered'[e] = IF promise'[e] = "resolved" THEN 1 ELSE 0
        /\ attempts'[e] <= MaxRetries
        /\ promise'[e] = "none" => attempts'[e] = 0
  BY <1>1, <1>3, <1>6, <1>7
<1>10. \A k \in 1..Len(queue') : attempts'[queue'[k]] = 0
  <2> SUFFICES ASSUME NEW k \in 1..Len(queue') PROVE attempts'[queue'[k]] = 0
    OBVIOUS
  <2>1. k + 1 \in 1..Len(queue) /\ k + 1 # 1 /\ queue'[k] = queue[k + 1]
    BY <1>2, <1>4
  <2> QED
    BY <1>1, <2>1
<1> QED
  BY <1>8, <1>9, <1>10 DEF UniformInv

\* The worker's steps.
LEMMA WorkerUniform ==
  ASSUME TypeInv, TypeInv', OrderInv, SingleWorker, Wired, UniformInv, Uniform, NEW w \in Messages,
         Acquired(w) \/ SendSucceeds(w) \/ SendFails(w)
  PROVE  UniformInv'
<1>0. queue \in Seq(Messages) /\ Len(queue) \in Nat /\ \A k \in 1..Len(queue) : queue[k] \in Messages
  BY LenProperties, ElementOfSeq DEF TypeInv, TypeOK
<1>1. /\ pc[w] # "idle" /\ queue # << >> /\ cur[w] = queue[1] /\ cur[w] \in Messages
      /\ 1 \in 1..Len(queue)
  <2>1. pc[w] # "idle"
    BY DEF Acquired, SendSucceeds, SendFails
  <2>2. queue # << >> /\ cur[w] = queue[1]
    BY <2>1 DEF UniformInv
  <2> QED
    BY <1>0, <2>1, <2>2, EmptySeq
<1>2. /\ \A v \in Messages : pc[v] # "idle" => v = w
      /\ \A e \in Messages :
           /\ promise[e] = "pending" <=> e \in ToSet(queue)
           /\ delivered[e] = IF promise[e] = "resolved" THEN 1 ELSE 0
           /\ attempts[e] <= MaxRetries
           /\ promise[e] = "none" => attempts[e] = 0
      /\ \A k \in 1..Len(queue) :
           \/ attempts[queue[k]] = 0
           \/ k = 1 /\ (attempts[queue[k]] < MaxRetries \/ pc[w] = "sending")
  BY <1>1 DEF UniformInv, SingleWorker
<1>3. attempts \in [Messages -> Nat] /\ pc \in [Messages -> {"idle", "acquiring", "sending", "void"}]
      /\ MaxRetries \in Nat \ {0}
  BY MessageQueueAssumption DEF TypeInv, TypeOK
<1>4. CASE Acquired(w)
  <2>1. /\ pc[w] = "acquiring" /\ attempts' = [attempts EXCEPT ![cur[w]] = @ + 1]
        /\ pc' = [pc EXCEPT ![w] = "sending"] /\ UNCHANGED << queue, cur, promise, delivered >>
    BY <1>1, <1>4 DEF Acquired, Wired, Uniform
  <2>2. attempts[cur[w]] < MaxRetries
    BY <1>1, <1>2, <1>3, <2>1
  <2>3. /\ attempts'[cur[w]] <= MaxRetries
        /\ \A e \in Messages \ {cur[w]} : attempts'[e] = attempts[e]
    BY <1>1, <1>3, <2>1, <2>2
  <2>4. promise[cur[w]] = "pending"
    <3>1. cur[w] \in ToSet(queue)
      BY <1>0, <1>1, QueueElements
    <3> QED
      BY <1>1, <1>2, <3>1
  <2>5. pc'[w] = "sending" /\ \A v \in Messages : pc'[v] # "idle" => v = w
    BY <1>2, <1>3, <2>1
  <2>6. \A k \in 1..Len(queue) : k = 1 \/ (queue[k] # queue[1] /\ attempts'[queue[k]] = 0)
    <3> SUFFICES ASSUME NEW k \in 1..Len(queue), k # 1
                 PROVE  queue[k] # queue[1] /\ attempts'[queue[k]] = 0
      OBVIOUS
    <3>1. \A j \in 1..Len(queue') : queue'[j] = queue'[1] => j = 1
      <4>1. UNCHANGED << queue, enqueuedAt, clock >>
            /\ \A e \in Messages : promise[e] # "none" => promise'[e] # "none"
        BY <1>4 DEF Acquired
      <4>2. OrderInv'
        BY <4>1, ShrinkKeepsOrder DEF QueueShrinks
      <4> QED
        BY <4>2, HeadIsUnique
    <3>2. queue[k] # queue[1]
      BY <2>1, <3>1
    <3> QED
      BY <1>0, <1>1, <1>2, <2>3, <3>2
  <2> QED
    BY <1>1, <1>2, <2>1, <2>3, <2>4, <2>5, <2>6 DEF UniformInv
<1>5. CASE SendSucceeds(w)
  <2>1. pc[w] = "sending"
    BY <1>5 DEF SendSucceeds, Wired, Uniform
  <2> QED
    BY <1>1, <1>5, <2>1, SentLeaves DEF SendSucceeds
<1>6. CASE SendFails(w) /\ Exhausted(cur[w])
  BY <1>1, <1>6, SentLeaves DEF SendFails
<1>7. CASE SendFails(w) /\ ~Exhausted(cur[w])
  <2>1. /\ UNCHANGED << queue, promise, attempts, delivered >> /\ NextIteration(w, queue')
        /\ ~(attempts[cur[w]] >= MaxRetries)
    BY <1>7 DEF SendFails, Exhausted
  <2>2. attempts[queue[1]] < MaxRetries
    BY <1>1, <1>3, <2>1
  <2>3. \A v \in Messages : pc'[v] # "idle" => queue' # << >> /\ cur'[v] = queue'[1]
    BY <1>0, <1>1, <2>1, NextInUniform
  <2> QED
    BY <1>2, <2>1, <2>2, <2>3 DEF UniformInv
<1> QED
  BY <1>4, <1>5, <1>6, <1>7

LEMMA UniformInvCorrect == Spec => []UniformInv
<1>1. Init => UniformInv
  <2> SUFFICES ASSUME Init PROVE UniformInv
    OBVIOUS
  <2>1. /\ queue = << >> /\ \A m \in Messages : /\ pc[m] = "idle" /\ promise[m] = "none"
                                                /\ attempts[m] = 0 /\ delivered[m] = 0
    BY DEF Init
  <2> QED
    BY <2>1, MessageQueueAssumption DEF UniformInv, ToSet
<1>2. TypeInv /\ TypeInv' /\ OrderInv /\ SingleWorker /\ Wired /\ UniformInv /\ [Next]_vars => UniformInv'
  <2> SUFFICES ASSUME TypeInv, TypeInv', OrderInv, SingleWorker, Wired, UniformInv, [Next]_vars, Uniform'
               PROVE  UniformInv'
    BY DEF UniformInv
  <2>0. Uniform
    BY UniformBefore
  <2>1. ASSUME NEW m \in Messages, Enqueue(m) PROVE UniformInv'
    BY <2>0, <2>1, EnqueueUniform
  <2>2. ASSUME NEW w \in Messages, Acquired(w) \/ SendSucceeds(w) \/ SendFails(w) PROVE UniformInv'
    BY <2>0, <2>2, WorkerUniform
  <2>3. ASSUME NEW m \in Messages, EnqueueFull(m) PROVE UniformInv'
    <3>1. /\ promise[m] = "none" /\ promise' = [promise EXCEPT ![m] = "rejected"]
          /\ UNCHANGED << queue, pc, cur, attempts, delivered >>
      BY <2>3 DEF EnqueueFull, worker
    <3>2. promise'[m] = "rejected" /\ \A e \in Messages \ {m} : promise'[e] = promise[e]
      BY <3>1 DEF TypeInv, TypeOK
    <3> QED
      BY <2>0, <3>1, <3>2 DEF UniformInv
  <2>4. CASE Clear \/ Disconnect
    BY <2>4 DEF Clear, Disconnect, ClearQueue, Uniform
  <2>5. CASE Connect \/ HealthServerStopped \/ DrainDead \/ UNCHANGED vars
    <3>1. UNCHANGED << queue, pc, cur, attempts, delivered, promise >>
      BY <2>5 DEF Connect, HealthServerStopped, DrainDead, vars, worker
    <3> QED
      BY <2>0, <3>1 DEF UniformInv
  <2> QED
    BY <2>1, <2>2, <2>3, <2>4, <2>5 DEF Next
<1> QED
  BY <1>1, <1>2, TypeInvCorrect, OrderInvCorrect, OneWorker, WiredCorrect, PTL DEF Spec

\* enqueue(), processNext(): a queue that nobody works on holds only what was
\* enqueued before the send function was there, and while all messages are as
\* urgent and nothing was cleared, what is pending is in the queue.
THEOREM NothingLost == Spec => []NoLoss
<1>1. IdleQueue /\ UniformInv => NoLoss
  BY DEF IdleQueue, UniformInv, NoLoss
<1> QED
  BY <1>1, IdleQueueCorrect, UniformInvCorrect, PTL

\* A dead letter was tried often enough, and its promise has settled.
DeadSettled ==
  \A k \in 1..Len(dead) :
    attempts[dead[k]] >= MaxRetries /\ promise[dead[k]] \in {"resolved", "rejected"}

LEMMA AddDeadSettled ==
  ASSUME TypeInv, DeadSettled, NEW m \in Messages, AddDead(m),
         attempts'[m] >= MaxRetries, promise'[m] \in {"resolved", "rejected"},
         \A e \in Messages : /\ attempts[e] >= MaxRetries => attempts'[e] >= MaxRetries
                             /\ promise[e] \in {"resolved", "rejected"}
                                  => promise'[e] \in {"resolved", "rejected"}
  PROVE  DeadSettled'
<1>1. dead \in Seq(Messages) /\ Len(dead) \in Nat /\ \A k \in 1..Len(dead) : dead[k] \in Messages
  BY LenProperties, ElementOfSeq DEF TypeInv, TypeOK
<1>2. MaxDead \in Nat \ {0}
  BY MessageQueueAssumption
<1>3. \A k \in 1..Len(dead') : dead'[k] = m \/ \E j \in 1..Len(dead) : dead'[k] = dead[j]
  <2>1. CASE Len(dead) >= MaxDead
    <3>1. dead # << >>
      BY <1>1, <1>2, <2>1
    <3>2. /\ Tail(dead) \in Seq(Messages) /\ Len(Tail(dead)) = Len(dead) - 1
          /\ \A k \in 1..(Len(dead) - 1) : Tail(dead)[k] = dead[k + 1]
      BY <1>1, <3>1, HeadTailProperties
    <3>3. dead' = Append(Tail(dead), m)
      BY <2>1 DEF AddDead
    <3> DEFINE t == Tail(dead)
    <3> HIDE DEF t
    <3>4. /\ t \in Seq(Messages) /\ Len(t) = Len(dead) - 1
          /\ \A k \in 1..(Len(dead) - 1) : t[k] = dead[k + 1]
      BY <3>2 DEF t
    <3>5. /\ Len(dead') = Len(dead)
          /\ \A k \in 1..Len(dead) : dead'[k] = IF k = Len(dead) THEN m ELSE t[k]
      BY <1>1, <3>3, <3>4, AppendProperties DEF t
    <3> SUFFICES ASSUME NEW k \in 1..Len(dead)
                 PROVE  dead'[k] = m \/ \E j \in 1..Len(dead) : dead'[k] = dead[j]
      BY <3>5
    <3>6. CASE k # Len(dead)
      <4>1. k + 1 \in 1..Len(dead) /\ dead'[k] = dead[k + 1]
        BY <1>1, <3>4, <3>5, <3>6
      <4> QED
        BY <4>1
    <3> QED
      BY <3>5, <3>6
  <2>2. CASE ~(Len(dead) >= MaxDead)
    BY <1>1, <2>2, AppendProperties DEF AddDead
  <2> QED
    BY <2>1, <2>2
<1> QED
  BY <1>1, <1>3 DEF DeadSettled

LEMMA DeadSettledCorrect == Spec => []DeadSettled
<1>1. Init => DeadSettled
  BY DEF Init, DeadSettled
<1>2. TypeInv /\ OvertakeInv /\ DeadSettled /\ [Next]_vars => DeadSettled'
  <2> SUFFICES ASSUME TypeInv, OvertakeInv, DeadSettled, [Next]_vars PROVE DeadSettled'
    OBVIOUS
  <2> DEFINE Kept(e) == /\ attempts[e] >= MaxRetries => attempts'[e] >= MaxRetries
                        /\ promise[e] \in {"resolved", "rejected"}
                             => promise'[e] \in {"resolved", "rejected"}
  <2>0. dead \in Seq(Messages) /\ \A k \in 1..Len(dead) : dead[k] \in Messages
    BY ElementOfSeq DEF TypeInv, TypeOK
  <2>1. \A e \in Messages : Kept(e)
    <3>1. ASSUME NEW w \in Messages, Acquired(w) PROVE \A e \in Messages : Kept(e)
      <4>1. \A e \in Messages : attempts'[e] \in {attempts[e], attempts[e] + 1} /\ attempts[e] \in Nat
        BY <3>1 DEF Acquired, TypeInv, TypeOK
      <4> QED
        BY <3>1, <4>1, MessageQueueAssumption DEF Acquired
    <3>2. ASSUME NEW w \in Messages, SendSucceeds(w) \/ SendFails(w) PROVE \A e \in Messages : Kept(e)
      BY <3>2 DEF SendSucceeds, SendFails, Settle, TypeInv, TypeOK
    <3>3. ASSUME NEW m \in Messages, Enqueue(m) \/ EnqueueFull(m) PROVE \A e \in Messages : Kept(e)
      BY <3>3 DEF Enqueue, EnqueueFull, TypeInv, TypeOK
    <3>4. CASE Clear \/ Disconnect
      BY <3>4 DEF Clear, Disconnect, ClearQueue
    <3>5. CASE Connect \/ HealthServerStopped \/ DrainDead \/ UNCHANGED vars
      BY <3>5 DEF Connect, HealthServerStopped, DrainDead, vars
    <3> QED
      BY <3>1, <3>2, <3>3, <3>4, <3>5 DEF Next
  <2>2. CASE dead' = dead \/ dead' = << >>
    BY <2>0, <2>1, <2>2 DEF DeadSettled
  <2>3. ASSUME NEW w \in Messages, SendFails(w), Exhausted(cur[w]) PROVE DeadSettled'
    <3>1. cur[w] \in Messages /\ promise[cur[w]] # "none"
      BY <2>3 DEF SendFails, TypeInv, OvertakeInv, HeldWasEnqueued
    <3>2. AddDead(cur[w]) /\ attempts'[cur[w]] >= MaxRetries
      BY <2>3 DEF SendFails, Exhausted
    <3>3. promise'[cur[w]] \in {"resolved", "rejected"}
      BY <2>3, <3>1 DEF SendFails, Settle, TypeInv, TypeOK
    <3> QED
      BY <2>1, <3>1, <3>2, <3>3, AddDeadSettled
  <2>4. (\E w \in Messages : SendFails(w) /\ Exhausted(cur[w])) \/ dead' = dead \/ dead' = << >>
    BY DEF Next, Enqueue, EnqueueFull, Acquired, SendSucceeds, SendFails, Clear, Connect, Disconnect,
           HealthServerStopped, DrainDead, vars
  <2> QED
    BY <2>2, <2>3, <2>4
<1> QED
  BY <1>1, <1>2, TypeInvCorrect, OvertakeInvCorrect, PTL DEF Spec

\* While all messages are as urgent and nothing was cleared, a message is sent
\* at most once, its promise is resolved if and only if it was, and it is
\* tried MaxRetries times at most; a dead letter always was, and is settled.
THEOREM NeverSentTwice == Spec => []SentOnce
<1>1. TypeInv /\ UniformInv /\ DeadSettled => SentOnce
  <2> SUFFICES ASSUME TypeInv, UniformInv, DeadSettled PROVE SentOnce
    OBVIOUS
  <2>1. \A m \in ToSet(dead) : \E k \in 1..Len(dead) : dead[k] = m
    BY QueueElements DEF TypeInv, TypeOK
  <2> QED
    BY <2>1 DEF UniformInv, DeadSettled, SentOnce
<1> QED
  BY <1>1, TypeInvCorrect, UniformInvCorrect, DeadSettledCorrect, PTL

=============================================================================
