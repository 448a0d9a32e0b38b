---------------------------- MODULE MessageQueue ----------------------------
(***************************************************************************)
(* The outgoing message queue: MessageQueue (queue/index.ts) with its      *)
(* dead-letter list (queue/dead-letter.ts), as NexaWhatsClient wires it:   *)
(* connect() installs the send function and the message relay, and         *)
(* disconnect() clears the queue and drops the relay (client.ts).          *)
(*                                                                         *)
(* A message stands for one call of enqueue(), with the promise that call  *)
(* returned.  processNext() is an async function: every enqueue() calls    *)
(* it, and the call that finds no other running becomes the worker.  The   *)
(* worker suspends at two awaits, the rate limiter ("acquiring") and the   *)
(* send function ("sending"), and everything else may happen in between.   *)
(* A worker is named by the message whose enqueue() started it.            *)
(***************************************************************************)
EXTENDS Integers, Sequences, SequencesExt

CONSTANTS
  Messages,     \* the calls of enqueue()
  Weight,       \* [Messages -> 0..3]: PRIORITY_WEIGHT of the message, 0 = urgent
  MaxRetries,   \* maxRetries: attempts after which a message is given up
  MaxSize,      \* maxSize: the capacity of the queue
  MaxDead,      \* DeadLetterQueue.maxSize
  NoMessage     \* the worker holds no entry

ASSUME MessageQueueAssumption ==
  /\ Weight \in [Messages -> 0..3]
  /\ MaxRetries \in Nat \ {0}
  /\ MaxSize \in Nat \ {0}
  /\ MaxDead \in Nat \ {0}
  /\ NoMessage \notin Messages

VARIABLES
  queue,        \* this.queue: the entries, most urgent first
  processing,   \* this.processing
  sendFn,       \* this.sendFn # null
  relay,        \* client.messageRelay # null
  closing,      \* disconnect() is awaiting healthServer.stop()
  pc,           \* where each worker is suspended
  cur,          \* the entry each worker captured before its awaits
  attempts,     \* entry.attempts
  promise,      \* the promise returned by enqueue()
  enqueuedAt,   \* entry.enqueuedAt, as a logical time
  clock,        \* the next logical time
  dead,         \* deadLetters.items, oldest first
  delivered,    \* history: how many times the relay sent the message
  early,        \* history: the messages enqueued while sendFn was null
  cleared       \* history: clear() or disconnect() was called

vars == << queue, processing, sendFn, relay, closing, pc, cur, attempts,
           promise, enqueuedAt, clock, dead, delivered, early, cleared >>

worker == << pc, cur, processing >>

-----------------------------------------------------------------------------

Init ==
  /\ queue = << >>
  /\ processing = FALSE
  /\ sendFn = FALSE
  /\ relay = FALSE
  /\ closing = FALSE
  /\ pc = [m \in Messages |-> "idle"]
  /\ cur = [m \in Messages |-> NoMessage]
  /\ attempts = [m \in Messages |-> 0]
  /\ promise = [m \in Messages |-> "none"]
  /\ enqueuedAt = [m \in Messages |-> 0]
  /\ clock = 0
  /\ dead = << >>
  /\ delivered = [m \in Messages |-> 0]
  /\ early = {}
  /\ cleared = FALSE

(***************************************************************************)
(* Helpers                                                                 *)
(***************************************************************************)

\* The definitions named Bug... are seeded bugs: each replaces the definition
\* that follows it, to see that a property notices (README.md).

BugPop(q) == IF q = << >> THEN q ELSE Front(q)

\* Array.prototype.shift(): drops the first entry, if there is one.
Shift(q) == IF q = << >> THEN q ELSE Tail(q)

\* resolve and reject have no effect on a promise that is already settled.
Settle(m, outcome) ==
  promise' = [promise EXCEPT ![m] = IF @ = "pending" THEN outcome ELSE @]

BugBeforeEqual(m, i) ==
  /\ \A k \in 1..(i - 1) : Weight[queue[k]] < Weight[m]
  /\ i <= Len(queue) => Weight[queue[i]] >= Weight[m]

\* findIndex of the first entry less urgent than m, or the end of the queue.
InsertionPoint(m, i) ==
  /\ \A k \in 1..(i - 1) : Weight[queue[k]] <= Weight[m]
  /\ i <= Len(queue) => Weight[queue[i]] > Weight[m]

\* The worker w starts an iteration of the loop with the first entry.
Take(w, q) ==
  /\ pc' = [pc EXCEPT ![w] = "acquiring"]
  /\ cur' = [cur EXCEPT ![w] = Head(q)]

BugNoLoop(w, q) ==
  /\ pc' = [pc EXCEPT ![w] = "idle"]
  /\ cur' = [cur EXCEPT ![w] = NoMessage]
  /\ processing' = FALSE

\* The loop test after an iteration: go on, or leave through finally.
NextIteration(w, q) ==
  IF q # << >>
  THEN Take(w, q) /\ UNCHANGED processing
  ELSE /\ pc' = [pc EXCEPT ![w] = "idle"]
       /\ cur' = [cur EXCEPT ![w] = NoMessage]
       /\ processing' = FALSE

\* The test for giving a message up.
BugGiveUpLate(m) == attempts[m] > MaxRetries
Exhausted(m) == attempts[m] >= MaxRetries

\* The test for room in the queue.
BugOneTooMany == Len(queue) <= MaxSize
HasRoom == Len(queue) < MaxSize

\* DeadLetterQueue.add: append, evicting the oldest over capacity.
AddDead(m) ==
  dead' = IF Len(dead) >= MaxDead THEN Append(Tail(dead), m) ELSE Append(dead, m)

(***************************************************************************)
(* Operations                                                              *)
(***************************************************************************)

\* enqueue() on a full queue: the call rejects at once.
EnqueueFull(m) ==
  /\ promise[m] = "none"
  /\ ~HasRoom
  /\ promise' = [promise EXCEPT ![m] = "rejected"]
  /\ UNCHANGED << queue, sendFn, relay, closing, attempts, enqueuedAt, clock,
                  dead, delivered, early, cleared, worker >>

BugNoGuard(m, q) ==
  IF q = << >> \/ ~sendFn
  THEN UNCHANGED worker
  ELSE processing' = TRUE /\ Take(m, q)

\* processNext(), up to its first await.
ProcessNext(m, q) ==
  IF processing \/ q = << >> \/ ~sendFn
  THEN UNCHANGED worker
  ELSE processing' = TRUE /\ Take(m, q)

\* enqueue(): insert in priority order, then processNext().
Enqueue(m) ==
  /\ promise[m] = "none"
  /\ HasRoom
  /\ \E i \in 1..(Len(queue) + 1) :
       /\ InsertionPoint(m, i)
       /\ queue' = InsertAt(queue, i, m)
  /\ promise' = [promise EXCEPT ![m] = "pending"]
  /\ enqueuedAt' = [enqueuedAt EXCEPT ![m] = clock]
  /\ clock' = clock + 1
  /\ early' = IF sendFn THEN early ELSE early \cup {m}
  /\ ProcessNext(m, queue')
  /\ UNCHANGED << sendFn, relay, closing, attempts, dead, delivered, cleared >>

\* rateLimiter.acquire() resolved: count the attempt and call sendFn, which
\* is `this.messageRelay?.sendMessage(...)`: with no relay it sends nothing
\* and resolves with undefined ("void").
Acquired(w) ==
  /\ pc[w] = "acquiring"
  /\ attempts' = [attempts EXCEPT ![cur[w]] = @ + 1]
  /\ pc' = [pc EXCEPT ![w] = IF relay THEN "sending" ELSE "void"]
  /\ UNCHANGED << queue, processing, sendFn, relay, closing, cur, promise,
                  enqueuedAt, clock, dead, delivered, early, cleared >>

\* sendFn resolved: drop the first entry, resolve the one that was sent.
SendSucceeds(w) ==
  /\ pc[w] \in {"sending", "void"}
  /\ queue' = Shift(queue)
  /\ Settle(cur[w], "resolved")
  /\ delivered' = IF pc[w] = "sending"
                  THEN [delivered EXCEPT ![cur[w]] = @ + 1] ELSE delivered
  /\ NextIteration(w, queue')
  /\ UNCHANGED << sendFn, relay, closing, attempts, enqueuedAt, clock, dead,
                  early, cleared >>

\* sendFn rejected: retry on the next iteration, or give the message up.
SendFails(w) ==
  /\ pc[w] = "sending"
  /\ IF Exhausted(cur[w])
     THEN /\ queue' = Shift(queue)
          /\ AddDead(cur[w])
          /\ Settle(cur[w], "rejected")
     ELSE UNCHANGED << queue, dead, promise >>
  /\ NextIteration(w, queue')
  /\ UNCHANGED << sendFn, relay, closing, attempts, enqueuedAt, clock,
                  delivered, early, cleared >>

\* clear(): empty the queue, rejecting every entry it held.
ClearQueue ==
  /\ queue' = << >>
  /\ promise' = [m \in Messages |->
                   IF m \in ToSet(queue) /\ promise[m] = "pending"
                   THEN "rejected" ELSE promise[m]]
  /\ cleared' = TRUE

Clear ==
  /\ ClearQueue
  /\ UNCHANGED << sendFn, relay, closing, attempts, enqueuedAt, clock, dead,
                  delivered, early, worker >>

\* connect(), once the socket is up: the relay and the send function are
\* installed; setSendFn does not call processNext().
Connect ==
  /\ sendFn' = TRUE
  /\ relay' = TRUE
  /\ UNCHANGED << queue, closing, attempts, promise, enqueuedAt, clock, dead,
                  delivered, early, cleared, worker >>

\* disconnect(): clear the queue and drop the relay; with a health server
\* running, the relay is dropped only after `await healthServer.stop()`.
Disconnect ==
  /\ ClearQueue
  /\ \/ relay' = FALSE /\ UNCHANGED closing
     \/ closing' = TRUE /\ UNCHANGED relay
  /\ UNCHANGED << sendFn, attempts, enqueuedAt, clock, dead, delivered, early, worker >>

HealthServerStopped ==
  /\ closing
  /\ closing' = FALSE
  /\ relay' = FALSE
  /\ UNCHANGED << queue, sendFn, attempts, promise, enqueuedAt, clock, dead,
                  delivered, early, cleared, worker >>

\* deadLetters.drain() or clear(), by the application.
DrainDead ==
  /\ dead # << >>
  /\ dead' = << >>
  /\ UNCHANGED << queue, sendFn, relay, closing, attempts, promise, enqueuedAt,
                  clock, delivered, early, cleared, worker >>

Next ==
  \/ \E m \in Messages : Enqueue(m) \/ EnqueueFull(m)
  \/ \E w \in Messages : Acquired(w) \/ SendSucceeds(w) \/ SendFails(w)
  \/ Clear
  \/ Connect
  \/ Disconnect
  \/ HealthServerStopped
  \/ DrainDead

\* The rate limiter's timers fire, and a send settles: every query of the
\* relay has a 30 s timeout and a closed transport rejects.
Fairness ==
  \A w \in Messages : /\ WF_vars(Acquired(w))
                      /\ WF_vars(SendSucceeds(w) \/ SendFails(w))

Spec == Init /\ [][Next]_vars

FairSpec == Spec /\ Fairness

-----------------------------------------------------------------------------
(***************************************************************************)
(* Properties                                                              *)
(***************************************************************************)

\* The types of the queue's state, and its two capacities.
TypeOK ==
  /\ queue \in Seq(Messages) /\ Len(queue) <= MaxSize
  /\ processing \in BOOLEAN
  /\ sendFn \in BOOLEAN
  /\ relay \in BOOLEAN
  /\ closing \in BOOLEAN
  /\ pc \in [Messages -> {"idle", "acquiring", "sending", "void"}]
  /\ cur \in [Messages -> Messages \cup {NoMessage}]
  /\ attempts \in [Messages -> Nat]
  /\ promise \in [Messages -> {"none", "pending", "resolved", "rejected"}]
  /\ enqueuedAt \in [Messages -> Nat]
  /\ clock \in Nat
  /\ dead \in Seq(Messages) /\ Len(dead) <= MaxDead
  /\ delivered \in [Messages -> Nat]
  /\ early \in SUBSET Messages
  /\ cleared \in BOOLEAN

\* Entries a and b are in the order the queue promises: by priority, and
\* first come first served within a priority.
Before(a, b) ==
  \/ Weight[a] < Weight[b]
  \/ Weight[a] = Weight[b] /\ enqueuedAt[a] < enqueuedAt[b]

\* The queue is always ordered by priority and, within a priority, by the
\* time of the enqueue() call, whatever is inserted, shifted or cleared
\* while a send is in flight; so no message is in it twice.
PriorityFifo ==
  \A i, j \in 1..Len(queue) : i < j => Before(queue[i], queue[j])

\* At most one worker runs, and `processing` says exactly whether one does:
\* overlapping enqueue() calls never start two loops over the same array.
SingleWorker ==
  /\ \A v, w \in Messages : pc[v] # "idle" /\ pc[w] # "idle" => v = w
  /\ processing <=> \E w \in Messages : pc[w] # "idle"

\* While an entry waits at one of the worker's awaits, only more urgent
\* entries can get ahead of it in the array.
OvertakenOnlyByMoreUrgent ==
  \A w \in Messages : pc[w] # "idle" =>
    \A i, j \in 1..Len(queue) :
      queue[j] = cur[w] /\ i < j => Weight[queue[i]] < Weight[cur[w]]

\* So far clear() was not called and every message had the same priority: the
\* use in which shift() drops the entry that was sent.
Uniform ==
  /\ ~cleared
  /\ \A a, b \in Messages :
       promise[a] # "none" /\ promise[b] # "none" => Weight[a] = Weight[b]

\* No message is lost.  A queue that nobody is working on holds only messages
\* enqueued before the first setSendFn(); and in the uniform use a message is
\* in the queue as long as its promise is pending, and no longer.
NoLoss ==
  /\ ~processing => ToSet(queue) \subseteq early
  /\ Uniform => \A m \in Messages : promise[m] = "pending" <=> m \in ToSet(queue)

\* In the uniform use a message is sent at most once, its promise is
\* resolved exactly when it was sent, and it is tried MaxRetries times at
\* most.  In any use a dead letter was tried so often and is settled.
SentOnce ==
  /\ Uniform => \A m \in Messages :
       /\ delivered[m] = IF promise[m] = "resolved" THEN 1 ELSE 0
       /\ attempts[m] <= MaxRetries
  /\ \A m \in ToSet(dead) : attempts[m] >= MaxRetries /\ promise[m] # "pending"

\* As long as the use stays uniform, every message that is pending while a
\* worker runs is eventually resolved or rejected.
Settles ==
  \A m \in Messages :
    (promise[m] = "pending" /\ processing) ~> (promise[m] # "pending" \/ ~Uniform)

(***************************************************************************)
(* What the documentation says and the code does not do                    *)
(***************************************************************************)

\* queue/index.ts:156, "Clear the queue (rejects all pending)": after
\* clear() no promise of enqueue() is pending.
ClearRejectsAllPending ==
  [][Clear => \A m \in Messages : promise'[m] # "pending"]_vars

=============================================================================
