----------------------------- MODULE ReceiveProofs -----------------------------
(***************************************************************************)
(* Proofs about Receive, for any stanzas, numbers, LIDs and middlewares,   *)
(* and any interleaving of the handlers, failures and ends of the process. *)
(***************************************************************************)
EXTENDS Announcements, SequenceTheorems, FiniteSetTheorems, WellFoundedInduction, TLAPS

Resolving == {"resolve", "resolving", "checked", "stored", "decrypt", "loading", "ratchet", "storing"}
Reading   == {"download", "announce"}
Telling   == {"keys", "middleware"}

Handlers ==
  [pc : {"idle"} \cup Resolving \cup Reading \cup Telling \cup Over,
   author : Numbers \cup Lids \cup {None}, alt : Lids \cup {None},
   left : Seq(Ciphers), kind : Kinds, jid : Numbers \cup Lids \cup {None},
   seen : Lids \cup {None}, content : BOOLEAN, stub : BOOLEAN, layer : Nat]

Upserts == [content : BOOLEAN, stub : BOOLEAN, once : BOOLEAN]

\* What holds of one handler while its ciphertexts are opened, and after.
Sound(h) ==
  /\ h.pc \in Resolving => h.left # << >> /\ h.author # None
  /\ h.pc \in Reading => h.content \/ h.stub \/ h.kind = "once"

LEMMA NoneIsNoName == None \notin Numbers /\ None \notin Lids
BY ReceiveAssumption

LEMMA IdleRecord == Idle \in Handlers /\ Sound(Idle) /\ Idle.pc = "idle" /\ Idle.author = None
<1>1. << >> \in Seq(Ciphers)
  OBVIOUS
<1> QED
  BY <1>1 DEF Idle, Handlers, Sound, Kinds, Resolving, Reading

LEMMA EndIsHandler ==
  ASSUME NEW h \in Handlers, NEW how \in Over
  PROVE  /\ End(how, h) \in Handlers /\ Sound(End(how, h)) /\ End(how, h).pc = how
         /\ End(how, h).author = None /\ (how = "dropped" => End(how, h).kind = h.kind)
<1>1. End(how, h) \in Handlers /\ End(how, h).pc = how /\ End(how, h).author = None
      /\ (how = "dropped" => End(how, h).kind = h.kind)
  <2>1. h.kind \in Kinds /\ Idle.kind \in Kinds
    BY IdleRecord DEF Handlers
  <2>2. \A k \in Kinds : LET e == [Idle EXCEPT !.pc = how, !.kind = k]
                         IN  e \in Handlers /\ e.pc = how /\ e.author = None /\ e.kind = k
    BY IdleRecord, ZenonT(30) DEF Handlers
  <2>3. CASE how = "dropped"
    BY <2>1, <2>2, <2>3 DEF End
  <2>4. CASE how # "dropped"
    <3>1. End(how, h) = [Idle EXCEPT !.pc = how, !.kind = Idle.kind]
      BY <2>4 DEF End
    <3> QED
      BY <2>1, <2>2, <2>4, <3>1
  <2> QED
    BY <2>3, <2>4
<1>2. how \notin Resolving /\ how \notin Reading
  BY DEF Over, Resolving, Reading
<1> QED
  BY <1>1, <1>2 DEF Sound

\* From one ciphertext to the next: a handler that has had one read something
\* or marked the message.
LEMMA NextChildIsHandler ==
  ASSUME NEW h \in Handlers, h.author # None,
         h.left = << >> => h.content \/ h.stub \/ h.kind = "once"
  PROVE  /\ NextChild(h) \in Handlers /\ Sound(NextChild(h))
         /\ NextChild(h).pc \in {"resolve"} \cup Reading
         /\ NextChild(h).author = h.author /\ NextChild(h).alt = h.alt
         /\ NextChild(h).seen \in {None, h.seen}
<1>1. CASE h.left = << >>
  BY <1>1 DEF NextChild, Detected, Handlers, Sound, Resolving, Reading
<1>2. CASE h.left # << >>
  BY <1>2 DEF NextChild, Handlers, Sound, Resolving, Reading
<1> QED
  BY <1>1, <1>2

-----------------------------------------------------------------------------
(***************************************************************************)
(* The map.                                                                *)
(***************************************************************************)

\* The LIDs of a number in a set of batches.
In(B, n) == { l \in Lids : \E how \in {"both", "half"} : << n, l, how >> \in B }

\* MappingAgrees is not inductive by itself: what a handler waits to cache or
\* to use, an answer or what it stored, is a LID that the number had.
Knows(h, B) ==
  /\ h.pc \in {"resolving", "checked", "stored"} => h.author \in Numbers
  /\ h.pc \in {"checked", "stored"} => h.alt # None
  /\ h.pc \in {"resolving", "checked"} => h.seen \in In(B, h.author) \cup {None}
  /\ h.pc = "stored" => h.alt \in In(B, h.author)
  /\ h.pc \in {"loading", "storing"} => h.jid \in Numbers /\ h.seen \in In(B, h.jid) \cup {None}

\* A number that had a LID has one: a batch replaces it.  Hence a cache that
\* differs from the store holds another.
MapInv ==
  /\ handlers \in [Stanzas -> Handlers]
  /\ \A s \in Stanzas : Sound(handlers[s]) /\ Knows(handlers[s], batches)
  /\ fwd \in [Numbers -> Lids \cup {None}] /\ rev \in [Lids -> Numbers \cup {None}]
  /\ cache \in [Numbers -> Lids \cup {None}]
  /\ \A n \in Numbers : fwd[n] \in In(batches, n) \cup {None} /\ cache[n] \in In(batches, n) \cup {None}
  /\ \A n \in Numbers : In(batches, n) # {} => fwd[n] # None
  /\ \A n \in Numbers : \/ fwd[n] = None \/ rev[fwd[n]] = n \/ << n, fwd[n], "half" >> \in batches
                        \/ \E m \in Numbers \ {n} : fwd[n] \in In(batches, m)
  /\ \A l \in Lids : rev[l] # None => l \in In(batches, rev[l])

LEMMA IdleKnows == Knows(Idle, batches)
BY IdleRecord, NoneIsNoName DEF Knows

LEMMA MapInit == Init => MapInv
<1> SUFFICES ASSUME Init PROVE MapInv
  OBVIOUS
<1>1. fwd = [n \in Numbers |-> None] /\ rev = [l \in Lids |-> None] /\ cache = [n \in Numbers |-> None]
  BY DEF Init
<1>2. handlers = [s \in Stanzas |-> Idle] /\ batches = {}
  BY DEF Init
<1>3. \A n \in Numbers : In(batches, n) = {}
  BY <1>2 DEF In
<1> QED
  BY <1>1, <1>2, <1>3, IdleRecord, IdleKnows, NoneIsNoName DEF MapInv

\* A handler of a fresh process or stanza, or one that ended, knows nothing.
LEMMA EndKnows ==
  ASSUME NEW h \in Handlers, NEW how \in Over
  PROVE  Knows(End(how, h), batches)
BY EndIsHandler, NoneIsNoName DEF Knows, Over

\* What a handler knows stays true as batches are written.
LEMMA StillKnows ==
  ASSUME NEW B, NEW C, B \subseteq C
  PROVE  /\ \A n : In(B, n) \subseteq In(C, n)
         /\ \A h : Knows(h, B) => Knows(h, C)
<1>1. \A n : In(B, n) \subseteq In(C, n)
  BY DEF In
<1> QED
  BY <1>1 DEF Knows

\* One handler moves on and the store stays.
LEMMA HandlerMoves ==
  ASSUME MapInv, NEW s \in Stanzas, NEW h, h \in Handlers, Sound(h), Knows(h, batches),
         handlers' = [handlers EXCEPT ![s] = h],
         UNCHANGED << fwd, rev, batches >>,
         cache' \in [Numbers -> Lids \cup {None}],
         \A n \in Numbers : cache'[n] \in In(batches, n) \cup {None}
  PROVE  MapInv'
<1>1. handlers' \in [Stanzas -> Handlers] /\ \A t \in Stanzas : handlers'[t] = h \/ handlers'[t] = handlers[t]
  BY DEF MapInv
<1>2. fwd' = fwd /\ rev' = rev /\ batches' = batches
  OBVIOUS
<1>3. \A t \in Stanzas : Sound(handlers'[t]) /\ Knows(handlers'[t], batches)
  BY <1>1 DEF MapInv
<1> QED
  BY <1>1, <1>2, <1>3 DEF MapInv

LEMMA OneMoves ==
  ASSUME MapInv, NEW s \in Stanzas, NEW h, h \in Handlers, Sound(h), Knows(h, batches),
         handlers' = [handlers EXCEPT ![s] = h], UNCHANGED << fwd, rev, cache, batches >>
  PROVE  MapInv'
<1>1. cache' \in [Numbers -> Lids \cup {None}] /\ \A n \in Numbers : cache'[n] \in In(batches, n) \cup {None}
  BY DEF MapInv
<1> QED
  BY <1>1, HandlerMoves

\* An answer is cached.
LEMMA Filled ==
  ASSUME MapInv, NEW n \in Numbers, NEW seen \in In(batches, n) \cup {None}, Fill(n, seen)
  PROVE  /\ cache' \in [Numbers -> Lids \cup {None}]
         /\ \A m \in Numbers : cache'[m] \in In(batches, m) \cup {None}
<1>1. seen \in Lids \cup {None}
  BY DEF In
<1>2. cache \in [Numbers -> Lids \cup {None}] /\ \A m \in Numbers : cache[m] \in In(batches, m) \cup {None}
  BY DEF MapInv
<1>3. CASE seen = None
  BY <1>2, <1>3 DEF Fill
<1>4. CASE seen # None
  <2>1. cache' = [cache EXCEPT ![n] = seen]
    BY <1>4 DEF Fill
  <2> QED
    BY <1>1, <1>2, <2>1
<1> QED
  BY <1>3, <1>4

\* A batch is written, or its first entry: a number's old LID stays among those
\* it had, and the LID's old number among those that had it.
LEMMA BatchWritten ==
  ASSUME MapInv, NEW s \in Stanzas, NEW h, h \in Handlers, Sound(h),
         NEW a \in Numbers, NEW l \in Lids, NEW how \in {"both", "half"},
         batches' = batches \cup {<< a, l, how >>},
         Knows(h, batches'),
         handlers' = [handlers EXCEPT ![s] = h],
         fwd' = [fwd EXCEPT ![a] = l],
         rev' = IF how = "both" THEN [rev EXCEPT ![l] = a] ELSE rev,
         cache' \in [Numbers -> Lids \cup {None}],
         \A n \in Numbers : cache'[n] \in In(batches, n) \cup {None}
  PROVE  MapInv'
<1>1. handlers' \in [Stanzas -> Handlers] /\ \A t \in Stanzas : handlers'[t] = h \/ handlers'[t] = handlers[t]
  BY DEF MapInv
<1>2. \A n : In(batches, n) \subseteq In(batches', n)
  BY StillKnows
<1>3. \A t \in Stanzas : Sound(handlers'[t]) /\ Knows(handlers'[t], batches')
  <2>1. \A t \in Stanzas : Sound(handlers[t]) /\ Knows(handlers[t], batches)
    BY DEF MapInv
  <2>2. \A t \in Stanzas : Knows(handlers[t], batches')
    BY <2>1, StillKnows
  <2> QED
    BY <1>1, <2>1, <2>2
<1>4. l \in In(batches', a)
  BY DEF In
<1>5. \A n \in Numbers \ {a} : In(batches', n) = In(batches, n)
  BY DEF In
<1>6. /\ fwd \in [Numbers -> Lids \cup {None}] /\ rev \in [Lids -> Numbers \cup {None}]
      /\ \A n \in Numbers : fwd[n] \in In(batches, n) \cup {None}
      /\ \A n \in Numbers : In(batches, n) # {} => fwd[n] # None
      /\ \A n \in Numbers : \/ fwd[n] = None \/ rev[fwd[n]] = n \/ << n, fwd[n], "half" >> \in batches
                            \/ \E m \in Numbers \ {n} : fwd[n] \in In(batches, m)
      /\ \A m \in Lids : rev[m] # None => m \in In(batches, rev[m])
  BY DEF MapInv
<1>7. fwd'[a] = l /\ \A n \in Numbers \ {a} : fwd'[n] = fwd[n]
  BY <1>6
<1>8. /\ fwd' \in [Numbers -> Lids \cup {None}] /\ rev' \in [Lids -> Numbers \cup {None}]
      /\ \A m \in Lids : rev'[m] = rev[m] \/ (m = l /\ rev'[m] = a)
      /\ how = "both" => rev'[l] = a
  BY <1>6
<1>9. \A n \in Numbers : /\ fwd'[n] \in In(batches', n) \cup {None}
                         /\ cache'[n] \in In(batches', n) \cup {None}
                         /\ In(batches', n) # {} => fwd'[n] # None
  <2> SUFFICES ASSUME NEW n \in Numbers
               PROVE  /\ fwd'[n] \in In(batches', n) \cup {None}
                      /\ cache'[n] \in In(batches', n) \cup {None}
                      /\ In(batches', n) # {} => fwd'[n] # None
    OBVIOUS
  <2>1. cache'[n] \in In(batches', n) \cup {None}
    BY <1>2
  <2>2. CASE n = a
    BY <1>4, <1>7, <2>1, <2>2, NoneIsNoName
  <2>3. CASE n # a
    BY <1>5, <1>6, <1>7, <2>1, <2>3
  <2> QED
    BY <2>2, <2>3
<1>10. ASSUME NEW n \in Numbers
       PROVE  \/ fwd'[n] = None \/ rev'[fwd'[n]] = n \/ << n, fwd'[n], "half" >> \in batches'
              \/ \E m \in Numbers \ {n} : fwd'[n] \in In(batches', m)
  <2>1. CASE n = a
    BY <1>7, <1>8, <2>1
  <2>2. CASE n # a /\ fwd[n] = l
    BY <1>4, <1>7, <2>2
  <2>3. CASE n # a /\ fwd[n] # l /\ fwd[n] # None
    <3>1. fwd'[n] = fwd[n] /\ fwd[n] \in Lids /\ rev'[fwd[n]] = rev[fwd[n]]
      BY <1>6, <1>7, <1>8, <2>3
    <3> QED
      BY <1>2, <1>6, <3>1
  <2>4. CASE n # a /\ fwd[n] = None
    BY <1>7, <2>4
  <2> QED
    BY <2>1, <2>2, <2>3, <2>4
<1>11. \A m \in Lids : rev'[m] # None => m \in In(batches', rev'[m])
  BY <1>2, <1>4, <1>6, <1>8
<1> QED
  BY <1>1, <1>3, <1>8, <1>9, <1>10, <1>11 DEF MapInv

LEMMA NextChildKnows ==
  ASSUME NEW h \in Handlers, Knows(h, batches), h.author # None,
         h.left = << >> => h.content \/ h.stub \/ h.kind = "once"
  PROVE  Knows(NextChild(h), batches)
BY NextChildIsHandler DEF Knows, Reading

\* After a ciphertext, opened or not.
LEMMA GoesOn ==
  ASSUME NEW h \in Handlers, Sound(h), Knows(h, batches), h.pc \in Resolving
  PROVE  /\ Failed(h) \in Handlers /\ Sound(Failed(h)) /\ Knows(Failed(h), batches)
         /\ Opened(h) \in Handlers /\ Sound(Opened(h)) /\ Knows(Opened(h), batches)
         /\ Failed(h).pc \in {"resolve"} \cup Reading /\ Opened(h).pc \in {"resolve"} \cup Reading
<1>1. h.left \in Seq(Ciphers) /\ h.left # << >> /\ h.author # None
  BY DEF Handlers, Sound
<1>2. Tail(h.left) \in Seq(Ciphers)
  BY <1>1, HeadTailProperties
<1> DEFINE f == [h EXCEPT !.left = Tail(@), !.stub = TRUE]
           o == [h EXCEPT !.left = Tail(@), !.content = TRUE]
<1>3. f \in Handlers /\ o \in Handlers /\ f.stub /\ o.content /\ f.author # None /\ o.author # None
  BY <1>1, <1>2 DEF Handlers
<1>4. Knows(f, batches) /\ Knows(o, batches)
  <2>1. \A g \in {f, o} : g.pc = h.pc /\ g.author = h.author /\ g.alt = h.alt /\ g.seen = h.seen /\ g.jid = h.jid
    BY DEF Handlers
  <2> HIDE DEF f, o
  <2> QED
    BY <2>1 DEF Knows
<1>5. Failed(h) = NextChild(f) /\ Opened(h) = NextChild(o)
  BY DEF Failed, Opened
<1> HIDE DEF f, o
<1> QED
  BY <1>3, <1>4, <1>5, NextChildIsHandler, NextChildKnows

LEMMA FinishIsHandler ==
  ASSUME NEW h \in Handlers, Knows(h, batches), h.pc \in Reading \cup Telling
  PROVE  /\ Finish(h) \in Handlers /\ Sound(Finish(h)) /\ Knows(Finish(h), batches)
         /\ Finish(h).pc \in {"middleware", "ended"}
<1>1. End("ended", h) \in Handlers /\ Sound(End("ended", h)) /\ Knows(End("ended", h), batches) /\ End("ended", h).pc = "ended"
  BY EndIsHandler, EndKnows DEF Over
<1> DEFINE m == [h EXCEPT !.pc = "middleware", !.layer = 1]
<1>2. m \in Handlers /\ m.pc = "middleware" /\ Sound(m)
  BY ZenonT(30) DEF Handlers, Sound, Telling, Resolving, Reading
<1>3. Knows(m, batches)
  <2>1. m.author = h.author /\ m.alt = h.alt
    BY DEF Handlers
  <2> QED
    BY <1>2, <2>1 DEF Knows
<1> HIDE DEF m
<1>4. Finish(h) \in {m, End("ended", h)}
  BY DEF Finish, Process, m
<1> QED
  BY <1>1, <1>2, <1>3, <1>4

-----------------------------------------------------------------------------
(***************************************************************************)
(* Each step.                                                              *)
(***************************************************************************)

LEMMA DecodedIsHandler ==
  ASSUME NEW shape \in Shapes
  PROVE  /\ Decoded(shape) \in Handlers /\ Sound(Decoded(shape)) /\ Knows(Decoded(shape), batches)
         /\ Decoded(shape).pc \in {"resolve"} \cup Reading
<1> DEFINE stub == (shape.encs = << >> /\ shape.kind # "once")
           h == [Idle EXCEPT !.author = shape.author, !.alt = shape.alt, !.left = shape.encs,
                             !.kind = shape.kind, !.stub = stub]
<1>1. /\ shape.author \in Numbers \cup Lids /\ shape.alt \in Lids \cup {None} /\ shape.encs \in Seq(Ciphers)
      /\ shape.kind \in Kinds
  BY ReceiveAssumption
<1>3. stub \in BOOLEAN
  OBVIOUS
<1>4. Decoded(shape) = NextChild(h)
  BY DEF Decoded
<1> HIDE DEF stub
<1>5. h \in Handlers /\ h.author = shape.author /\ h.pc = "idle"
      /\ h.left = shape.encs /\ h.kind = shape.kind /\ h.stub = stub
  BY <1>1, <1>3, IdleRecord, ZenonT(30) DEF Handlers
<1> HIDE DEF h
<1>6. Knows(h, batches)
  BY <1>5 DEF Knows
<1>7. h.left = << >> => h.content \/ h.stub \/ h.kind = "once"
  BY <1>5 DEF stub
<1> QED
  BY <1>1, <1>4, <1>5, <1>6, <1>7, NoneIsNoName, NextChildIsHandler, NextChildKnows

LEMMA ResolvePreserves ==
  ASSUME MapInv, NEW s \in Stanzas, Resolve(s)
  PROVE  MapInv'
<1> DEFINE h == handlers[s]
<1>1. h \in Handlers /\ Sound(h) /\ h.pc = "resolve"
  BY DEF MapInv, Resolve
<1>2. h.author \in Numbers \cup Lids /\ h.left # << >>
  BY <1>1 DEF Sound, Resolving, Handlers
<1>3. h.author \in Numbers => /\ cache[h.author] \in Lids \cup {None} /\ fwd[h.author] \in Lids \cup {None}
                              /\ fwd[h.author] \in In(batches, h.author) \cup {None}
  BY DEF MapInv
<1>4. PICK g : /\ handlers' = [handlers EXCEPT ![s] = g]
               /\ \/ h.author \in Lids /\ g = [h EXCEPT !.pc = "decrypt", !.jid = h.author]
                  \/ h.author \in Numbers /\ g = [h EXCEPT !.pc = "decrypt", !.jid = cache[h.author]]
                  \/ h.author \in Numbers /\ g = [h EXCEPT !.pc = "resolving", !.seen = fwd[h.author]]
  BY <1>2 DEF Resolve
<1> HIDE DEF h
<1>5. /\ g \in Handlers /\ g.author = h.author /\ g.left = h.left
      /\ \/ g.pc = "decrypt"
         \/ g.pc = "resolving" /\ h.author \in Numbers /\ g.seen = fwd[h.author]
  BY <1>1, <1>2, <1>3, <1>4, ZenonT(30) DEF Handlers, Resolving
<1>6. Sound(g) /\ Knows(g, batches)
  BY <1>1, <1>2, <1>3, <1>5, NoneIsNoName DEF Sound, Knows, Reading, Resolving
<1> QED
  BY <1>4, <1>5, <1>6, OneMoves DEF Resolve

\* A set goes out, and is answered.
LEMMA SavePreserves ==
  ASSUME MapInv, NEW s \in Stanzas, SaveMapping(s, handlers[s]),
         handlers[s].author \in Numbers, handlers[s].alt # None, handlers[s].pc \in Resolving,
         cache' \in [Numbers -> Lids \cup {None}],
         \A n \in Numbers : cache'[n] \in In(batches, n) \cup {None}
  PROVE  MapInv'
<1> DEFINE h == handlers[s]
           a == h.author
           l == h.alt
           Moved(pc) == [h EXCEPT !.pc = pc, !.jid = a, !.seen = None]
<1>1. h \in Handlers /\ Sound(h) /\ a \in Numbers /\ l \in Lids /\ h.left # << >>
  BY DEF MapInv, Sound, Handlers
<1>2. ASSUME NEW pc \in {"stored", "decrypt"}
      PROVE  /\ Moved(pc) \in Handlers /\ Moved(pc).pc = pc /\ Moved(pc).author = a /\ Moved(pc).alt = l
             /\ Moved(pc).left = h.left
  <2>1. a \in Numbers \cup Lids \cup {None} /\ None \in Lids \cup {None}
    BY <1>1
  <2> HIDE DEF a, l
  <2>2. Moved(pc).author = h.author /\ Moved(pc).alt = h.alt
    BY <1>1 DEF Handlers
  <2> QED
    BY <1>1, <2>1, <2>2 DEF Handlers, Resolving, a, l
<1>3. \A pc \in {"stored", "decrypt"} : Sound(Moved(pc))
  BY <1>1, <1>2, NoneIsNoName DEF Sound, Reading
<1>4. \A B : Knows(Moved("decrypt"), B) /\ (l \in In(B, a) => Knows(Moved("stored"), B))
  BY <1>1, <1>2, NoneIsNoName DEF Knows
<1>5. \/ /\ fwd' = [fwd EXCEPT ![a] = l] /\ rev' = [rev EXCEPT ![l] = a]
         /\ batches' = batches \cup {<< a, l, "both" >>} /\ handlers' = [handlers EXCEPT ![s] = Moved("stored")]
      \/ /\ fwd' = [fwd EXCEPT ![a] = l] /\ UNCHANGED rev
         /\ batches' = batches \cup {<< a, l, "half" >>} /\ handlers' = [handlers EXCEPT ![s] = Moved("decrypt")]
      \/ handlers' = [handlers EXCEPT ![s] = Moved("decrypt")] /\ UNCHANGED << fwd, rev, batches >>
  BY DEF SaveMapping
<1> HIDE DEF Moved, h, a, l
<1>6. CASE /\ fwd' = [fwd EXCEPT ![a] = l] /\ rev' = [rev EXCEPT ![l] = a]
           /\ batches' = batches \cup {<< a, l, "both" >>} /\ handlers' = [handlers EXCEPT ![s] = Moved("stored")]
  <2>1. l \in In(batches', a)
    BY <1>1, <1>6 DEF In
  <2>2. Knows(Moved("stored"), batches')
    BY <1>4, <2>1
  <2>3. rev' = IF "both" = "both" THEN [rev EXCEPT ![l] = a] ELSE rev
    BY <1>6
  <2> QED
    BY <1>1, <1>2, <1>3, <1>6, <2>2, <2>3, BatchWritten
<1>7. CASE /\ fwd' = [fwd EXCEPT ![a] = l] /\ UNCHANGED rev
           /\ batches' = batches \cup {<< a, l, "half" >>} /\ handlers' = [handlers EXCEPT ![s] = Moved("decrypt")]
  <2>1. Knows(Moved("decrypt"), batches')
    BY <1>4
  <2>2. rev' = IF "half" = "both" THEN [rev EXCEPT ![l] = a] ELSE rev
    BY <1>7
  <2> QED
    BY <1>1, <1>2, <1>3, <1>7, <2>1, <2>2, BatchWritten
<1>8. CASE handlers' = [handlers EXCEPT ![s] = Moved("decrypt")] /\ UNCHANGED << fwd, rev, batches >>
  BY <1>2, <1>3, <1>4, <1>8, HandlerMoves
<1> QED
  BY <1>5, <1>6, <1>7, <1>8

LEMMA ResolvedPreserves ==
  ASSUME MapInv, NEW s \in Stanzas, Resolved(s)
  PROVE  MapInv'
<1> DEFINE h == handlers[s]
           a == h.author
           Gone(pc, jid, seen) == [h EXCEPT !.pc = pc, !.jid = jid, !.seen = seen]
<1>1. h \in Handlers /\ Sound(h) /\ Knows(h, batches) /\ h.pc = "resolving"
  BY DEF MapInv, Resolved
<1>2. /\ a \in Numbers /\ h.seen \in In(batches, a) \cup {None} /\ h.seen \in Lids \cup {None} /\ h.left # << >>
      /\ h.alt \in Lids \cup {None}
  BY <1>1 DEF Knows, Sound, Resolving, Handlers
<1>3. fwd[a] \in In(batches, a) \cup {None} /\ fwd[a] \in Lids \cup {None}
  BY <1>2 DEF MapInv
<1>4. /\ cache' \in [Numbers -> Lids \cup {None}]
      /\ \A n \in Numbers : cache'[n] \in In(batches, n) \cup {None}
  <2>1. Fill(a, h.seen)
    BY DEF Resolved
  <2> QED
    BY <1>2, <2>1, Filled
<1>5. \/ \E jid \in {a, h.seen} : handlers' = [handlers EXCEPT ![s] = Gone("decrypt", jid, None)]
                                  /\ UNCHANGED << fwd, rev, batches >>
      \/ handlers' = [handlers EXCEPT ![s] = Gone("checked", a, fwd[a])] /\ h.alt # None
         /\ UNCHANGED << fwd, rev, batches >>
      \/ h.alt # None /\ SaveMapping(s, h)
  BY DEF Resolved
<1>6. CASE \E jid \in {a, h.seen} : handlers' = [handlers EXCEPT ![s] = Gone("decrypt", jid, None)]
                                    /\ UNCHANGED << fwd, rev, batches >>
  <2>1. PICK jid \in {a, h.seen} : handlers' = [handlers EXCEPT ![s] = Gone("decrypt", jid, None)]
    BY <1>6
  <2> DEFINE g == Gone("decrypt", jid, None)
  <2>2. jid \in Numbers \cup Lids \cup {None}
    BY <1>2
  <2>3. g \in Handlers /\ g.pc = "decrypt" /\ g.author = h.author /\ g.left = h.left
    BY <1>1, <2>2 DEF Handlers, Resolving
  <2> HIDE DEF g
  <2>4. Sound(g) /\ Knows(g, batches)
    BY <1>2, <2>3, NoneIsNoName DEF Sound, Knows, Reading
  <2> HIDE DEF h, a, Gone
  <2> QED
    BY <1>4, <1>6, <2>1, <2>3, <2>4, HandlerMoves DEF g
<1>7. CASE handlers' = [handlers EXCEPT ![s] = Gone("checked", a, fwd[a])] /\ h.alt # None
           /\ UNCHANGED << fwd, rev, batches >>
  <2> DEFINE g == Gone("checked", a, fwd[a])
  <2>1. g \in Handlers /\ g.pc = "checked" /\ g.author = h.author /\ g.left = h.left /\ g.alt = h.alt /\ g.seen = fwd[a]
    BY <1>1, <1>2, <1>3 DEF Handlers, Resolving
  <2> HIDE DEF g
  <2>2. Sound(g) /\ Knows(g, batches)
    BY <1>2, <1>3, <1>7, <2>1, NoneIsNoName DEF Sound, Knows, Reading
  <2> HIDE DEF h, a, Gone
  <2> QED
    BY <1>4, <1>7, <2>1, <2>2, HandlerMoves DEF g
<1>8. CASE h.alt # None /\ SaveMapping(s, h)
  BY <1>1, <1>2, <1>4, <1>8, SavePreserves DEF Resolving
<1> QED
  BY <1>5, <1>6, <1>7, <1>8

LEMMA StoreMappingPreserves ==
  ASSUME MapInv, NEW s \in Stanzas, StoreMapping(s)
  PROVE  MapInv'
<1> DEFINE h == handlers[s]
           a == h.author
           d == [h EXCEPT !.pc = "decrypt", !.seen = None]
<1>1. h \in Handlers /\ Sound(h) /\ Knows(h, batches) /\ h.pc = "checked"
  BY DEF MapInv, StoreMapping
<1>2. a \in Numbers /\ h.seen \in In(batches, a) \cup {None} /\ h.alt # None /\ h.left # << >>
  BY <1>1 DEF Knows, Sound, Resolving, Handlers
<1>3. /\ cache' \in [Numbers -> Lids \cup {None}]
      /\ \A n \in Numbers : cache'[n] \in In(batches, n) \cup {None}
  <2>1. Fill(a, h.seen)
    BY DEF StoreMapping
  <2> QED
    BY <1>2, <2>1, Filled
<1>4. \/ handlers' = [handlers EXCEPT ![s] = d] /\ UNCHANGED << fwd, rev, batches >>
      \/ SaveMapping(s, h)
  BY DEF StoreMapping
<1>5. CASE handlers' = [handlers EXCEPT ![s] = d] /\ UNCHANGED << fwd, rev, batches >>
  <2>1. d \in Handlers /\ d.pc = "decrypt" /\ d.author = h.author /\ d.left = h.left
    BY <1>1 DEF Handlers, Resolving
  <2> HIDE DEF d
  <2>2. Sound(d) /\ Knows(d, batches)
    BY <1>2, <2>1, NoneIsNoName DEF Sound, Knows, Reading
  <2> HIDE DEF h, a
  <2> QED
    BY <1>3, <1>5, <2>1, <2>2, HandlerMoves
<1>6. CASE SaveMapping(s, h)
  BY <1>1, <1>2, <1>3, <1>6, SavePreserves DEF Resolving
<1> QED
  BY <1>4, <1>5, <1>6

LEMMA StoredPreserves ==
  ASSUME MapInv, NEW s \in Stanzas, Stored(s)
  PROVE  MapInv'
<1> DEFINE h == handlers[s]
           g == [h EXCEPT !.pc = "decrypt"]
<1>1. h \in Handlers /\ Sound(h) /\ Knows(h, batches) /\ h.pc = "stored"
  BY DEF MapInv, Stored
<1>2. h.author \in Numbers /\ h.alt \in In(batches, h.author) /\ h.alt \in Lids /\ h.left # << >>
  BY <1>1 DEF Knows, Sound, Resolving, In
<1>3. g \in Handlers /\ g.pc = "decrypt" /\ g.author = h.author /\ g.left = h.left
  BY <1>1 DEF Handlers, Resolving
<1>4. /\ UNCHANGED << fwd, rev, batches >> /\ handlers' = [handlers EXCEPT ![s] = g]
      /\ cache' = [cache EXCEPT ![h.author] = h.alt]
  BY DEF Stored
<1> HIDE DEF g
<1>5. Sound(g) /\ Knows(g, batches)
  BY <1>2, <1>3, NoneIsNoName DEF Sound, Knows, Reading
<1>6. /\ cache' \in [Numbers -> Lids \cup {None}]
      /\ \A n \in Numbers : cache'[n] \in In(batches, n) \cup {None}
  BY <1>2, <1>4 DEF MapInv
<1> HIDE DEF h
<1> QED
  BY <1>3, <1>4, <1>5, <1>6, HandlerMoves

\* A get goes out, to locate the session.
LEMMA WaitIsHandler ==
  ASSUME NEW h \in Handlers, Sound(h), h.pc \in Resolving, h.jid \in Numbers,
         NEW pc \in {"loading", "storing"}, NEW y \in In(batches, h.jid) \cup {None}
  PROVE  LET g == [h EXCEPT !.pc = pc, !.seen = y]
         IN  g \in Handlers /\ Sound(g) /\ Knows(g, batches) /\ g.pc \in Resolving
<1> DEFINE g == [h EXCEPT !.pc = pc, !.seen = y]
<1>1. pc \in Resolving /\ y \in Lids \cup {None}
  BY DEF Resolving, In
<1>2. /\ g.pc = pc /\ g.author = h.author /\ g.left = h.left /\ g.jid = h.jid /\ g.seen = y
  BY DEF Handlers
<1>3. g \in Handlers
  BY <1>1 DEF Handlers
<1> HIDE DEF g
<1>4. Sound(g)
  BY <1>1, <1>2 DEF Sound, Resolving, Reading
<1>5. Knows(g, batches)
  BY <1>2 DEF Knows
<1> QED
  BY <1>1, <1>2, <1>3, <1>4, <1>5 DEF g

\* Whatever a load or a store of the session comes to.
LEMMA DecryptMoves ==
  ASSUME MapInv, NEW s \in Stanzas, Decrypt(s) \/ Loading(s) \/ Ratchet(s) \/ Storing(s)
  PROVE  \E g \in Handlers :
           /\ handlers' = [handlers EXCEPT ![s] = g] /\ Sound(g) /\ Knows(g, batches)
           /\ g.pc \in Resolving \cup Reading
<1> DEFINE h == handlers[s]
           r == [h EXCEPT !.pc = "ratchet", !.seen = None]
           W(pc) == [h EXCEPT !.pc = pc, !.seen = fwd[h.jid]]
<1>1. h \in Handlers /\ Sound(h) /\ Knows(h, batches) /\ h.pc \in {"decrypt", "loading", "ratchet", "storing"}
  BY DEF MapInv, Decrypt, Ratchet, Loading, Storing
<1>2. \/ \E g \in {r, Opened(h), Failed(h)} : handlers' = [handlers EXCEPT ![s] = g]
      \/ /\ h.jid \in Numbers
         /\ \E pc \in {"loading", "storing"} : handlers' = [handlers EXCEPT ![s] = W(pc)]
  <2>1. CASE Decrypt(s)
    BY <2>1 DEF Decrypt, Load, Located
  <2>2. CASE Loading(s)
    BY <2>2 DEF Loading, Load
  <2>3. CASE Ratchet(s)
    <3>1. CASE Located(h.jid) /\ Keep(s, Location(h.jid))
      BY <3>1 DEF Keep
    <3>2. CASE ~Located(h.jid) /\ handlers' = [handlers EXCEPT ![s] = W("storing")]
      BY <3>2 DEF Located
    <3> QED
      BY <2>3, <3>1, <3>2 DEF Ratchet
  <2>4. CASE Storing(s)
    BY <2>4 DEF Storing, Keep
  <2> QED
    BY <2>1, <2>2, <2>3, <2>4
<1>3. r \in Handlers /\ r.pc = "ratchet" /\ r.author = h.author /\ r.left = h.left
  BY <1>1 DEF Handlers, Resolving
<1>4. Sound(r) /\ Knows(r, batches)
  <2> HIDE DEF r
  <2> QED
    BY <1>1, <1>3 DEF Sound, Knows, Reading, Resolving
<1>5. CASE h.jid \in Numbers /\ \E pc \in {"loading", "storing"} : handlers' = [handlers EXCEPT ![s] = W(pc)]
  <2>1. PICK pc \in {"loading", "storing"} : handlers' = [handlers EXCEPT ![s] = W(pc)]
    BY <1>5
  <2>2. fwd[h.jid] \in In(batches, h.jid) \cup {None}
    BY <1>5 DEF MapInv
  <2>3. h.pc \in Resolving
    BY <1>1 DEF Resolving
  <2> HIDE DEF h
  <2>4. W(pc) \in Handlers /\ Sound(W(pc)) /\ Knows(W(pc), batches) /\ W(pc).pc \in Resolving
    BY <1>1, <1>5, <2>2, <2>3, WaitIsHandler
  <2> HIDE DEF W
  <2> QED
    BY <2>1, <2>4
<1>6. CASE \E g \in {r, Opened(h), Failed(h)} : handlers' = [handlers EXCEPT ![s] = g]
  <2> HIDE DEF r, h
  <2>1. \A g \in {r, Opened(h), Failed(h)} :
          g \in Handlers /\ Sound(g) /\ Knows(g, batches) /\ g.pc \in Resolving \cup Reading
    BY <1>1, <1>3, <1>4, GoesOn DEF Resolving
  <2> QED
    BY <1>6, <2>1
<1> QED
  BY <1>2, <1>5, <1>6

LEMMA DecryptPreserves ==
  ASSUME MapInv, NEW s \in Stanzas, Decrypt(s) \/ Loading(s) \/ Ratchet(s) \/ Storing(s)
  PROVE  MapInv'
<1> DEFINE h == handlers[s]
<1>1. PICK g \in Handlers : handlers' = [handlers EXCEPT ![s] = g] /\ Sound(g) /\ Knows(g, batches)
  BY DecryptMoves
<1>2. UNCHANGED << fwd, rev, batches >>
  BY DEF Decrypt, Loading, Ratchet, Storing
<1>3. CASE UNCHANGED cache
  BY <1>1, <1>2, <1>3, OneMoves
<1>4. CASE Fill(h.jid, h.seen) /\ h.pc \in {"loading", "storing"}
  <2>1. h.jid \in Numbers /\ h.seen \in In(batches, h.jid) \cup {None}
    BY <1>4 DEF MapInv, Knows
  <2>2. /\ cache' \in [Numbers -> Lids \cup {None}]
        /\ \A n \in Numbers : cache'[n] \in In(batches, n) \cup {None}
    BY <1>4, <2>1, Filled
  <2> QED
    BY <1>1, <1>2, <2>2, HandlerMoves
<1> QED
  BY <1>3, <1>4 DEF Decrypt, Loading, Ratchet, Storing

LEMMA TellPreserves ==
  ASSUME MapInv, NEW s \in Stanzas,
         Download(s) \/ Announce(s) \/ KeysStored(s) \/ Middleware(s)
  PROVE  MapInv'
<1> DEFINE h == handlers[s]
           n == [h EXCEPT !.pc = "announce"]
           k == [h EXCEPT !.pc = "keys"]
           m == [h EXCEPT !.layer = @ + 1]
<1>1. h \in Handlers /\ Sound(h) /\ Knows(h, batches)
  BY DEF MapInv
<1>2. h.pc \in Reading \cup Telling
  BY DEF Download, Announce, KeysStored, Middleware, Reading, Telling
<1>3. UNCHANGED << fwd, rev, cache, batches >>
  BY DEF Download, Announce, KeysStored, Middleware
<1>4. n \in Handlers /\ n.pc = "announce" /\ n.author = h.author /\ n.alt = h.alt
      /\ n.content = h.content /\ n.stub = h.stub /\ n.kind = h.kind
  BY <1>1 DEF Handlers, Reading
<1>5. k \in Handlers /\ k.pc = "keys" /\ k.author = h.author /\ k.alt = h.alt
  BY <1>1 DEF Handlers, Telling
<1>6. m \in Handlers /\ m.pc = h.pc /\ m.author = h.author /\ m.alt = h.alt
  BY <1>1 DEF Handlers
<1>7. h.pc \in Reading => Sound(n) /\ Knows(n, batches)
  BY <1>1, <1>4 DEF Sound, Knows, Reading, Resolving
<1>8. Sound(k) /\ Knows(k, batches)
  BY <1>1, <1>5 DEF Sound, Knows, Reading, Resolving
<1>9. h.pc \in Telling => Sound(m) /\ Knows(m, batches)
  BY <1>1, <1>6 DEF Sound, Knows, Reading, Resolving, Telling
<1>10. \/ h.pc \in Reading /\ handlers' = [handlers EXCEPT ![s] = n]
       \/ handlers' = [handlers EXCEPT ![s] = k]
       \/ h.pc \in Telling /\ handlers' = [handlers EXCEPT ![s] = m]
       \/ handlers' = [handlers EXCEPT ![s] = Finish(h)]
       \/ handlers' = [handlers EXCEPT ![s] = End("ended", h)]
       \/ handlers' = [handlers EXCEPT ![s] = End("dropped", h)]
  <2>1. CASE Download(s)
    BY <2>1 DEF Download, Reading
  <2>2. CASE Announce(s)
    <3>1. CASE h.kind = "bare" /\ h.content
      BY <2>2, <3>1 DEF Announce
    <3>2. CASE ~(h.kind = "bare" /\ h.content)
      <4>1. PICK throws \in BOOLEAN : handlers' = [handlers EXCEPT ![s] =
              CASE throws -> End("ended", h)
                [] ~throws /\ h.kind = "keys" /\ h.content -> k
                [] OTHER -> Finish(h)]
        BY <2>2, <3>2 DEF Announce
      <4> HIDE DEF k
      <4> QED
        BY <4>1
    <3> QED
      BY <3>1, <3>2
  <2>3. CASE KeysStored(s)
    BY <2>3 DEF KeysStored
  <2>4. CASE Middleware(s)
    BY <1>1, <2>4 DEF Middleware, Telling
  <2> QED
    BY <2>1, <2>2, <2>3, <2>4
<1>11. /\ Finish(h) \in Handlers /\ Sound(Finish(h)) /\ Knows(Finish(h), batches)
       /\ \A how \in {"ended", "dropped"} :
            End(how, h) \in Handlers /\ Sound(End(how, h)) /\ Knows(End(how, h), batches)
  BY <1>1, <1>2, FinishIsHandler, EndIsHandler, EndKnows DEF Over
<1> HIDE DEF h, n, k, m
<1> QED
  BY <1>3, <1>4, <1>5, <1>6, <1>7, <1>8, <1>9, <1>10, <1>11, OneMoves

LEMMA HandlePreserves ==
  ASSUME MapInv, NEW s \in Stanzas, Handle(s)
  PROVE  MapInv'
<1>1. End("ignored", Idle) \in Handlers /\ Sound(End("ignored", Idle)) /\ Knows(End("ignored", Idle), batches)
  BY IdleRecord, EndIsHandler, EndKnows DEF Over
<1>2. PICK g : /\ handlers' = [handlers EXCEPT ![s] = g]
               /\ g = End("ignored", Idle) \/ \E shape \in Shapes : g = Decoded(shape)
  BY DEF Handle
<1>3. g \in Handlers /\ Sound(g) /\ Knows(g, batches)
  BY <1>1, <1>2, DecodedIsHandler
<1> QED
  BY <1>2, <1>3, OneMoves DEF Handle

LEMMA OthersPreserve ==
  ASSUME MapInv, Expire \/ ProcessEnds
  PROVE  MapInv'
<1>1. UNCHANGED << fwd, rev, batches >>
  BY DEF Expire, ProcessEnds
<1>2. cache' \in [Numbers -> Lids \cup {None}] /\ \A n \in Numbers : cache'[n] \in {None, cache[n]}
  <2>1. CASE Expire
    BY <2>1 DEF Expire, MapInv
  <2>2. CASE ProcessEnds
    BY <2>2 DEF ProcessEnds
  <2> QED
    BY <2>1, <2>2
<1>3. handlers' \in [Stanzas -> Handlers] /\ \A s \in Stanzas : handlers'[s] \in {handlers[s], End("lost", Idle)}
  <2>1. End("lost", Idle) \in Handlers
    BY IdleRecord, EndIsHandler DEF Over
  <2>2. CASE Expire
    BY <2>2 DEF Expire, MapInv
  <2>3. CASE ProcessEnds
    BY <2>1, <2>3 DEF ProcessEnds, MapInv
  <2> QED
    BY <2>2, <2>3
<1>4. \A s \in Stanzas : Sound(handlers'[s]) /\ Knows(handlers'[s], batches')
  BY <1>1, <1>3, IdleRecord, EndIsHandler, EndKnows DEF MapInv, Over
<1> QED
  BY <1>1, <1>2, <1>3, <1>4 DEF MapInv

LEMMA MapNext == MapInv /\ [Next]_vars => MapInv'
<1> SUFFICES ASSUME MapInv, [Next]_vars PROVE MapInv'
  OBVIOUS
<1>1. ASSUME NEW s \in Stanzas, Handle(s) PROVE MapInv'
  BY <1>1, HandlePreserves
<1>2. ASSUME NEW s \in Stanzas, Step(s) PROVE MapInv'
  BY <1>2, ResolvePreserves, ResolvedPreserves, StoreMappingPreserves, StoredPreserves,
     DecryptPreserves, TellPreserves DEF Step
<1>3. CASE Expire \/ ProcessEnds
  BY <1>3, OthersPreserve
<1>4. CASE UNCHANGED vars
  <2>1. UNCHANGED << fwd, rev, cache, handlers, batches >>
    BY <1>4 DEF vars
  <2> QED
    BY <2>1 DEF MapInv
<1> QED
  BY <1>1, <1>2, <1>3, <1>4 DEF Next

LEMMA MapAlways == Spec => []MapInv
BY MapInit, MapNext, PTL DEF Spec

\* Nobody is mixed up with anybody, whatever LIDs stanzas name for a number
\* and however handlers overlap: with late answers, sets that fail half-way,
\* expiry and the end of the process.  Where the cache differs from the store,
\* or a LID leads to a number that is now mapped elsewhere, the number had two
\* LIDs; where a LID does not lead back, the batch was half written or another
\* number had it.
THEOREM MapFollowsBack == Spec => []MappingAgrees
<1>1. MapInv => MappingAgrees
  <2> SUFFICES ASSUME MapInv PROVE MappingAgrees
    OBVIOUS
  <2>1. \A n : Had(n) = In(batches, n)
    BY DEF Had, In
  <2>2. ASSUME NEW n \in Numbers
        PROVE  /\ cache[n] \in Had(n) \cup {None}
               /\ cache[n] \in {fwd[n], None} \/ Renamed(n)
               /\ \/ fwd[n] = None \/ rev[fwd[n]] = n \/ << n, fwd[n], "half" >> \in batches
                  \/ \E m \in Numbers \ {n} : fwd[n] \in Had(m)
    <3>1. /\ cache[n] \in Had(n) \cup {None} /\ fwd[n] \in Had(n) \cup {None} /\ (Had(n) # {} => fwd[n] # None)
          /\ \/ fwd[n] = None \/ rev[fwd[n]] = n \/ << n, fwd[n], "half" >> \in batches
             \/ \E m \in Numbers \ {n} : fwd[n] \in Had(m)
      BY <2>1 DEF MapInv
    <3>2. CASE cache[n] \in Had(n) /\ cache[n] # fwd[n]
      <4>1. fwd[n] \in Had(n)
        BY <3>1, <3>2
      <4> QED
        BY <3>1, <3>2, <4>1 DEF Renamed
    <3> QED
      BY <3>1, <3>2
  <2>3. ASSUME NEW l \in Lids, rev[l] # None
        PROVE  l \in Had(rev[l]) /\ (fwd[rev[l]] = l \/ Renamed(rev[l]))
    <3>1. rev[l] \in Numbers /\ l \in Had(rev[l])
      BY <2>1, <2>3 DEF MapInv
    <3>2. fwd[rev[l]] \in Had(rev[l])
      BY <2>1, <3>1 DEF MapInv
    <3> QED
      BY <3>1, <3>2 DEF Renamed
  <2> QED
    BY <2>2, <2>3 DEF MappingAgrees
<1> QED
  BY <1>1, MapAlways, PTL

-----------------------------------------------------------------------------
(***************************************************************************)
(* The announcements.                                                      *)
(***************************************************************************)

Told(u) == \E m \in Upserts : u = << m >> /\ (m.content \/ m.stub \/ m.once)

\* Before a handler announces its message nothing is announced; after, one.
Announces(h, u) ==
  /\ h.pc \in {"idle", "ignored"} \cup Resolving \cup Reading => u = << >>
  /\ h.pc \in Telling \cup {"ended"} => Told(u)
  /\ h.pc = "dropped" => u = << >> /\ h.kind = "bare"
  /\ u = << >> \/ Told(u)

AnnounceInv ==
  /\ MapInv
  /\ DOMAIN upserts = Stanzas /\ upserts = [s \in Stanzas |-> upserts[s]]
  /\ \A s \in Stanzas : Announces(handlers[s], upserts[s])

LEMMA OneAnnounces ==
  ASSUME AnnounceInv, NEW s \in Stanzas, NEW h, NEW u, Announces(h, u),
         handlers' = [handlers EXCEPT ![s] = h], upserts' = [upserts EXCEPT ![s] = u], MapInv'
  PROVE  AnnounceInv'
<1>1. /\ \A t \in Stanzas \ {s} : handlers'[t] = handlers[t] /\ upserts'[t] = upserts[t]
      /\ handlers'[s] = h /\ upserts'[s] = u
  BY DEF AnnounceInv, MapInv
<1>2. DOMAIN upserts' = Stanzas /\ upserts' = [t \in Stanzas |-> upserts'[t]]
  BY DEF AnnounceInv
<1>3. \A t \in Stanzas : Announces(handlers'[t], upserts'[t])
  BY <1>1 DEF AnnounceInv
<1> QED
  BY <1>2, <1>3 DEF AnnounceInv

LEMMA AnnounceNext == AnnounceInv /\ [Next]_vars => AnnounceInv'
<1> SUFFICES ASSUME AnnounceInv, [Next]_vars PROVE AnnounceInv'
  OBVIOUS
<1>0. MapInv /\ MapInv'
  BY MapNext DEF AnnounceInv
<1>1. ASSUME NEW s \in Stanzas, NEW before, NEW after, handlers[s].pc \in before,
             before \subseteq {"idle", "ignored"} \cup Resolving \cup Reading,
             NEW h, handlers' = [handlers EXCEPT ![s] = h], h.pc \in after,
             after \subseteq {"idle", "ignored"} \cup Resolving \cup Reading, UNCHANGED upserts
      PROVE  AnnounceInv'
  <2>1. upserts[s] = << >>
    BY <1>1 DEF AnnounceInv, Announces
  <2>2. Announces(h, upserts[s])
    BY <1>1, <2>1 DEF Announces, Resolving, Reading, Telling
  <2>3. upserts' = [upserts EXCEPT ![s] = upserts[s]]
    BY <1>1 DEF AnnounceInv
  <2> QED
    BY <1>0, <1>1, <2>2, <2>3, OneAnnounces
<1>2. ASSUME NEW s \in Stanzas, Handle(s) PROVE AnnounceInv'
  <2>1. PICK g : /\ handlers' = [handlers EXCEPT ![s] = g] /\ handlers[s].pc = "idle" /\ UNCHANGED upserts
                 /\ g = End("ignored", Idle) \/ \E shape \in Shapes : g = Decoded(shape)
    BY <1>2 DEF Handle
  <2>2. g.pc \in {"ignored"} \cup {"resolve"} \cup Reading
    BY <2>1, IdleRecord, EndIsHandler, DecodedIsHandler DEF Over
  <2>3. handlers[s].pc \in {"idle"} /\ {"idle"} \subseteq {"idle", "ignored"} \cup Resolving \cup Reading
    BY <2>1
  <2>4. {"ignored"} \cup {"resolve"} \cup Reading \subseteq {"idle", "ignored"} \cup Resolving \cup Reading
    BY DEF Resolving
  <2> QED
    BY <1>1, <2>1, <2>2, <2>3, <2>4
<1> DEFINE Quiet == Resolving \cup Reading
<1>q. Quiet \subseteq {"idle", "ignored"} \cup Resolving \cup Reading
  OBVIOUS
<1>3. ASSUME NEW s \in Stanzas, Resolve(s) \/ Resolved(s) \/ StoreMapping(s) \/ Stored(s) PROVE AnnounceInv'
  <2> DEFINE h == handlers[s]
  <2>1. h \in Handlers /\ h.pc \in Quiet /\ UNCHANGED upserts
    BY <1>0, <1>3 DEF MapInv, Resolve, Resolved, StoreMapping, Stored, Resolving
  <2>2. \E g : handlers' = [handlers EXCEPT ![s] = g] /\ g.pc \in Resolving
    <3>1. \A pc \in Resolving : \A j, x :
            /\ [h EXCEPT !.pc = pc].pc \in Resolving
            /\ [h EXCEPT !.pc = pc, !.jid = j].pc \in Resolving
            /\ [h EXCEPT !.pc = pc, !.seen = x].pc \in Resolving
            /\ [h EXCEPT !.pc = pc, !.jid = j, !.seen = x].pc \in Resolving
      BY <2>1 DEF Handlers
    <3>2. CASE Resolve(s)
      <4>1. \/ \E j \in {h.author, cache[h.author]} :
                 handlers' = [handlers EXCEPT ![s] = [h EXCEPT !.pc = "decrypt", !.jid = j]]
            \/ handlers' = [handlers EXCEPT ![s] = [h EXCEPT !.pc = "resolving", !.seen = fwd[h.author]]]
        BY <3>2 DEF Resolve
      <4> HIDE DEF h
      <4> QED
        BY <3>1, <4>1 DEF Resolving
    <3>3. ASSUME SaveMapping(s, h) PROVE \E g : handlers' = [handlers EXCEPT ![s] = g] /\ g.pc \in Resolving
      <4>1. \E pc \in {"stored", "decrypt"} :
              handlers' = [handlers EXCEPT ![s] = [h EXCEPT !.pc = pc, !.jid = h.author, !.seen = None]]
        BY <3>3 DEF SaveMapping
      <4>2. PICK pc \in {"stored", "decrypt"} :
              handlers' = [handlers EXCEPT ![s] = [h EXCEPT !.pc = pc, !.jid = h.author, !.seen = None]]
        BY <4>1
      <4>3. pc \in Resolving
        BY DEF Resolving
      <4>4. [h EXCEPT !.pc = pc, !.jid = h.author, !.seen = None].pc \in Resolving
        BY <3>1, <4>3
      <4> HIDE DEF h
      <4> QED
        BY <4>2, <4>4
    <3>4. CASE Resolved(s)
      <4>1. \/ \E j \in {h.author, h.seen} :
                 handlers' = [handlers EXCEPT ![s] = [h EXCEPT !.pc = "decrypt", !.jid = j, !.seen = None]]
            \/ handlers' = [handlers EXCEPT ![s] = [h EXCEPT !.pc = "checked", !.jid = h.author, !.seen = fwd[h.author]]]
            \/ SaveMapping(s, h)
        BY <3>4 DEF Resolved
      <4>2. {"decrypt", "checked"} \subseteq Resolving
        BY DEF Resolving
      <4> DEFINE D(j) == [h EXCEPT !.pc = "decrypt", !.jid = j, !.seen = None]
                 C == [h EXCEPT !.pc = "checked", !.jid = h.author, !.seen = fwd[h.author]]
      <4>3. C.pc \in Resolving /\ \A j : D(j).pc \in Resolving
        BY <3>1, <4>2
      <4>4. CASE \E j : handlers' = [handlers EXCEPT ![s] = D(j)]
        <5>1. PICK j : handlers' = [handlers EXCEPT ![s] = D(j)]
          BY <4>4
        <5>2. D(j).pc \in Resolving
          BY <4>3
        <5> HIDE DEF h, D
        <5> QED
          BY <5>1, <5>2
      <4>5. CASE handlers' = [handlers EXCEPT ![s] = C]
        <5> HIDE DEF h, C
        <5> QED
          BY <4>3, <4>5
      <4> QED
        BY <3>3, <4>1, <4>4, <4>5
    <3>5. CASE StoreMapping(s)
      <4>1. \/ handlers' = [handlers EXCEPT ![s] = [h EXCEPT !.pc = "decrypt", !.seen = None]]
            \/ SaveMapping(s, h)
        BY <3>5 DEF StoreMapping
      <4>2. [h EXCEPT !.pc = "decrypt", !.seen = None].pc \in Resolving
        BY <3>1 DEF Resolving
      <4> HIDE DEF h
      <4> QED
        BY <3>3, <4>1, <4>2
    <3>6. CASE Stored(s)
      <4>1. handlers' = [handlers EXCEPT ![s] = [h EXCEPT !.pc = "decrypt"]]
        BY <3>6 DEF Stored
      <4> HIDE DEF h
      <4> QED
        BY <3>1, <4>1 DEF Resolving
    <3> QED
      BY <1>3, <3>2, <3>4, <3>5, <3>6
  <2> HIDE DEF h
  <2> QED
    BY <1>1, <1>q, <2>1, <2>2 DEF h
<1>4. ASSUME NEW s \in Stanzas, Decrypt(s) \/ Loading(s) \/ Ratchet(s) \/ Storing(s) \/ Download(s)
      PROVE  AnnounceInv'
  <2> DEFINE h == handlers[s]
  <2>1. h.pc \in Quiet /\ UNCHANGED upserts
    BY <1>4 DEF Decrypt, Loading, Ratchet, Storing, Download, Resolving, Reading
  <2>2. \E g : handlers' = [handlers EXCEPT ![s] = g] /\ g.pc \in Quiet
    <3>1. CASE Download(s)
      <4>1. h \in Handlers /\ handlers' = [handlers EXCEPT ![s] = [h EXCEPT !.pc = "announce"]]
        BY <1>0, <3>1 DEF Download, MapInv
      <4>2. [h EXCEPT !.pc = "announce"].pc \in Quiet
        BY <4>1 DEF Handlers, Reading
      <4> QED
        BY <4>1, <4>2
    <3>2. CASE ~Download(s)
      BY <1>0, <1>4, <3>2, DecryptMoves
    <3> QED
      BY <3>1, <3>2
  <2> HIDE DEF h
  <2> QED
    BY <1>1, <1>q, <2>1, <2>2 DEF h
<1>5. ASSUME NEW s \in Stanzas, Announce(s) PROVE AnnounceInv'
  <2> DEFINE h == handlers[s]
             m == [content |-> h.content, stub |-> h.stub, once |-> h.kind = "once"]
  <2>1. h \in Handlers /\ Sound(h) /\ Knows(h, batches) /\ h.pc = "announce" /\ upserts[s] = << >>
    BY <1>5 DEF MapInv, AnnounceInv, Announce, Announces, Reading
  <2>2. CASE h.kind = "bare" /\ h.content
    <3>1. handlers' = [handlers EXCEPT ![s] = End("dropped", h)] /\ UNCHANGED upserts
      BY <1>5, <2>2 DEF Announce
    <3>2. End("dropped", h).pc = "dropped" /\ End("dropped", h).kind = "bare"
      BY <2>1, <2>2, EndIsHandler DEF Over
    <3>3. Announces(End("dropped", h), << >>)
      BY <3>2 DEF Announces, Resolving, Reading, Telling
    <3>4. upserts' = [upserts EXCEPT ![s] = << >>]
      BY <2>1, <3>1 DEF AnnounceInv
    <3> QED
      BY <1>0, <3>1, <3>3, <3>4, OneAnnounces
  <2>3. CASE ~(h.kind = "bare" /\ h.content)
    <3>1. upserts' = [upserts EXCEPT ![s] = << m >>]
      <4>1. upserts' = [upserts EXCEPT ![s] = Append(upserts[s], m)]
        BY <1>5, <2>3 DEF Announce
      <4> QED
        BY <2>1, <4>1
    <3>2. m \in Upserts /\ (m.content \/ m.stub \/ m.once)
      BY <2>1 DEF Upserts, Handlers, Sound, Reading
    <3> HIDE DEF m
    <3>3. Told(<< m >>)
      BY <3>2 DEF Told
    <3>4. \E g \in {End("ended", h), [h EXCEPT !.pc = "keys"], Finish(h)} :
            handlers' = [handlers EXCEPT ![s] = g]
      <4>1. PICK throws \in BOOLEAN : handlers' = [handlers EXCEPT ![s] =
              CASE throws -> End("ended", h)
                [] ~throws /\ h.kind = "keys" /\ h.content -> [h EXCEPT !.pc = "keys"]
                [] OTHER -> Finish(h)]
        BY <1>5, <2>3 DEF Announce
      <4> QED
        BY <4>1
    <3>5. [h EXCEPT !.pc = "keys"].pc = "keys"
      BY <2>1 DEF Handlers
    <3>6. End("ended", h).pc = "ended" /\ Finish(h).pc \in {"middleware", "ended"}
      BY <2>1, EndIsHandler, FinishIsHandler DEF Over, Reading
    <3>7. PICK g : handlers' = [handlers EXCEPT ![s] = g] /\ g.pc \in {"ended", "keys", "middleware"}
      BY <3>4, <3>5, <3>6
    <3>8. Announces(g, << m >>)
      BY <3>3, <3>7 DEF Announces, Resolving, Reading, Telling
    <3> QED
      BY <1>0, <3>1, <3>7, <3>8, OneAnnounces
  <2> QED
    BY <2>2, <2>3
<1>6. ASSUME NEW s \in Stanzas, KeysStored(s) \/ Middleware(s) PROVE AnnounceInv'
  <2> DEFINE h == handlers[s]
             l == [h EXCEPT !.layer = @ + 1]
  <2>1. /\ h \in Handlers /\ Sound(h) /\ Knows(h, batches) /\ h.pc \in Telling /\ Told(upserts[s])
        /\ UNCHANGED upserts
    BY <1>6 DEF MapInv, AnnounceInv, KeysStored, Middleware, Announces, Telling
  <2>2. \E g \in {End("ended", h), l, Finish(h)} : handlers' = [handlers EXCEPT ![s] = g]
    BY <1>6 DEF KeysStored, Middleware
  <2>3. l.pc = h.pc
    BY <2>1 DEF Handlers
  <2> HIDE DEF h, l
  <2>4. \A g \in {End("ended", h), l, Finish(h)} : g.pc \in {"ended", "keys", "middleware"}
    BY <2>1, <2>3, EndIsHandler, FinishIsHandler DEF Over, Telling
  <2>p. PICK g : handlers' = [handlers EXCEPT ![s] = g] /\ g.pc \in {"ended", "keys", "middleware"}
    BY <2>2, <2>4
  <2>5. Announces(g, upserts[s])
    BY <2>1, <2>p DEF Announces, Resolving, Reading, Telling
  <2>6. upserts' = [upserts EXCEPT ![s] = upserts[s]]
    BY <2>1 DEF AnnounceInv
  <2> QED
    BY <1>0, <2>p, <2>5, <2>6, OneAnnounces
<1>7. CASE Expire
  BY <1>0, <1>7 DEF Expire, AnnounceInv
<1>8. CASE ProcessEnds
  <2>1. End("lost", Idle).pc = "lost"
    BY IdleRecord, EndIsHandler DEF Over
  <2>2. UNCHANGED upserts /\ \A s \in Stanzas : handlers'[s] \in {handlers[s], End("lost", Idle)}
    BY <1>8 DEF ProcessEnds
  <2>3. \A s \in Stanzas : Announces(handlers'[s], upserts[s])
    BY <2>1, <2>2 DEF AnnounceInv, Announces, Resolving, Reading, Telling
  <2> QED
    BY <1>0, <2>2, <2>3 DEF AnnounceInv
<1>9. CASE UNCHANGED vars
  BY <1>0, <1>9 DEF vars, AnnounceInv
<1> QED
  BY <1>2, <1>3, <1>4, <1>5, <1>6, <1>7, <1>8, <1>9 DEF Next, Step

LEMMA AnnounceInit == Init => AnnounceInv
<1> SUFFICES ASSUME Init PROVE AnnounceInv
  OBVIOUS
<1>1. handlers = [s \in Stanzas |-> Idle] /\ upserts = [s \in Stanzas |-> << >>]
  BY DEF Init
<1>2. Announces(Idle, << >>)
  BY IdleRecord DEF Announces, Telling
<1> QED
  BY <1>1, <1>2, MapInit DEF AnnounceInv

\* Every message is announced once and not as if it were empty, for any
\* stanzas and middlewares: only a reaction or poll update without its key is
\* dropped, by the exception of cleanMessage().
THEOREM MessagesAnnounced == Spec => []AnnouncedOnce
<1>1. Spec => []AnnounceInv
  BY AnnounceInit, AnnounceNext, PTL DEF Spec
<1>2. ASSUME NEW u, Told(u) PROVE Len(u) = 1 /\ \A m \in Range(u) : m.content \/ m.stub \/ m.once
  <2>1. PICK m : u = << m >> /\ (m.content \/ m.stub \/ m.once)
    BY <1>2 DEF Told
  <2> QED
    BY <2>1 DEF Range
<1>3. Len(<< >>) = 0 /\ Range(<< >>) = {}
  BY DEF Range
<1>4. AnnounceInv => AnnouncedOnce
  BY <1>2, <1>3 DEF AnnounceInv, AnnouncedOnce, Announces, Telling
<1> QED
  BY <1>1, <1>4, PTL

-----------------------------------------------------------------------------
(***************************************************************************)
(* Chats: what reactions are about.                                        *)
(***************************************************************************)

\* The addresses a person sends from.
SentFrom(p, mode) == { PersonJid(p, mode, d) : d \in Devices }
                     \cup { Jid(<< p, mode >>, HostedServer[mode], d) : d \in Devices }

LEMMA SentFromJid ==
  ASSUME NEW p \in People, NEW mode \in Modes, NEW j \in SentFrom(p, mode)
  PROVE  /\ j.user = << p, mode >> /\ j # NoJid
         /\ j.server \in UserServers /\ Cleaned(j) = PersonJid(p, mode, 0)
<1>1. mode \in {"pn", "lid"}
  BY ChatsAssumption
<1>2. PICK d \in Devices, server \in {mode, HostedServer[mode]} :
        j = [user |-> << p, mode >>, server |-> server, device |-> d]
  BY DEF SentFrom, PersonJid, Jid
<1>3. HostedServer["pn"] = "hosted" /\ HostedServer["lid"] = "hosted.lid"
  BY DEF HostedServer
<1>4. j.user = << p, mode >> /\ j.server = server
  BY <1>2
<1>5. server \in UserServers
  BY <1>1, <1>2, <1>3 DEF UserServers
<1>6. j # NoJid
  <2>1. NoJid.server = "" /\ "" \notin UserServers
    BY DEF NoJid, Jid, UserServers
  <2> QED
    BY <1>4, <1>5, <2>1
<1>7. Cleaned(j) = [user |-> << p, mode >>, server |-> mode, device |-> 0]
  <2>1. CASE server = mode
    BY <1>1, <1>2, <2>1 DEF Cleaned, Normalized
  <2>2. CASE server = HostedServer[mode]
    BY <1>1, <1>2, <1>3, <2>2 DEF Cleaned
  <2> QED
    BY <2>1, <2>2
<1> QED
  BY <1>4, <1>5, <1>6, <1>7 DEF PersonJid, Jid

\* A person's usual address is one of them.
LEMMA UsualAddress ==
  ASSUME NEW p \in People, NEW mode \in Modes
  PROVE  PersonJid(p, mode, 0) \in SentFrom(p, mode)
BY ChatsAssumption DEF SentFrom

\* Who is at an address.
LEMMA MineOrNot ==
  ASSUME NEW p \in People, NEW mode \in Modes, NEW j, j.user = << p, mode >>
  PROVE  /\ IsMine(j) <=> p = Me
         /\ SameUser(j, MeId) \/ SameUser(j, MeLid) <=> p = Me
<1>1. mode \in {"pn", "lid"}
  BY ChatsAssumption
<1>2. MeId.user = << Me, "pn" >>
  BY DEF MeId, PersonJid, Jid
<1>3. "lid" \in Modes => MeLid # NoJid /\ MeLid.user = << Me, "lid" >>
  BY DEF MeLid, NoJid, PersonJid, Jid
<1>4. "lid" \notin Modes => MeLid = NoJid /\ MeLid.user = << >>
  BY DEF MeLid, NoJid, Jid
<1> QED
  BY <1>1, <1>2, <1>3, <1>4 DEF IsMine, IsMe, SameUser

LEMMA GroupAddress == Cleaned(GroupJid) = GroupJid /\ GroupJid # NoJid /\ GroupJid.server = "g.us"
BY DEF Cleaned, Normalized, GroupJid, NoJid, Jid

LEMMA NoAddress == Cleaned(NoJid) = NoJid
BY DEF Cleaned, Normalized, NoJid, Jid

\* The key of a message, without the recipient's or the sender's device.
LEMMA CleanKey ==
  ASSUME NEW remote, NEW mine, NEW part
  PROVE  CleanMessage(Key(remote, mine, part)) = Key(Cleaned(remote), mine, Cleaned(part))
<1> DEFINE k == [remoteJid |-> remote, fromMe |-> mine, participant |-> part]
           x == Cleaned(remote)
           y == Cleaned(part)
<1>1. CleanMessage(k) = [k EXCEPT !.remoteJid = x, !.participant = y]
  BY Zenon DEF CleanMessage
<1>2. k \in [remoteJid : {remote}, fromMe : {mine}, participant : {part}]
  OBVIOUS
<1> HIDE DEF k, x, y
<1>3. [k EXCEPT !.remoteJid = x, !.participant = y] = [remoteJid |-> x, fromMe |-> mine, participant |-> y]
  <2> DEFINE n == [k EXCEPT !.remoteJid = x, !.participant = y]
  <2>1. DOMAIN n = {"remoteJid", "fromMe", "participant"} /\ n = [f \in DOMAIN n |-> n[f]]
    BY <1>2
  <2>2. n["remoteJid"] = x /\ n["fromMe"] = mine /\ n["participant"] = y
    BY <1>2
  <2> HIDE DEF n
  <2>3. n = [remoteJid |-> x, fromMe |-> mine, participant |-> y]
    BY <2>1, <2>2
  <2> QED
    BY <2>3 DEF n
<1> QED
  BY Zenon, <1>1, <1>3 DEF Key, k, x, y

\* A message in the group: its author's address, and whether it is mine.
LEMMA GroupMessage ==
  ASSUME NEW p \in People, NEW mode \in Modes, NEW chat \in ChatsOf, chat.group,
         NEW m \in StanzasOf(p, chat, mode)
  PROVE  \E k \in DecodeMessageNode(m) : CleanMessage(k) = Key(GroupJid, p = Me, PersonJid(p, mode, 0))
<1>1. PICK j \in SentFrom(p, mode) : m = [from |-> GroupJid, participant |-> j, recipient |-> NoJid]
  BY DEF StanzasOf, SentFrom
<1>2. j # NoJid /\ j.user = << p, mode >> /\ Cleaned(j) = PersonJid(p, mode, 0)
  BY SentFromJid
<1>3. IsMine(j) = (p = Me)
  <2>1. IsMine(j) <=> p = Me
    BY <1>2, MineOrNot
  <2>2. IsMine(j) \in BOOLEAN
    BY DEF IsMine, IsMe, SameUser
  <2> QED
    BY <2>1, <2>2
<1>4. Key(GroupJid, IsMine(j), j) \in DecodeMessageNode(m)
  BY <1>1, <1>2, GroupAddress DEF DecodeMessageNode
<1>5. CleanMessage(Key(GroupJid, IsMine(j), j)) = Key(GroupJid, p = Me, PersonJid(p, mode, 0))
  <2>1. IsMine(j) \in BOOLEAN
    BY Zenon DEF IsMine, IsMe, SameUser
  <2>2. CleanMessage(Key(GroupJid, IsMine(j), j)) = Key(Cleaned(GroupJid), IsMine(j), Cleaned(j))
    BY Zenon, <2>1, CleanKey
  <2> QED
    BY Zenon, <1>2, <1>3, <2>2, GroupAddress
<1> QED
  BY Zenon, <1>4, <1>5

\* A message between me and another.
LEMMA PeerMessage ==
  ASSUME NEW mode \in Modes, NEW chat \in ChatsOf, ~chat.group, NEW p \in {Me, chat.peer},
         NEW m \in StanzasOf(p, chat, mode)
  PROVE  \E k \in DecodeMessageNode(m) : CleanMessage(k) = Key(PersonJid(chat.peer, mode, 0), p = Me, NoJid)
<1> DEFINE q == chat.peer
           own == PersonJid(q, mode, 0)
<1>1. q \in People /\ q # Me /\ p \in People /\ mode \in {"pn", "lid"}
  BY ChatsAssumption DEF ChatsOf, Peers
<1>2. PICK j \in SentFrom(p, mode) :
        m = [from |-> j, participant |-> NoJid, recipient |-> IF p = Me THEN own ELSE NoJid]
  BY DEF StanzasOf, SentFrom
<1>3. j.user = << p, mode >> /\ j.server \in UserServers /\ Cleaned(j) = PersonJid(p, mode, 0)
  BY <1>1, SentFromJid
<1>4. own # NoJid /\ own.server = mode /\ Cleaned(own) = own
  <2>1. own # NoJid /\ Cleaned(own) = own
    BY <1>1, UsualAddress, SentFromJid
  <2> QED
    BY <2>1 DEF PersonJid, Jid
<1> HIDE DEF own, q
<1>5. CASE p = Me
  <2>1. IsMine(j)
    BY <1>1, <1>3, <1>5, MineOrNot
  <2>2. Key(own, TRUE, NoJid) \in DecodeMessageNode(m)
    BY <1>1, <1>2, <1>3, <1>4, <1>5, <2>1 DEF DecodeMessageNode
  <2>3. CleanMessage(Key(own, TRUE, NoJid)) = Key(own, p = Me, NoJid)
    <3>1. (p = Me) = TRUE
      BY <1>5
    <3>2. CleanMessage(Key(own, TRUE, NoJid)) = Key(Cleaned(own), TRUE, Cleaned(NoJid))
      BY Zenon, CleanKey
    <3> QED
      BY Zenon, <1>4, <3>1, <3>2, NoAddress
  <2> QED
    BY Zenon, <2>2, <2>3 DEF own, q
<1>6. CASE p # Me
  <2>1. p = q
    BY <1>6 DEF q
  <2>2. Key(j, FALSE, NoJid) \in DecodeMessageNode(m)
    BY <1>2, <1>3, <1>6 DEF DecodeMessageNode
  <2>3. CleanMessage(Key(j, FALSE, NoJid)) = Key(own, p = Me, NoJid)
    <3>1. (p = Me) = FALSE
      BY <1>6
    <3>2. Cleaned(j) = own
      BY <1>3, <2>1 DEF own
    <3>3. CleanMessage(Key(j, FALSE, NoJid)) = Key(Cleaned(j), FALSE, Cleaned(NoJid))
      BY Zenon, CleanKey
    <3> QED
      BY Zenon, <3>1, <3>2, <3>3, NoAddress
  <2> QED
    BY Zenon, <2>2, <2>3 DEF own, q
<1> QED
  BY <1>5, <1>6

\* Whichever way round, the key inside a reaction names the message.
LEMMA ReactionsNameMessages == ReactionsPoint
<1> SUFFICES ASSUME NEW mode \in Modes, NEW chat \in ChatsOf, NEW a \in Parties(chat), NEW r \in Parties(chat),
                    NEW m \in StanzasOf(a, chat, mode), NEW s \in StanzasOf(r, chat, mode),
                    NEW v \in ViewsOf(r, a, chat, mode)
             PROVE  \E km \in DecodeMessageNode(m), ks \in DecodeMessageNode(s) :
                      LET known  == CleanMessage(km)
                          target == NormaliseKey(v, CleanMessage(ks))
                      IN  /\ target.remoteJid = known.remoteJid /\ target.fromMe = known.fromMe
                          /\ target.participant = NoJid => ~chat.group \/ a = Me
                          /\ chat.group /\ target.participant # NoJid =>
                               SameUser(target.participant, known.participant)
  BY Zenon DEF ReactionsPoint
<1> DEFINE q == chat.peer
           Of(p) == PersonJid(p, mode, 0)
<1>1. a \in People /\ r \in People /\ (~chat.group => a \in {Me, q} /\ r \in {Me, q} /\ q \in People /\ q # Me)
  BY ChatsAssumption DEF Parties, ChatsOf, Peers
<1>2. \A p \in People : Of(p) # NoJid /\ Of(p).user = << p, mode >>
  BY UsualAddress, SentFromJid
<1>3. CASE chat.group
  <2>1. PICK km \in DecodeMessageNode(m) : CleanMessage(km) = Key(GroupJid, a = Me, Of(a))
    BY <1>1, <1>3, GroupMessage
  <2>2. PICK ks \in DecodeMessageNode(s) : CleanMessage(ks) = Key(GroupJid, r = Me, Of(r))
    BY <1>1, <1>3, GroupMessage
  <2>3. PICK j \in {Of(a), NoJid} : v = Key(GroupJid, a = r, j) /\ (j = NoJid => a = r)
    BY <1>1, <1>2, <1>3 DEF ViewsOf
  <2> DEFINE known == Key(GroupJid, a = Me, Of(a))
             heard == Key(GroupJid, r = Me, Of(r))
             target == NormaliseKey(v, heard)
  <2>4. target.remoteJid = GroupJid /\ target.fromMe = (a = Me)
        /\ (target.participant = NoJid => a = Me)
        /\ (target.participant # NoJid => SameUser(target.participant, Of(a)))
    <3>1. CASE r = Me
      <4>1. target = v
        BY <3>1 DEF NormaliseKey, Key
      <4>2. v.remoteJid = GroupJid /\ v.fromMe = (a = r) /\ v.participant = j
        BY <2>3 DEF Key
      <4> HIDE DEF target
      <4> QED
        BY <2>3, <3>1, <4>1, <4>2 DEF SameUser
    <3>2. CASE r # Me
      <4> DEFINE author == Chosen(j, GroupJid)
                 part == Chosen(j, Of(r))
                 mine == ~(a = r) /\ (SameUser(author, MeId) \/ SameUser(author, MeLid))
      <4>1. v.remoteJid = GroupJid /\ v.fromMe = (a = r) /\ v.participant = j
        BY <2>3 DEF Key
      <4>2. heard.remoteJid = GroupJid /\ ~heard.fromMe /\ heard.participant = Of(r)
        BY <3>2 DEF Key
      <4>3. target = Key(GroupJid, mine, part)
        <5> HIDE DEF heard, Of
        <5> QED
          BY Zenon, <4>1, <4>2 DEF NormaliseKey
      <4>4. mine <=> a = Me
        <5>1. CASE j = NoJid
          BY <2>3, <3>2, <5>1
        <5>2. CASE j # NoJid
          <6>1. author = Of(a) /\ author.user = << a, mode >>
            BY <1>1, <1>2, <2>3, <5>2 DEF Chosen
          <6>2. SameUser(author, MeId) \/ SameUser(author, MeLid) <=> a = Me
            <7> HIDE DEF author
            <7> QED
              BY <1>1, <6>1, MineOrNot
          <6> QED
            BY Zenon, <3>2, <6>2
        <5> QED
          BY <5>1, <5>2
      <4>5. part # NoJid /\ SameUser(part, Of(a))
        BY <1>1, <1>2, <2>3 DEF Chosen, SameUser
      <4>6. target.remoteJid = GroupJid /\ target.fromMe = mine /\ target.participant = part
        <5> HIDE DEF target, mine, part
        <5> QED
          BY <4>3 DEF Key
      <4> HIDE DEF target, mine, part
      <4>7. mine \in BOOLEAN
        BY DEF mine, SameUser
      <4> QED
        BY <4>4, <4>5, <4>6, <4>7
    <3> QED
      BY <3>1, <3>2
  <2>5. known.remoteJid = GroupJid /\ known.fromMe = (a = Me) /\ known.participant = Of(a)
    BY DEF Key
  <2>6. CleanMessage(km) = known /\ NormaliseKey(v, CleanMessage(ks)) = target
    BY Zenon, <2>1, <2>2
  <2> HIDE DEF known, target, Of
  <2> QED
    <3> WITNESS km \in DecodeMessageNode(m), ks \in DecodeMessageNode(s)
    <3> QED
      BY Zenon, <1>3, <2>4, <2>5, <2>6
<1>4. CASE ~chat.group
  <2>1. PICK km \in DecodeMessageNode(m) : CleanMessage(km) = Key(Of(q), a = Me, NoJid)
    BY <1>1, <1>4, PeerMessage
  <2>2. PICK ks \in DecodeMessageNode(s) : CleanMessage(ks) = Key(Of(q), r = Me, NoJid)
    BY <1>1, <1>4, PeerMessage
  <2>3. v = Key(Of(IF r = Me THEN q ELSE Me), a = r, NoJid)
    BY <1>4 DEF ViewsOf
  <2> DEFINE known == Key(Of(q), a = Me, NoJid)
             heard == Key(Of(q), r = Me, NoJid)
             target == NormaliseKey(v, heard)
  <2>4. target.remoteJid = Of(q) /\ target.fromMe = (a = Me)
    <3>1. CASE r = Me
      <4>1. target = v
        BY <3>1 DEF NormaliseKey, Key
      <4>2. v.remoteJid = Of(q) /\ v.fromMe = (a = r)
        BY <2>3, <3>1 DEF Key
      <4> HIDE DEF target
      <4> QED
        BY <3>1, <4>1, <4>2
    <3>2. CASE r # Me
      <4> DEFINE author == Of(Me)
                 mine == ~(a = r) /\ (SameUser(author, MeId) \/ SameUser(author, MeLid))
      <4>1. v.remoteJid = author /\ v.fromMe = (a = r) /\ v.participant = NoJid
        BY <2>3, <3>2 DEF Key
      <4>2. heard.remoteJid = Of(q) /\ ~heard.fromMe /\ heard.participant = NoJid
        BY <3>2 DEF Key
      <4>3. target = Key(Of(q), mine, NoJid)
        <5> HIDE DEF heard, Of
        <5> QED
          BY Zenon, <4>1, <4>2 DEF NormaliseKey, Chosen
      <4>4. mine <=> a = Me
        <5>1. SameUser(author, MeId) \/ SameUser(author, MeLid)
          BY <1>2, MineOrNot, ChatsAssumption
        <5>2. a # r <=> a = Me
          BY <1>1, <1>4, <3>2
        <5> QED
          BY Zenon, <5>1, <5>2
      <4>6. target.remoteJid = Of(q) /\ target.fromMe = mine
        <5> HIDE DEF target, mine, Of
        <5> QED
          BY <4>3 DEF Key
      <4> HIDE DEF target, mine
      <4>7. mine \in BOOLEAN
        BY DEF mine, SameUser
      <4> QED
        BY <4>4, <4>6, <4>7
    <3> QED
      BY <3>1, <3>2
  <2>5. known.remoteJid = Of(q) /\ known.fromMe = (a = Me)
    BY DEF Key
  <2>6. CleanMessage(km) = known /\ NormaliseKey(v, CleanMessage(ks)) = target
    BY Zenon, <2>1, <2>2
  <2> HIDE DEF known, target, Of
  <2> QED
    <3> WITNESS km \in DecodeMessageNode(m), ks \in DecodeMessageNode(s)
    <3> QED
      BY Zenon, <1>4, <2>4, <2>5, <2>6
<1> QED
  BY <1>3, <1>4

-----------------------------------------------------------------------------
(***************************************************************************)
(* Chats: who is sent receipts of what.                                    *)
(***************************************************************************)

\* Induction over the natural numbers, for sets.
LEMMA Induction ==
  ASSUME NEW S, 0 \in S, \A n \in Nat : n \in S => n + 1 \in S
  PROVE  \A n \in Nat : n \in S
<1> DEFINE R == {p \in Nat \X Nat : p[1] < p[2]}
           T == {n \in Nat : n \notin S}
<1> SUFFICES ASSUME T # {} PROVE FALSE
  OBVIOUS
<1>1. T \subseteq Nat
  OBVIOUS
<1>2. PICK m \in T : \A y \in T : ~(<< y, m >> \in R)
  <2>1. IsWellFoundedOn(R, Nat)
    BY NatLessThanWellFounded DEF OpToRel
  <2> HIDE DEF R, T
  <2> QED
    BY <1>1, <2>1, WFMin
<1>3. m # 0 /\ m \in Nat
  OBVIOUS
<1>4. m - 1 \notin T
  <2>1. << m - 1, m >> \in R
    BY <1>3
  <2> HIDE DEF R, T
  <2> QED
    BY <1>2, <2>1
<1> QED
  BY <1>3, <1>4

LEMMA RangeOfAppend ==
  ASSUME NEW S, NEW s \in Seq(S), NEW x \in S
  PROVE  Range(Append(s, x)) = Range(s) \cup {x}
<1>1. Append(s, x) \in Seq(S) /\ Len(Append(s, x)) = Len(s) + 1
      /\ (\A i \in 1..Len(s) : Append(s, x)[i] = s[i]) /\ Append(s, x)[Len(s) + 1] = x
  OBVIOUS
<1>2. DOMAIN Append(s, x) = 1..(Len(s) + 1) /\ DOMAIN s = 1..Len(s) /\ Len(s) \in Nat
  BY <1>1
<1>3. \A i \in 1..(Len(s) + 1) : i \in 1..Len(s) \/ i = Len(s) + 1
  BY <1>2
<1>4. 1..Len(s) \subseteq 1..(Len(s) + 1) /\ Len(s) + 1 \in 1..(Len(s) + 1)
  BY <1>2
<1> DEFINE a == Append(s, x)
           n == Len(s)
           N == n + 1
<1> HIDE DEF a, n, N
<1>5. (\A i \in 1..n : a[i] = s[i]) /\ a[N] = x /\ DOMAIN a = 1..N /\ DOMAIN s = 1..n
      /\ (\A i \in 1..N : i \in 1..n \/ i = N) /\ 1..n \subseteq 1..N /\ N \in 1..N
  BY <1>1, <1>2, <1>3, <1>4 DEF a, n, N
<1>6. Range(a) = Range(s) \cup {x}
  BY <1>5 DEF Range
<1> QED
  BY <1>6 DEF a

LEMMA HeadAndTail ==
  ASSUME NEW S, NEW s \in Seq(S), s # << >>
  PROVE  {s[1]} \cup Range(Tail(s)) = Range(s)
<1>1. Tail(s) \in Seq(S) /\ Len(Tail(s)) = Len(s) - 1 /\ Len(s) \in Nat \ {0}
      /\ \A i \in 1..(Len(s) - 1) : Tail(s)[i] = s[i + 1]
  OBVIOUS
<1>2. ASSUME NEW x \in Range(s) PROVE x = s[1] \/ x \in Range(Tail(s))
  <2>1. PICK i \in 1..Len(s) : x = s[i]
    BY DEF Range
  <2>2. CASE i # 1
    <3>1. i - 1 \in 1..(Len(s) - 1) /\ i - 1 \in DOMAIN Tail(s)
      BY <1>1, <2>2
    <3>2. Tail(s)[i - 1] = x
      BY <1>1, <2>1, <3>1
    <3> QED
      BY <3>1, <3>2 DEF Range
  <2> QED
    BY <2>1, <2>2
<1>3. ASSUME NEW x \in Range(Tail(s)) PROVE x \in Range(s)
  <2>1. PICK i \in 1..(Len(s) - 1) : x = Tail(s)[i]
    BY <1>1 DEF Range
  <2>2. x = s[i + 1] /\ i + 1 \in DOMAIN s
    BY <1>1, <2>1
  <2> QED
    BY <2>2 DEF Range
<1>4. s[1] \in Range(s)
  BY <1>1 DEF Range
<1> QED
  BY <1>2, <1>3, <1>4

\* Keys of messages, numbered, with addresses of J; and recipients.
KeysRead(J, n) ==
  { keys \in [1..n -> [id : 1..n, remoteJid : J, fromMe : BOOLEAN, participant : J]] :
      \A i \in 1..n : keys[i].id = i /\ keys[i].remoteJid # NoJid }
Recipient(J) == [jid : J, participant : J, ids : Seq(Nat)]

\* The recipients of the first m keys: each once, with messages of its chat
\* and author, and every message that is another's with one of them.
Gathered(J, keys, m, recps) ==
  /\ recps \in Seq(Recipient(J))
  /\ \A r \in DOMAIN recps : recps[r].ids # << >>
  /\ \A r, s \in DOMAIN recps :
       recps[r].jid = recps[s].jid /\ recps[r].participant = recps[s].participant => r = s
  /\ \A r \in DOMAIN recps : \A x \in Range(recps[r].ids) :
       x \in 1..m /\ ~keys[x].fromMe /\ SameRecipient(recps[r], keys[x])
  /\ \A x \in 1..m : ~keys[x].fromMe => \E r \in DOMAIN recps : x \in Range(recps[r].ids)

LEMMA OneMoreGathered ==
  ASSUME NEW J, NEW n \in Nat, NEW keys \in KeysRead(J, n), NEW m \in 1..n,
         NEW recps, Gathered(J, keys, m - 1, recps), ~keys[m].fromMe
  PROVE  Gathered(J, keys, m, Aggregated(recps, keys[m]))
<1> DEFINE k == keys[m]
           now == Aggregated(recps, k)
<1>1. k \in [id : 1..n, remoteJid : J, fromMe : BOOLEAN, participant : J] /\ k.id = m /\ m \in Nat /\ k.id \in Nat
  BY DEF KeysRead
<1>2. \A x \in 1..(m - 1) : x \in 1..m /\ x # m
  OBVIOUS
<1>3. \A x \in 1..m : x \in 1..(m - 1) \/ x = m
  OBVIOUS
<1>4. m \in 1..m
  OBVIOUS
<1>5. /\ recps \in Seq(Recipient(J))
      /\ \A r \in DOMAIN recps : recps[r].ids # << >>
      /\ \A r, s \in DOMAIN recps :
           recps[r].jid = recps[s].jid /\ recps[r].participant = recps[s].participant => r = s
      /\ \A r \in DOMAIN recps : \A x \in Range(recps[r].ids) :
           x \in 1..(m - 1) /\ ~keys[x].fromMe /\ SameRecipient(recps[r], keys[x])
      /\ \A x \in 1..(m - 1) : ~keys[x].fromMe => \E r \in DOMAIN recps : x \in Range(recps[r].ids)
  BY DEF Gathered
<1>6. CASE \E i \in DOMAIN recps : SameRecipient(recps[i], k)
  <2> DEFINE More(r) == IF SameRecipient(recps[r], k) THEN [recps[r] EXCEPT !.ids = Append(@, k.id)] ELSE recps[r]
  <2>1. now = [r \in DOMAIN recps |-> More(r)]
    BY Zenon, <1>6 DEF Aggregated
  <2>2. ASSUME NEW r \in DOMAIN recps
        PROVE  /\ More(r) \in Recipient(J) /\ More(r).ids # << >>
               /\ More(r).jid = recps[r].jid /\ More(r).participant = recps[r].participant
               /\ Range(More(r).ids) = IF SameRecipient(recps[r], k) THEN Range(recps[r].ids) \cup {m}
                                        ELSE Range(recps[r].ids)
    <3>0. recps[r] \in Recipient(J)
      BY <1>5
    <3>1. recps[r] \in Recipient(J) /\ recps[r].ids \in Seq(Nat)
      BY <3>0 DEF Recipient
    <3>2. CASE SameRecipient(recps[r], k)
      <4> DEFINE l == Append(recps[r].ids, k.id)
      <4>1. More(r) = [recps[r] EXCEPT !.ids = l]
        BY <3>2
      <4>2. l \in Seq(Nat) /\ Len(l) > 0
        BY <1>1, <3>1
      <4>3. Range(l) = Range(recps[r].ids) \cup {m}
        BY <1>1, <3>1, RangeOfAppend
      <4> HIDE DEF l, More
      <4>4. More(r).ids = l /\ More(r).jid = recps[r].jid /\ More(r).participant = recps[r].participant
            /\ More(r) \in Recipient(J)
        BY <3>1, <4>1, <4>2 DEF Recipient
      <4> QED
        BY <3>2, <4>2, <4>3, <4>4
    <3>3. CASE ~SameRecipient(recps[r], k)
      BY <1>5, <3>1, <3>3
    <3> QED
      BY <3>2, <3>3
  <2> HIDE DEF More, now, k
  <2>3. now \in Seq(Recipient(J)) /\ DOMAIN now = DOMAIN recps /\ \A r \in DOMAIN now : now[r] = More(r)
    <3>1. DOMAIN recps = 1..Len(recps) /\ Len(recps) \in Nat
      BY <1>5
    <3>2. \A r \in 1..Len(recps) : More(r) \in Recipient(J)
      BY <2>2, <3>1
    <3>3. now = [r \in 1..Len(recps) |-> More(r)]
      BY Zenon, <2>1, <3>1
    <3>4. now \in Seq(Recipient(J))
      BY <3>1, <3>2, <3>3
    <3>5. DOMAIN now = DOMAIN recps /\ \A r \in DOMAIN now : now[r] = More(r)
      BY Zenon, <2>1
    <3> QED
      BY <3>4, <3>5
  <2>4. ASSUME NEW r \in DOMAIN now, NEW x \in Range(now[r].ids)
        PROVE  x \in 1..m /\ ~keys[x].fromMe /\ SameRecipient(now[r], keys[x])
    <3>1. r \in DOMAIN recps /\ now[r].jid = recps[r].jid /\ now[r].participant = recps[r].participant
          /\ (x \in Range(recps[r].ids) \/ (x = m /\ SameRecipient(recps[r], k)))
      BY <2>2, <2>3, <2>4
    <3>2. CASE x \in Range(recps[r].ids)
      <4>1. x \in 1..(m - 1) /\ ~keys[x].fromMe /\ SameRecipient(recps[r], keys[x])
        BY Zenon, <1>5, <3>1, <3>2
      <4> QED
        BY <1>2, <3>1, <4>1 DEF SameRecipient
    <3>3. CASE x = m /\ SameRecipient(recps[r], k)
      BY Zenon, <1>4, <3>1, <3>3 DEF SameRecipient, k
    <3> QED
      BY <3>1, <3>2, <3>3
  <2>5. ASSUME NEW x \in 1..m, ~keys[x].fromMe PROVE \E r \in DOMAIN now : x \in Range(now[r].ids)
    <3>1. CASE x = m
      BY <1>6, <2>2, <2>3, <3>1
    <3>2. CASE x \in 1..(m - 1)
      <4>1. PICK r \in DOMAIN recps : x \in Range(recps[r].ids)
        BY Zenon, <1>5, <2>5, <3>2
      <4> QED
        BY <2>2, <2>3, <4>1
    <3> QED
      BY <1>3, <3>1, <3>2
  <2>6. ASSUME NEW r \in DOMAIN now, NEW s \in DOMAIN now,
               now[r].jid = now[s].jid, now[r].participant = now[s].participant
        PROVE  r = s
    <3>1. r \in DOMAIN recps /\ now[r].jid = recps[r].jid /\ now[r].participant = recps[r].participant
      BY <2>2, <2>3
    <3>2. s \in DOMAIN recps /\ now[s].jid = recps[s].jid /\ now[s].participant = recps[s].participant
      BY <2>2, <2>3
    <3>3. recps[r].jid = recps[s].jid /\ recps[r].participant = recps[s].participant
      BY Zenon, <2>6, <3>1, <3>2
    <3> QED
      BY Zenon, <1>5, <3>1, <3>2, <3>3
  <2>7. \A r \in DOMAIN now : now[r].ids # << >>
    BY <2>2, <2>3
  <2> QED
    BY Zenon, <2>3, <2>4, <2>5, <2>6, <2>7 DEF Gathered, now, k
<1>7. CASE ~\E i \in DOMAIN recps : SameRecipient(recps[i], k)
  <2> DEFINE more == [jid |-> k.remoteJid, participant |-> k.participant, ids |-> << k.id >>]
             end == Len(recps) + 1
  <2>1. now = Append(recps, more)
    BY Zenon, <1>7 DEF Aggregated
  <2>2. more \in Recipient(J) /\ more.ids # << >> /\ Range(more.ids) = {m}
        /\ more.jid = k.remoteJid /\ more.participant = k.participant
    <3>1. << k.id >> \in Seq(Nat) /\ << k.id >> # << >>
      BY <1>1
    <3>2. Range(<< k.id >>) = {m}
      BY <1>1 DEF Range
    <3> DEFINE ids == << k.id >>
    <3> HIDE DEF ids
    <3>3. more = [jid |-> k.remoteJid, participant |-> k.participant, ids |-> ids]
      BY DEF ids
    <3> HIDE DEF more
    <3>4. more.ids = ids /\ more.jid = k.remoteJid /\ more.participant = k.participant
      BY <3>3
    <3>5. more \in Recipient(J)
      BY <1>1, <3>1, <3>3 DEF Recipient, ids
    <3> QED
      BY Zenon, <3>1, <3>2, <3>4, <3>5 DEF ids
  <2> HIDE DEF more, now, k
  <2>3. now \in Seq(Recipient(J)) /\ DOMAIN now = DOMAIN recps \cup {end} /\ end \notin DOMAIN recps
        /\ now[end] = more /\ \A r \in DOMAIN recps : now[r] = recps[r]
    <3>1. now \in Seq(Recipient(J)) /\ Len(now) = Len(recps) + 1 /\ now[Len(recps) + 1] = more
          /\ \A r \in 1..Len(recps) : now[r] = recps[r]
      BY <1>5, <2>1, <2>2
    <3>2. DOMAIN now = 1..Len(now) /\ DOMAIN recps = 1..Len(recps) /\ Len(recps) \in Nat
      BY <1>5, <3>1
    <3>3. DOMAIN now = DOMAIN recps \cup {end} /\ end \notin DOMAIN recps
      BY <3>1, <3>2
    <3> QED
      BY <3>1, <3>2, <3>3
  <2> HIDE DEF end
  <2>4. ASSUME NEW r \in DOMAIN now, NEW x \in Range(now[r].ids)
        PROVE  x \in 1..m /\ ~keys[x].fromMe /\ SameRecipient(now[r], keys[x])
    <3>1. CASE r = end
      BY <1>4, <2>2, <2>3, <2>4, <3>1 DEF SameRecipient, k
    <3>2. CASE r \in DOMAIN recps
      BY Zenon, <1>2, <1>5, <2>3, <2>4, <3>2
    <3> QED
      BY <2>3, <3>1, <3>2
  <2>5. ASSUME NEW x \in 1..m, ~keys[x].fromMe PROVE \E r \in DOMAIN now : x \in Range(now[r].ids)
    <3>1. CASE x = m
      <4>1. end \in DOMAIN now /\ x \in Range(now[end].ids)
        BY <2>2, <2>3, <3>1
      <4> QED
        BY <4>1
    <3>2. CASE x \in 1..(m - 1)
      <4>1. PICK r \in DOMAIN recps : x \in Range(recps[r].ids)
        BY Zenon, <1>5, <2>5, <3>2
      <4> QED
        BY <2>3, <4>1
    <3> QED
      BY <1>3, <3>1, <3>2
  <2>6. ASSUME NEW r \in DOMAIN now, NEW s \in DOMAIN now,
               now[r].jid = now[s].jid, now[r].participant = now[s].participant
        PROVE  r = s
    <3>1. \A i \in DOMAIN recps : ~(recps[i].jid = more.jid /\ recps[i].participant = more.participant)
      BY <1>7, <2>2 DEF SameRecipient
    <3>2. CASE r \in DOMAIN recps /\ s \in DOMAIN recps
      BY Zenon, <1>5, <2>3, <2>6, <3>2
    <3>3. CASE r = end /\ s \in DOMAIN recps
      BY Zenon, <2>3, <2>6, <3>1, <3>3
    <3>4. CASE r \in DOMAIN recps /\ s = end
      BY Zenon, <2>3, <2>6, <3>1, <3>4
    <3> QED
      BY <2>3, <3>2, <3>3, <3>4
  <2>7. \A r \in DOMAIN now : now[r].ids # << >>
    BY <1>5, <2>2, <2>3
  <2> QED
    BY Zenon, <2>3, <2>4, <2>5, <2>6, <2>7 DEF Gathered, now, k
<1> QED
  BY <1>6, <1>7


\* All keys, one after the other.
LEMMA AllGathered ==
  ASSUME NEW J, NEW n \in Nat, NEW keys \in KeysRead(J, n)
  PROVE  Gathered(J, keys, n, AggregateMessageKeysNotFromMe(keys))
<1> DEFINE Following(g, i) == IF i = 0 THEN << >>
                              ELSE IF keys[i].fromMe \/ keys[i].remoteJid = NoJid THEN g[i - 1]
                              ELSE Aggregated(g[i - 1], keys[i])
           After(g, m) == g = [i \in 0..m |-> Following(g, i)]
<1>0. Len(keys) = n
  BY DEF KeysRead
<1>1. \A m \in Nat : \E g : After(g, m)
  <2> DEFINE S == {m \in Nat : \E g : After(g, m)}
  <2>1. 0 \in S
    <3>1. After([i \in 0..0 |-> << >>], 0)
      OBVIOUS
    <3> QED
      BY <3>1
  <2>2. ASSUME NEW m \in Nat, m \in S PROVE m + 1 \in S
    <3>1. PICK g : After(g, m)
      BY <2>2
    <3> DEFINE h == [i \in 0..(m + 1) |-> IF i = m + 1 THEN Following(g, i) ELSE g[i]]
    <3>2. \A i \in 0..m : g[i] = Following(g, i) /\ h[i] = g[i]
      BY <3>1
    <3>3. \A i \in 0..(m + 1) : i # 0 => i - 1 \in 0..m
      OBVIOUS
    <3>4. \A i \in 0..(m + 1) : Following(h, i) = Following(g, i)
      BY <3>2, <3>3
    <3>5. \A i \in 0..(m + 1) : h[i] = Following(h, i)
      <4> SUFFICES ASSUME NEW i \in 0..(m + 1) PROVE h[i] = Following(h, i)
        OBVIOUS
      <4>1. Following(h, i) = Following(g, i)
        BY <3>4
      <4>2. CASE i = m + 1
        <5>1. h[i] = Following(g, i)
          BY <4>2
        <5> QED
          BY <4>1, <5>1
      <4>3. CASE i \in 0..m
        BY <3>2, <4>1, <4>3
      <4> QED
        BY <4>2, <4>3
    <3>6. After(h, m + 1)
      BY <3>5
    <3> HIDE DEF After
    <3> QED
      BY <3>6
  <2> HIDE DEF S
  <2>3. \A m \in Nat : m \in S
    BY <2>1, <2>2, Induction
  <2> QED
    BY <2>3 DEF S
<1> DEFINE recps == CHOOSE g : After(g, Len(keys))
<1>2. After(recps, Len(keys))
  <2> HIDE DEF After
  <2> QED
    BY Zenon, <1>0, <1>1
<1>3. AggregateMessageKeysNotFromMe(keys) = recps[Len(keys)]
  BY Zenon DEF AggregateMessageKeysNotFromMe
<1>4. \A i \in 0..n : recps[i] = Following(recps, i)
  <2> HIDE DEF recps
  <2> QED
    BY <1>0, <1>2
<1> HIDE DEF recps
<1>5. \A i \in 1..n : keys[i].remoteJid # NoJid /\ keys[i].fromMe \in BOOLEAN
  BY DEF KeysRead
<1> DEFINE S == {m \in Nat : m <= n => Gathered(J, keys, m, recps[m])}
<1>6. 0 \in S
  <2>1. recps[0] = << >>
    BY <1>4
  <2>2. Gathered(J, keys, 0, << >>)
    BY DEF Gathered
  <2> QED
    BY <2>1, <2>2
<1>7. ASSUME NEW m \in Nat, m \in S PROVE m + 1 \in S
  <2>1. SUFFICES ASSUME m + 1 <= n PROVE Gathered(J, keys, m + 1, recps[m + 1])
    OBVIOUS
  <2> DEFINE M == m + 1
  <2>2. M \in 1..n /\ M \in 0..n /\ M # 0 /\ M - 1 = m /\ Gathered(J, keys, m, recps[m])
    BY <1>7, <2>1
  <2>3. recps[M] = IF keys[M].fromMe THEN recps[m] ELSE Aggregated(recps[m], keys[M])
    BY <1>4, <1>5, <2>2
  <2> HIDE DEF M
  <2>4. CASE ~keys[M].fromMe
    <3>1. Gathered(J, keys, M - 1, recps[m])
      BY Zenon, <2>2
    <3>2. Gathered(J, keys, M, Aggregated(recps[m], keys[M]))
      BY Zenon, <2>2, <2>4, <3>1, OneMoreGathered
    <3> QED
      BY Zenon, <2>3, <2>4, <3>2 DEF M
  <2>5. CASE keys[M].fromMe
    <3>1. recps[M] = recps[m]
      BY <2>3, <2>5
    <3>2. 1..m \subseteq 1..M /\ \A x \in 1..M : x \in 1..m \/ x = M
      BY DEF M
    <3>3. Gathered(J, keys, M, recps[m])
      BY Zenon, <2>2, <2>5, <3>2 DEF Gathered
    <3> QED
      BY Zenon, <3>1, <3>3 DEF M
  <2> QED
    BY <2>4, <2>5
<1>8. n \in S
  <2> HIDE DEF S
  <2> QED
    BY <1>6, <1>7, Induction
<1> QED
  BY <1>0, <1>3, <1>8

\* An announced message has a chat.
LEMMA AnnouncedHasChat ==
  ASSUME NEW k \in Announced
  PROVE  k.remoteJid # NoJid /\ k.fromMe \in BOOLEAN
<1> DEFINE Placed(j) == \E u, server, d : server # "" /\ j = Jid(u, server, d)
<1>1. ASSUME NEW j, Placed(j) PROVE Cleaned(j) # NoJid
  <2>1. PICK u, server, d : server # "" /\ j = [user |-> u, server |-> server, device |-> d]
    BY <1>1 DEF Jid
  <2>2. Cleaned(j).server = CASE server = "hosted" -> "pn" [] server = "hosted.lid" -> "lid"
                              [] server = "c.us" -> "pn" [] OTHER -> server
    BY <2>1 DEF Cleaned, Normalized
  <2>3. Cleaned(j).server # "" /\ NoJid.server = ""
    BY <2>1, <2>2 DEF NoJid, Jid
  <2> QED
    BY <2>3
<1>2. ASSUME NEW st, Placed(st.from), st.recipient = NoJid \/ Placed(st.recipient), NEW x \in DecodeMessageNode(st)
      PROVE  CleanMessage(x).remoteJid # NoJid /\ CleanMessage(x).fromMe \in BOOLEAN
  <2>0. \A j : IsMine(j) \in BOOLEAN /\ IsMe(j) \in BOOLEAN
    BY Zenon DEF IsMine, IsMe, SameUser
  <2>1. PICK j, mine, part : mine \in BOOLEAN /\ Placed(j) /\ x = Key(j, mine, part)
    <3> HIDE DEF Placed
    <3>1. \/ x = Key(st.recipient, TRUE, st.participant) /\ st.recipient # NoJid
          \/ x = Key(st.from, FALSE, st.participant)
          \/ x = Key(st.from, IsMine(st.participant), st.participant)
          \/ x = Key(st.from, IsMe(st.participant), st.participant)
          \/ x = Key(st.from, IsMine(st.from), st.participant)
      BY <1>2 DEF DecodeMessageNode
    <3> QED
      BY Zenon, <1>2, <2>0, <3>1
  <2>2. CleanMessage(x) = Key(Cleaned(j), mine, Cleaned(part))
    BY Zenon, <2>1, CleanKey
  <2> DEFINE y == Cleaned(j)
             z == Cleaned(part)
  <2>3. Key(y, mine, z).remoteJid = y /\ Key(y, mine, z).fromMe = mine
    <3> HIDE DEF y, z
    <3> QED
      BY DEF Key
  <2> QED
    BY Zenon, <1>1, <2>1, <2>2, <2>3
<1>3. \A mode \in Modes : mode # "" /\ HostedServer[mode] # ""
  <2>1. HostedServer["pn"] = "hosted" /\ HostedServer["lid"] = "hosted.lid"
    BY DEF HostedServer
  <2> QED
    BY <2>1, ChatsAssumption
<1>4. Placed(GroupJid) /\ Placed(BroadcastJid)
  <2>1. "g.us" # "" /\ "broadcast" # ""
    OBVIOUS
  <2> QED
    BY Zenon, <2>1 DEF GroupJid, BroadcastJid
<1>5. ASSUME NEW a \in People, NEW chat \in ChatsOf, NEW mode \in Modes, NEW st \in StanzasOf(a, chat, mode)
      PROVE  Placed(st.from) /\ (st.recipient = NoJid \/ Placed(st.recipient))
  <2>1. \A p, d : Placed(PersonJid(p, mode, d))
    BY Zenon, <1>3 DEF PersonJid
  <2>2. \A u, d : Placed(Jid(u, HostedServer[mode], d))
    BY Zenon, <1>3
  <2>3. \A j \in SentFrom(a, mode) : Placed(j)
    <3> HIDE DEF Placed
    <3> QED
      BY <2>1, <2>2 DEF SentFrom
  <2> HIDE DEF Placed
  <2>4. CASE chat.group
    BY <1>4, <2>3, <2>4 DEF StanzasOf, SentFrom
  <2>5. CASE ~chat.group
    BY <2>1, <2>3, <2>5 DEF StanzasOf, SentFrom
  <2> QED
    BY <2>4, <2>5
<1> HIDE DEF Placed
<1> DEFINE Sts == UNION { StanzasOf(a, chat, mode) : a \in People, chat \in ChatsOf, mode \in Modes }
           St(p) == [from |-> BroadcastJid, participant |-> PersonJid(p, "pn", 0), recipient |-> NoJid]
           A == UNION { DecodeMessageNode(st) : st \in Sts }
           B == UNION { DecodeMessageNode(St(p)) : p \in People }
<1>6. Announced = { CleanMessage(x) : x \in A } \cup { CleanMessage(x) : x \in B }
  BY DEF Announced
<1> HIDE DEF Sts, St, A, B
<1>7. PICK x : (x \in A \/ x \in B) /\ k = CleanMessage(x)
  <2>1. k \in { CleanMessage(x) : x \in A } \/ k \in { CleanMessage(x) : x \in B }
    BY Zenon, <1>6
  <2> QED
    BY Zenon, <2>1
<1>8. CASE x \in A
  <2>1. PICK st : st \in Sts /\ x \in DecodeMessageNode(st)
    BY Zenon, <1>8 DEF A
  <2>2. \E a \in People, chat \in ChatsOf, mode \in Modes : st \in StanzasOf(a, chat, mode)
    BY <2>1 DEF Sts
  <2>3. Placed(st.from) /\ (st.recipient = NoJid \/ Placed(st.recipient))
    BY Zenon, <1>5, <2>2
  <2> QED
    BY Zenon, <1>2, <1>7, <2>1, <2>3
<1>9. CASE x \in B
  <2>1. PICK p : x \in DecodeMessageNode(St(p))
    BY Zenon, <1>9 DEF B
  <2>2. St(p).from = BroadcastJid /\ St(p).recipient = NoJid
    BY DEF St
  <2> QED
    BY Zenon, <1>2, <1>4, <1>7, <2>1, <2>2
<1> QED
  BY Zenon, <1>7, <1>8, <1>9


\* The receipt of what was read, to one recipient.
LEMMA ReceiptSent ==
  ASSUME NEW J, NEW r \in Recipient(J), r.ids # << >>
  PROVE  LET s == SendReceipt(r, "read")
         IN  /\ s.id = r.ids[1] /\ s.type = "read" /\ s.to = r.jid /\ s.participant = r.participant
             /\ {s.id} \cup Range(s.list) = Range(r.ids)
<1> DEFINE s == SendReceipt(r, "read")
<1>1. s = [id |-> r.ids[1], list |-> Tail(r.ids), type |-> "read", recipient |-> NoJid,
           to |-> r.jid, participant |-> r.participant]
  <2>1. "read" # "sender"
    OBVIOUS
  <2> QED
    BY Zenon, <2>1 DEF SendReceipt
<1> HIDE DEF s
<1>2. s.id = r.ids[1] /\ s.list = Tail(r.ids) /\ s.type = "read" /\ s.to = r.jid /\ s.participant = r.participant
  BY <1>1
<1>3. {r.ids[1]} \cup Range(Tail(r.ids)) = Range(r.ids)
  <2>1. r.ids \in Seq(Nat)
    BY DEF Recipient
  <2> QED
    BY <2>1, HeadAndTail
<1> QED
  BY Zenon, <1>2, <1>3 DEF s

\* What its author's client reports of it.
LEMMA ReceiptReported ==
  ASSUME NEW s, s.type = "read",
         NEW e \in HandleReceiptStanza(Forwarded(s), Receiver(s))
  PROVE  /\ e.read /\ e.userJid.user[1] = Me /\ e.key.id = s.id
         /\ e.key.remoteJid \in {s.to} \cup {e.userJid}
<1> DEFINE mode == Receiver(s).server
           mine == PersonJid(Me, mode, 0)
           from == IF s.participant # NoJid THEN s.to ELSE mine
           part == IF s.participant # NoJid THEN mine ELSE NoJid
           attrs == Forwarded(s)
           me == Receiver(s)
<1>1. mine # NoJid /\ mine.user[1] = Me
  <2>1. mine.user = << Me, mode >> /\ NoJid.user = << >>
    BY DEF PersonJid, NoJid, Jid
  <2>2. << Me, mode >>[1] = Me /\ Len(<< Me, mode >>) = 2 /\ Len(<< >>) = 0
    OBVIOUS
  <2> HIDE DEF mine
  <2>3. mine.user # << >>
    BY <2>1, <2>2
  <2> QED
    BY <2>1, <2>2, <2>3
<1>2. attrs.id = s.id /\ attrs.type = "read" /\ attrs.recipient = NoJid /\ attrs.from = from /\ attrs.participant = part
  BY DEF Forwarded
<1> HIDE DEF attrs, from, part, mine, me
<1>3. e = [key |-> [id |-> attrs.id, remoteJid |-> Chosen(attrs.from, attrs.recipient),
                    fromMe |-> attrs.from = NoJid \/ attrs.from = me, participant |-> attrs.participant],
           userJid |-> Chosen(attrs.participant, attrs.from),
           read |-> attrs.type \in {"read", "read-self"}]
  BY Zenon DEF HandleReceiptStanza, attrs, me
<1>4. e.key.id = attrs.id /\ e.key.remoteJid = Chosen(attrs.from, attrs.recipient)
      /\ e.userJid = Chosen(attrs.participant, attrs.from) /\ e.read = (attrs.type \in {"read", "read-self"})
  BY <1>3
<1>5. Chosen(attrs.participant, attrs.from) = mine
  BY <1>1, <1>2 DEF Chosen, from, part
<1>6. Chosen(attrs.from, attrs.recipient) \in {s.to, mine}
  <2>1. CASE s.participant = NoJid
    BY <1>1, <1>2, <2>1 DEF Chosen, from
  <2>2. CASE s.participant # NoJid
    BY <1>2, <2>2 DEF Chosen, from
  <2> QED
    BY <2>1, <2>2
<1> QED
  BY <1>1, <1>2, <1>4, <1>5, <1>6

\* Whoever wrote what was read is told of it, and only they.
LEMMA ReceiptsReachAuthors == ReceiptsReach
<1> DEFINE KeysOf(n, ks) == [i \in 1..n |-> [id |-> i, remoteJid |-> ks[i].remoteJid,
                                            fromMe |-> ks[i].fromMe, participant |-> ks[i].participant]]
           IdsOf(r) == {r.id} \cup Range(r.list)
           Author(k) == Chosen(k.participant, k.remoteJid)
<1>1. SUFFICES
        ASSUME NEW n \in 1..MaxRead, NEW ks \in [1..n -> Announced]
        PROVE  LET keys == KeysOf(n, ks)
                   sent == ReadMessages(keys)
               IN  /\ \A i \in 1..n :
                        LET with == { j \in DOMAIN sent : keys[i].id \in IdsOf(sent[j]) }
                        IN  /\ Cardinality(with) = IF keys[i].fromMe THEN 0 ELSE 1
                            /\ \A j \in with : Receiver(sent[j]) = Author(keys[i]) /\ sent[j].to = keys[i].remoteJid
                   /\ \A j \in DOMAIN sent :
                        \A e \in HandleReceiptStanza(Forwarded(sent[j]), Receiver(sent[j])) :
                          /\ e.read /\ e.userJid.user[1] = Me
                          /\ \E k \in Range(keys) : e.key.id = k.id /\ Author(k) = Receiver(sent[j])
                                                    /\ e.key.remoteJid \in {k.remoteJid} \cup {e.userJid}
  BY Zenon DEF ReceiptsReach
<1> DEFINE J == { k.remoteJid : k \in Announced } \cup { k.participant : k \in Announced }
           keys == KeysOf(n, ks)
           recps == AggregateMessageKeysNotFromMe(keys)
           sent == ReadMessages(keys)
<1>2. n \in Nat
  BY ChatsAssumption
<1>3. keys \in KeysRead(J, n)
  <2>1. \A i \in 1..n : /\ ks[i].remoteJid \in J /\ ks[i].participant \in J
                        /\ ks[i].remoteJid # NoJid /\ ks[i].fromMe \in BOOLEAN
    BY AnnouncedHasChat
  <2> HIDE DEF J
  <2> QED
    BY <2>1 DEF KeysRead
<1>4. Gathered(J, keys, n, recps)
  <2> HIDE DEF J, keys
  <2> QED
    BY Zenon, <1>2, <1>3, AllGathered
<1>5. sent = [j \in DOMAIN recps |-> SendReceipt(recps[j], "read")]
  BY Zenon DEF ReadMessages
<1> HIDE DEF J, keys, recps, sent
<1>6. \A i \in 1..n : keys[i].id = i /\ keys[i].remoteJid # NoJid /\ i \in DOMAIN keys
  BY <1>3 DEF KeysRead
<1>7. ASSUME NEW j \in DOMAIN recps
      PROVE  /\ sent[j].id = recps[j].ids[1] /\ sent[j].type = "read" /\ sent[j].to = recps[j].jid
             /\ sent[j].participant = recps[j].participant /\ IdsOf(sent[j]) = Range(recps[j].ids)
             /\ recps[j].ids[1] \in Range(recps[j].ids)
  <2>1. recps[j] \in Recipient(J) /\ recps[j].ids # << >>
    BY <1>4 DEF Gathered
  <2>2. recps[j].ids[1] \in Range(recps[j].ids)
    <3>1. recps[j].ids \in Seq(Nat)
      BY <2>1 DEF Recipient
    <3>2. 1 \in DOMAIN recps[j].ids
      BY <2>1, <3>1
    <3> QED
      BY <3>2 DEF Range
  <2>3. sent[j] = SendReceipt(recps[j], "read")
    BY <1>5
  <2> QED
    BY Zenon, <2>1, <2>2, <2>3, ReceiptSent
<1>8. DOMAIN sent = DOMAIN recps
  BY <1>5
<1>9. ASSUME NEW j \in DOMAIN recps, NEW i \in Range(recps[j].ids)
      PROVE  /\ i \in 1..n /\ ~keys[i].fromMe
             /\ recps[j].jid = keys[i].remoteJid /\ recps[j].participant = keys[i].participant
  BY Zenon, <1>4 DEF Gathered, SameRecipient
<1>10. ASSUME NEW j \in DOMAIN recps, NEW i \in Range(recps[j].ids)
       PROVE  Receiver(sent[j]) = Author(keys[i]) /\ sent[j].to = keys[i].remoteJid
  BY Zenon, <1>7, <1>9 DEF Receiver
<1>11. ASSUME NEW i \in 1..n
       PROVE  LET with == { j \in DOMAIN sent : keys[i].id \in IdsOf(sent[j]) }
              IN  /\ Cardinality(with) = IF keys[i].fromMe THEN 0 ELSE 1
                  /\ \A j \in with : Receiver(sent[j]) = Author(keys[i]) /\ sent[j].to = keys[i].remoteJid
  <2> DEFINE with == { j \in DOMAIN sent : keys[i].id \in IdsOf(sent[j]) }
  <2>1. with = { j \in DOMAIN recps : i \in Range(recps[j].ids) }
    <3> HIDE DEF IdsOf
    <3> QED
      BY <1>6, <1>7, <1>8
  <2> HIDE DEF with
  <2>2. \A j \in with : Receiver(sent[j]) = Author(keys[i]) /\ sent[j].to = keys[i].remoteJid
    BY <1>10, <2>1
  <2>3. ASSUME keys[i].fromMe PROVE Cardinality(with) = 0
    <3>1. with = {}
      BY <1>9, <2>1, <2>3
    <3> QED
      BY <3>1, FS_EmptySet
  <2>4. ASSUME ~keys[i].fromMe PROVE Cardinality(with) = 1
    <3>1. PICK r \in DOMAIN recps : i \in Range(recps[r].ids)
      BY Zenon, <1>4, <2>4 DEF Gathered
    <3>2. \A j \in with : j = r
      <4> SUFFICES ASSUME NEW j \in with PROVE j = r
        OBVIOUS
      <4>1. j \in DOMAIN recps /\ i \in Range(recps[j].ids)
        BY <2>1
      <4>2. recps[j].jid = recps[r].jid /\ recps[j].participant = recps[r].participant
        BY Zenon, <1>9, <3>1, <4>1
      <4> QED
        BY Zenon, <1>4, <4>1, <4>2 DEF Gathered
    <3>3. with = {r}
      BY <2>1, <3>1, <3>2
    <3> QED
      BY <3>3, FS_Singleton
  <2>5. Cardinality(with) = IF keys[i].fromMe THEN 0 ELSE 1
    BY Zenon, <2>3, <2>4
  <2> QED
    BY Zenon, <2>2, <2>5 DEF with
<1>12. ASSUME NEW j \in DOMAIN sent, NEW e \in HandleReceiptStanza(Forwarded(sent[j]), Receiver(sent[j]))
       PROVE  /\ e.read /\ e.userJid.user[1] = Me
              /\ \E k \in Range(keys) : e.key.id = k.id /\ Author(k) = Receiver(sent[j])
                                        /\ e.key.remoteJid \in {k.remoteJid} \cup {e.userJid}
  <2> DEFINE i == recps[j].ids[1]
  <2>1. j \in DOMAIN recps /\ sent[j].id = i /\ sent[j].type = "read" /\ i \in Range(recps[j].ids)
    BY <1>7, <1>8
  <2>2. e.read /\ e.userJid.user[1] = Me /\ e.key.id = i /\ e.key.remoteJid \in {sent[j].to} \cup {e.userJid}
    BY Zenon, <2>1, ReceiptReported
  <2> HIDE DEF i
  <2>3. i \in 1..n /\ Receiver(sent[j]) = Author(keys[i]) /\ sent[j].to = keys[i].remoteJid
    BY <1>9, <1>10, <2>1
  <2>4. keys[i] \in Range(keys) /\ keys[i].id = i
    BY <1>6, <2>3 DEF Range
  <2> QED
    BY Zenon, <2>2, <2>3, <2>4
<1> QED
  BY Zenon, <1>11, <1>12 DEF keys, sent

\* Reactions and receipts name the messages they are about, for any people,
\* addresses and devices, and any number of messages read at once
\* (cleanMessage() in recv.ts, readMessages() in send-relay.ts).
THEOREM NamesAgreed == NamesAgree
BY Zenon, ReactionsNameMessages, ReceiptsReachAuthors DEF NamesAgree

\* Whichever messages were announced, reactions to them and receipts of them
\* name them, for any stanzas and people (recv.ts, send-relay.ts).
THEOREM AnnouncedAreNamed == Spec => []NamesFollow
<1>1. NamesFollow
  BY Zenon, NamesAgreed DEF NamesFollow
<1> QED
  BY <1>1, PTL

=============================================================================
