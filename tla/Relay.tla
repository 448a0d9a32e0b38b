-------------------------------- MODULE Relay --------------------------------
(***************************************************************************)
(* The message relay (messages/send-relay.ts): enumerate the devices of    *)
(* the chat, make sure of a session with each, encrypt for each, send one  *)
(* stanza.  Calls overlap: the queue sends one message at a time, but      *)
(* sendDirect() and relayMessage() are not queued, and every await lets    *)
(* another call run.                                                       *)
(*                                                                         *)
(* A device is << user, number >>.  Server queries are external: they      *)
(* answer, or fail (error, timeout, closed socket).  Signal encryption is  *)
(* external and needs an open session; it loads, ratchets and stores under *)
(* a lock of the library.  The key store hands out copies, as the file and *)
(* SQLite stores do.  Options have their defaults.                         *)
(*                                                                         *)
(* GroupKeysProofs extends this module and SenderKeys: so the names that   *)
(* every component has are prefixed here.                                  *)
(***************************************************************************)
EXTENDS Naturals, Sequences, FiniteSets, SequencesExt

CONSTANTS
  Sends,            \* calls of relayMessage()
  Users, Me,        \* accounts, the own one
  Self,             \* the device this client is (creds.me.id)
  DevicesOf,        \* user -> sequence of the devices the server knows
  Groups, Members,  \* group -> sequence of its participants
  Fragile           \* bound: devices whose session another part may delete

Devices == UNION { Range(DevicesOf[u]) \cup {<< u, 0 >>} : u \in Users }

ASSUME RelayAssumption ==
  /\ Me \in Users /\ Self \in Devices /\ Self[1] = Me
  /\ DevicesOf \in [Users -> Seq(Users \X Nat)]
  /\ \A u \in Users : \A d \in Range(DevicesOf[u]) : d[1] = u
  /\ Members \in [Groups -> Seq(Users)]
  /\ Fragile \subseteq Devices

VARIABLES
  cache,      \* deviceCache: user -> devices, << >> for no entry
  sessions,   \* devices there is an open session with
  memory,     \* 'sender-key-memory': group -> devices marked as having the key
  mutex,      \* encryptionMutex: device -> calls whose tasks wait, in order
  calls       \* the calls under way: see Idle

relayVars == << cache, sessions, memory, mutex, calls >>

Ended == {"sent", "unsent", "failed"}   \* resolved; sendNode rejected; rejected before

NoTasks == [d \in Devices |-> 0]

Idle == [pc |-> "idle", kind |-> "none", to |-> Me, whom |-> Self,
         users |-> << >>, devs |-> << >>,     \* users to enumerate, devices so far
         marks |-> {},                        \* senderKeyMap
         recips |-> NoTasks, missing |-> {},  \* to encrypt for; without a session
         done |-> {}]                         \* encrypted for

\* A call that ended; of a group call what it gave to whom is remembered.
End(call, how) ==
  IF call.kind = "group" /\ how # "failed"
  THEN [Idle EXCEPT !.pc = how, !.kind = "group", !.to = call.to,
                    !.devs = call.devs, !.done = call.done]
  ELSE [Idle EXCEPT !.pc = how]

RelayInit ==
  /\ cache = [u \in Users |-> << >>]
  /\ sessions \in {{}, Devices}
  /\ memory = [g \in Groups |-> {}]
  /\ mutex = [d \in Devices |-> << >>]
  /\ calls = [s \in Sends |-> Idle]

-----------------------------------------------------------------------------
(***************************************************************************)
(* getUSyncDevices().                                                      *)
(***************************************************************************)

\* How many of the users are found in the device cache before one is not.
Hits(c, us) ==
  CHOOSE n \in 0..Len(us) :
    /\ \A i \in 1..n : c[us[i]] # << >>
    /\ n = Len(us) \/ c[us[n + 1]] = << >>

\* The loop up to the next query: hits add their devices without an await.
Lookup(c, call) ==
  LET n == Hits(c, call.users)
  IN  [call EXCEPT !.devs  = @ \o FlattenSeq([i \in 1..n |-> c[call.users[i]]]),
                   !.users = SubSeq(@, n + 1, Len(@))]

IsHosted(d) == d[2] = 99

\* The recipients of a 1:1 stanza: each listed device, as often as it is
\* listed, and never this one.  (That own devices come first is left out.)
Times(d, devs) == Cardinality({ i \in 1..Len(devs) : devs[i] = d })
Recipients(devs) == [d \in Devices |-> IF d = Self THEN 0 ELSE Times(d, devs)]

Targets(call) == { d \in Devices : call.recips[d] # 0 }

\* Once all are enumerated a group call encrypts the message with the sender
\* key; the others know their recipients.
Enumerated(call) ==
  IF call.users # << >> THEN [call EXCEPT !.pc = "usync"]
  ELSE IF call.kind = "group" THEN [call EXCEPT !.pc = "ratchet"]
  ELSE [call EXCEPT !.pc = "validate", !.recips = Recipients(call.devs)]

\* deviceResults is cached under the user just asked for, with all it holds.
CacheDevices(s, found) ==
  LET call == calls[s]  u == Head(call.users)  devs == call.devs \o found
  IN  cache' = IF devs = << >> THEN cache ELSE [cache EXCEPT ![u] = devs]

Asked(s, found) == [calls[s] EXCEPT !.devs = @ \o found, !.users = Tail(@)]

\* The USync query answers, with the user's devices or with none.
DevicesAnswered(s) ==
  /\ calls[s].pc = "usync"
  /\ \E found \in {DevicesOf[Head(calls[s].users)], << >>} :
       /\ CacheDevices(s, found)
       /\ calls' = [calls EXCEPT ![s] = Enumerated(Lookup(cache', Asked(s, found)))]
  /\ UNCHANGED << sessions, memory, mutex >>

\* It fails: the user is taken to have device 0 only, and that is cached.
DevicesUnknown(s) ==
  /\ calls[s].pc = "usync"
  /\ LET u == Head(calls[s].users)
     IN  /\ cache' = [cache EXCEPT ![u] = << << u, 0 >> >>]
         /\ calls' = [calls EXCEPT ![s] =
                        Enumerated(Lookup(cache', Asked(s, << << u, 0 >> >>)))]
  /\ UNCHANGED << sessions, memory, mutex >>

\* An entry gets older than DEVICE_CACHE_TTL_MS.
CacheExpires(u) ==
  /\ cache[u] # << >>
  /\ cache' = [cache EXCEPT ![u] = << >>]
  /\ UNCHANGED << sessions, memory, mutex, calls >>

-----------------------------------------------------------------------------
(***************************************************************************)
(* relayMessage(): the calls.                                              *)
(***************************************************************************)

\* To a group or to the status list: its participants come from the
\* application's cachedGroupMetadata(), which the client does not pass, and
\* the devices that have the key from the store.
CallGroup(s) ==
  /\ calls[s].pc = "idle"
  /\ \E g \in Groups : \E us \in {Members[g], << >>} :
       calls' = [calls EXCEPT ![s] =
         Enumerated(Lookup(cache, [Idle EXCEPT !.kind = "group", !.to = g,
                                               !.users = us, !.marks = memory[g]]))]
  /\ UNCHANGED << cache, sessions, memory, mutex >>

\* To a user: the own devices and the user's.
CallDirect(s) ==
  /\ calls[s].pc = "idle"
  /\ \E u \in Users :
       calls' = [calls EXCEPT ![s] =
         Enumerated(Lookup(cache, [Idle EXCEPT !.kind = "direct", !.to = u,
                                               !.users = << Me, u >>]))]
  /\ UNCHANGED << cache, sessions, memory, mutex >>

\* A 'peer' message: the placeholders stay, one device 0 of each user.
CallPeer(s) ==
  /\ calls[s].pc = "idle"
  /\ \E u \in Users :
       calls' = [calls EXCEPT ![s] =
         Enumerated([Idle EXCEPT !.kind = "peer", !.to = u,
           !.devs = << << u, 0 >> >> \o IF u = Me THEN << >> ELSE << << Me, 0 >> >>])]
  /\ UNCHANGED << cache, sessions, memory, mutex >>

\* A resend to the one device that asked for it.
CallResend(s) ==
  /\ calls[s].pc = "idle"
  /\ \E d \in Devices \ {Self} :
       calls' = [calls EXCEPT ![s] =
         Enumerated([Idle EXCEPT !.kind = "resend", !.whom = d, !.devs = << d >>])]
  /\ UNCHANGED << cache, sessions, memory, mutex >>

-----------------------------------------------------------------------------
(***************************************************************************)
(* Group messages: the sender key goes to the devices not marked yet.      *)
(***************************************************************************)

Once(new) == [d \in Devices |-> IF d \in new THEN 1 ELSE 0]

BugMarkEarly(s) ==
  /\ calls[s].pc = "ratchet"
  /\ LET call == calls[s]
         new  == { d \in Range(call.devs) : d \notin call.marks /\ ~IsHosted(d) }
     IN  /\ calls' = [calls EXCEPT ![s].marks = @ \cup new,
                                   ![s].recips = Once(new),
                                   ![s].pc = IF new = {} THEN "remember" ELSE "validate"]
         /\ memory' = [memory EXCEPT ![call.to] = call.marks \cup new]
  /\ UNCHANGED << cache, sessions, mutex >>

\* encryptGroupMessage() is back: the devices without the key are marked in
\* the local map, each once however often it is listed.
GroupEncrypted(s) ==
  /\ calls[s].pc = "ratchet"
  /\ LET call == calls[s]
         new  == { d \in Range(call.devs) : d \notin call.marks /\ ~IsHosted(d) }
     IN  calls' = [calls EXCEPT ![s].marks = @ \cup new,
                                ![s].recips = Once(new),
                                ![s].pc = IF new = {} THEN "remember" ELSE "validate"]
  /\ UNCHANGED << cache, sessions, memory, mutex >>

\* The map is written back, over whatever another call wrote meanwhile.
Remember(s) ==
  /\ calls[s].pc = "remember"
  /\ memory' = [memory EXCEPT ![calls[s].to] = calls[s].marks]
  /\ calls' = [calls EXCEPT ![s].pc = "send"]
  /\ UNCHANGED << cache, sessions, mutex >>

-----------------------------------------------------------------------------
(***************************************************************************)
(* assertSessions().                                                       *)
(***************************************************************************)

\* createParticipantNodes(): a task for every recipient joins the mutex of
\* its device; without recipients there is nothing to wait for.
AfterNodes(call) ==
  CASE call.kind = "group"  -> "remember"
    [] call.kind = "resend" -> "check"
    [] OTHER                -> "send"

StartTasks(s) ==
  /\ mutex' = [d \in Devices |-> mutex[d] \o [i \in 1..calls[s].recips[d] |-> s]]
  /\ calls' = [calls EXCEPT ![s].pc = IF Targets(calls[s]) = {}
                                      THEN AfterNodes(calls[s]) ELSE "encrypt",
                            ![s].missing = {}]

\* validateSession() of every recipient.
Validate(s) ==
  /\ calls[s].pc = "validate"
  /\ LET missing == Targets(calls[s]) \ sessions
     IN  IF missing = {} THEN StartTasks(s)
         ELSE /\ calls' = [calls EXCEPT ![s].pc = "fetch", ![s].missing = missing]
              /\ UNCHANGED mutex
  /\ UNCHANGED << cache, sessions, memory >>

\* The key bundles arrive, for all devices asked for or for some, and are
\* injected (parseAndInjectE2ESessions).
BundlesAnswered(s) ==
  /\ calls[s].pc = "fetch"
  /\ \E got \in SUBSET calls[s].missing : sessions' = sessions \cup got
  /\ StartTasks(s)
  /\ UNCHANGED << cache, memory >>

\* The query fails, or the answer has an error for one device: no session is
\* injected and the call rejects.
BundlesRefused(s) ==
  /\ calls[s].pc = "fetch"
  /\ calls' = [calls EXCEPT ![s] = End(@, "failed")]
  /\ UNCHANGED << cache, sessions, memory, mutex >>

\* Elsewhere the session is deleted (deleteSession).
SessionLost(d) ==
  /\ d \in sessions \cap Fragile
  /\ sessions' = sessions \ {d}
  /\ UNCHANGED << cache, memory, mutex, calls >>

-----------------------------------------------------------------------------
(***************************************************************************)
(* createParticipantNodes(): encryption, one task at a time per device.    *)
(***************************************************************************)

BugSettleAll(call, d) == IF d \in sessions THEN [call EXCEPT !.done = @ \cup {d}] ELSE call

\* A task encrypts, or rejects: the first to reject fails the whole call
\* (Promise.all), while its other tasks still run.
Encrypted(call, d) ==
  IF call.pc # "encrypt" THEN call
  ELSE IF d \in sessions THEN [call EXCEPT !.done = @ \cup {d}]
  ELSE End(call, "failed")

BugBlock(d) == IF d \in sessions THEN [mutex EXCEPT ![d] = Tail(@)] ELSE mutex

\* The next task of a device starts after this one, however it ended.
Release(d) == [mutex EXCEPT ![d] = Tail(@)]

RunTask(d) ==
  /\ mutex[d] # << >>
  /\ mutex' = Release(d)
  /\ LET s    == Head(mutex[d])
         call == Encrypted(calls[s], d)
         last == \A e \in Devices : s \notin Range(mutex'[e])
     IN  calls' = [calls EXCEPT ![s] =
           IF call.pc = "encrypt" /\ last THEN [call EXCEPT !.pc = AfterNodes(call)] ELSE call]
  /\ UNCHANGED << cache, sessions, memory >>

-----------------------------------------------------------------------------
(***************************************************************************)
(* Resends, and the end.                                                   *)
(***************************************************************************)

\* The limit is looked at after the nodes are encrypted: the retry manager,
\* when the application gives one (the client does not), may refuse.
Check(s) ==
  /\ calls[s].pc = "check"
  /\ \E refused \in BOOLEAN :
       calls' = [calls EXCEPT ![s] =
         IF refused THEN End(@, "failed") ELSE [@ EXCEPT !.pc = "resend"]]
  /\ UNCHANGED << cache, sessions, memory, mutex >>

\* The message is encrypted once more, for the stanza's own <enc>.
Reencrypt(s) ==
  /\ calls[s].pc = "resend"
  /\ calls' = [calls EXCEPT ![s] =
       IF @.whom \in sessions THEN [@ EXCEPT !.pc = "send"] ELSE End(@, "failed")]
  /\ UNCHANGED << cache, sessions, memory, mutex >>

\* sendNode() resolves or rejects.
SendStanza(s) ==
  /\ calls[s].pc = "send"
  /\ \E end \in {"sent", "unsent"} : calls' = [calls EXCEPT ![s] = End(@, end)]
  /\ UNCHANGED << cache, sessions, memory, mutex >>

-----------------------------------------------------------------------------
Begin(s) == CallGroup(s) \/ CallDirect(s) \/ CallPeer(s) \/ CallResend(s)

Continue(s) ==
  \/ DevicesAnswered(s) \/ DevicesUnknown(s)
  \/ GroupEncrypted(s) \/ Remember(s)
  \/ Validate(s) \/ BundlesAnswered(s) \/ BundlesRefused(s)
  \/ Check(s) \/ Reencrypt(s) \/ SendStanza(s)

RelayNext ==
  \/ \E s \in Sends : Begin(s) \/ Continue(s)
  \/ \E d \in Devices : RunTask(d) \/ SessionLost(d)
  \/ \E u \in Users : CacheExpires(u)

\* Promises settle: queries answer or time out, the socket takes a frame or
\* rejects it, and tasks of the mutex run.
RelayFairness ==
  /\ \A s \in Sends : WF_relayVars(Continue(s))
  /\ \A d \in Devices : WF_relayVars(RunTask(d))

RelaySpec == RelayInit /\ [][RelayNext]_relayVars
FairRelaySpec == RelaySpec /\ RelayFairness

-----------------------------------------------------------------------------
(***************************************************************************)
(* Properties.                                                             *)
(***************************************************************************)

\* A stanza is complete or not sent: when one device of several cannot be
\* encrypted for (its session is missing, or deleted by another part of the
\* program while the call waits), the call rejects, and no stanza leaves
\* that names the device without a ciphertext (Promise.all, send-relay.ts:457).
AllOrNothing ==
  \A s \in Sends : calls[s].pc \in {"remember", "check", "send"} =>
    Targets(calls[s]) \subseteq calls[s].done

\* The calls that encrypted the group's sender key for a device, and then
\* sent it, are about to, or failed at the socket.
GaveKey(g, d) ==
  \E t \in Sends :
    /\ calls[t].kind = "group" /\ calls[t].to = g /\ d \in calls[t].done
    /\ calls[t].pc \in {"remember", "send", "sent", "unsent"}

\* Whoever is to read a group message has been given the key: for every
\* device a group stanza was sent to, that stanza or another carries the
\* sender key.  Calls overlap, overwrite each other's memory and fail on the
\* way, at a query or at the encryption for one device; none of that may
\* leave a device marked that was never encrypted for (the write at
\* send-relay.ts:615 comes after the encryption).  A stanza lost in sendNode
\* is not covered: its devices stay marked.
KeyReachesTargets ==
  \A s \in Sends : calls[s].kind = "group" /\ calls[s].pc = "sent" =>
    \A d \in Range(calls[s].devs) : IsHosted(d) \/ GaveKey(calls[s].to, d)

\* Every call ends: a query that is refused, a device without a session, or
\* a failing task in front of the queue of a device blocks nobody for ever.
RelaySettles ==
  \A s \in Sends : calls[s].pc # "idle" ~> calls[s].pc \in Ended

\* "enumerate actual devices" (the comment at send-relay.ts:653): a message
\* to one user goes to devices of that user and to own ones.
OnlyChatDevices ==
  \A s \in Sends : calls[s].kind = "direct" =>
    \A d \in Targets(calls[s]) : d[1] \in {Me, calls[s].to}

=============================================================================
