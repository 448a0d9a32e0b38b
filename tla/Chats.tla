--------------------------------- MODULE Chats ---------------------------------
(***************************************************************************)
(* How messages are named: the key of a received stanza                    *)
(* (decodeMessageNode() in messages/recv.ts), the key inside a reaction or *)
(* poll update, which is its sender's view of the message it is about      *)
(* (cleanMessage()), and the receipts of what was read, from               *)
(* readMessages() (send-relay.ts) to the author's handleReceiptStanza()    *)
(* (client.ts).  Pure functions.                                           *)
(*                                                                         *)
(* A JID is a user, a server and a device.  What other clients send, and   *)
(* the server's routing, are external.                                     *)
(***************************************************************************)
EXTENDS Naturals, Sequences, FiniteSets, SequencesExt

CONSTANTS
  People, Me,       \* Me is one of them
  Modes,            \* how people are addressed: "pn", by number, and "lid"
  Devices,
  MaxRead           \* bound: messages read at once

ASSUME ChatsAssumption ==
  /\ Me \in People /\ Modes \subseteq {"pn", "lid"} /\ "pn" \in Modes
  /\ Devices \subseteq Nat /\ 0 \in Devices /\ MaxRead \in Nat

Jid(user, server, device) == [user |-> user, server |-> server, device |-> device]
NoJid == Jid(<< >>, "", 0)

\* A person's address: on the usual servers, or hosted ones.
PersonJid(p, mode, device)  == Jid(<< p, mode >>, mode, device)
HostedServer == [pn |-> "hosted", lid |-> "hosted.lid"]
UserServers  == {"pn", "lid", "hosted", "hosted.lid"}

GroupJid     == Jid(<< "group" >>, "g.us", 0)
BroadcastJid == Jid(<< "status" >>, "broadcast", 0)

MeId  == PersonJid(Me, "pn", 7)
MeLid == IF "lid" \in Modes THEN PersonJid(Me, "lid", 0) ELSE NoJid

Key(remoteJid, fromMe, participant) ==
  [remoteJid |-> remoteJid, fromMe |-> fromMe, participant |-> participant]

Chosen(jid, otherwise) == IF jid # NoJid THEN jid ELSE otherwise

-----------------------------------------------------------------------------
(***************************************************************************)
(* The key of a stanza.                                                    *)
(***************************************************************************)

\* areJidsSameUser(): two missing users are the same.
SameUser(a, b) == a.user = b.user

IsMe(jid)   == SameUser(jid, MeId)
IsMine(jid) == IsMe(jid) \/ (MeLid # NoJid /\ SameUser(jid, MeLid))

\* decodeMessageNode(): the key, or none where it throws.
DecodeMessageNode(st) ==
  LET from == st.from.server  part == st.participant
      own == st.recipient # NoJid /\ st.recipient.server # "newsletter"
  IN  { k \in { Key(st.recipient, TRUE, part) } : from \in UserServers /\ own /\ IsMine(st.from) }
      \cup { k \in { Key(st.from, FALSE, part) } : from \in UserServers /\ ~own }
      \cup { k \in { Key(st.from, IsMine(part), part) } : from = "g.us" /\ part # NoJid }
      \cup { k \in { Key(st.from, IsMe(part), part) } : from = "broadcast" /\ part # NoJid }
      \cup { k \in { Key(st.from, IsMine(st.from), part) } : from = "newsletter" }

\* jidNormalizedUser(): no device, and the old server's name for numbers.
Normalized(jid) == [jid EXCEPT !.device = 0, !.server = IF @ = "c.us" THEN "pn" ELSE @]

\* Hosted addresses come down to the usual ones.
Cleaned(jid) ==
  IF jid.server \notin {"hosted", "hosted.lid"} THEN Normalized(jid)
  ELSE [jid EXCEPT !.device = 0, !.server = IF @ = "hosted" THEN "pn" ELSE "lid"]

CleanMessage(key) == [key EXCEPT !.remoteJid = Cleaned(@), !.participant = Cleaned(@)]

BugNumberOnly(target, key) ==
  LET author == Chosen(target.participant, target.remoteJid)
  IN  IF key.fromMe THEN target
      ELSE Key(key.remoteJid, ~target.fromMe /\ SameUser(author, MeId),
               Chosen(target.participant, key.participant))

\* normaliseKey(): the key inside another's reaction, seen from here.  The
\* other's chat is ours with the other; the message is ours if its author is.
NormaliseKey(target, key) ==
  LET author == Chosen(target.participant, target.remoteJid)
  IN  IF key.fromMe THEN target
      ELSE Key(key.remoteJid,
               ~target.fromMe /\ (SameUser(author, MeId) \/ SameUser(author, MeLid)),
               Chosen(target.participant, key.participant))

-----------------------------------------------------------------------------
(***************************************************************************)
(* Receipts of what was read.                                              *)
(***************************************************************************)

SameRecipient(r, k) == r.jid = k.remoteJid /\ r.participant = k.participant

\* One key more: to the others of its chat and author, or a recipient more.
Aggregated(recps, k) ==
  IF \E i \in DOMAIN recps : SameRecipient(recps[i], k)
  THEN [i \in DOMAIN recps |-> IF SameRecipient(recps[i], k)
                               THEN [recps[i] EXCEPT !.ids = Append(@, k.id)] ELSE recps[i]]
  ELSE Append(recps, [jid |-> k.remoteJid, participant |-> k.participant, ids |-> << k.id >>])

AggregateMessageKeysNotFromMe(keys) ==
  LET recps[i \in 0..Len(keys)] ==
        IF i = 0 THEN << >>
        ELSE IF keys[i].fromMe \/ keys[i].remoteJid = NoJid THEN recps[i - 1]
        ELSE Aggregated(recps[i - 1], keys[i])
  IN  recps[Len(keys)]

\* sendReceipt(): the ids after the first go in a list.
SendReceipt(r, type) ==
  LET swap == type = "sender" /\ r.jid.server \in {"pn", "lid"}
  IN  [id |-> r.ids[1], list |-> Tail(r.ids), type |-> type,
       recipient |-> IF swap THEN r.jid ELSE NoJid,
       to |-> IF swap THEN r.participant ELSE r.jid,
       participant |-> IF swap THEN NoJid ELSE r.participant]

ReadMessages(keys) ==
  LET recps == AggregateMessageKeysNotFromMe(keys)
  IN  [i \in DOMAIN recps |-> SendReceipt(recps[i], "read")]

\* handleReceiptStanza() of a client whose own JID is me: what it reports.
\* It looks at the attributes only: the ids in the list go unreported.
HandleReceiptStanza(attrs, me) ==
  { [key |-> [id |-> attrs.id, remoteJid |-> Chosen(attrs.from, attrs.recipient),
              fromMe |-> attrs.from = NoJid \/ attrs.from = me, participant |-> attrs.participant],
     userJid |-> Chosen(attrs.participant, attrs.from),
     read |-> attrs.type \in {"read", "read-self"}] :
    t \in {attrs.type} \cap {"read", "read-self", "sender", "delivery"} }

-----------------------------------------------------------------------------
(***************************************************************************)
(* The other clients and the server.                                       *)
(***************************************************************************)

Peers == People \ {Me}

\* A chat: with a peer, or the group.
ChatsOf == { [peer |-> q, group |-> FALSE] : q \in Peers } \cup { [peer |-> Me, group |-> TRUE] }
Parties(chat) == IF chat.group THEN People ELSE {Me, chat.peer}

\* The stanza of a message by a, sent from a device, as it reaches Me.
StanzasOf(a, chat, mode) ==
  LET senders == { PersonJid(a, mode, d) : d \in Devices }
                 \cup { Jid(<< a, mode >>, HostedServer[mode], d) : d \in Devices }
  IN  IF chat.group
      THEN { [from |-> GroupJid, participant |-> j, recipient |-> NoJid] : j \in senders }
      ELSE { [from |-> j, participant |-> NoJid,
              recipient |-> IF a = Me THEN PersonJid(chat.peer, mode, 0) ELSE NoJid] : j \in senders }

\* The key by which v's client names a message by a: its own messages in the
\* group with or without their author.
ViewsOf(v, a, chat, mode) ==
  IF chat.group
  THEN { Key(GroupJid, a = v, j) : j \in { PersonJid(a, mode, 0) } \cup { n \in {NoJid} : a = v } }
  ELSE { Key(PersonJid(IF v = Me THEN chat.peer ELSE Me, mode, 0), a = v, NoJid) }

\* Keys of messages that were announced here.
Announced ==
  { CleanMessage(k) : k \in UNION { DecodeMessageNode(st) :
      st \in UNION { StanzasOf(a, chat, mode) : a \in People, chat \in ChatsOf, mode \in Modes } } }
  \cup { CleanMessage(k) : k \in UNION { DecodeMessageNode(
           [from |-> BroadcastJid, participant |-> PersonJid(q, "pn", 0), recipient |-> NoJid]) : q \in People } }

\* Whom the server hands a receipt, and what it makes of it there.
Receiver(r)  == Chosen(r.participant, r.to)
Forwarded(r) ==
  LET mode == Receiver(r).server
  IN  [id |-> r.id, type |-> r.type, recipient |-> NoJid,
       from |-> IF r.participant # NoJid THEN r.to ELSE PersonJid(Me, mode, 0),
       participant |-> IF r.participant # NoJid THEN PersonJid(Me, mode, 0) ELSE NoJid]

-----------------------------------------------------------------------------
(***************************************************************************)
(* What holds.                                                             *)
(***************************************************************************)

\* A reaction or poll update names the message it is about as this client
\* does, whoever of the chat wrote the message and whoever reacts, from any
\* device, addressed by number or by LID, hosted or not.
ReactionsPoint ==
  \A mode \in Modes, chat \in ChatsOf : \A a, r \in Parties(chat) :
    \A m \in StanzasOf(a, chat, mode), s \in StanzasOf(r, chat, mode) :
      \A v \in ViewsOf(r, a, chat, mode) :
        \E km \in DecodeMessageNode(m), ks \in DecodeMessageNode(s) :
          LET known  == CleanMessage(km)
              target == NormaliseKey(v, CleanMessage(ks))
          IN  /\ target.remoteJid = known.remoteJid /\ target.fromMe = known.fromMe
              /\ target.participant = NoJid => ~chat.group \/ a = Me
              /\ chat.group /\ target.participant # NoJid =>
                   SameUser(target.participant, known.participant)

\* Every message read that is another's is in exactly one receipt, which goes
\* to its author, and nobody else is sent its id; the author's client reports
\* as read a message that was, in the chat with the reader or the group.
ReceiptsReach ==
  \A n \in 1..MaxRead : \A ks \in [1..n -> Announced] :
    LET keys  == [i \in 1..n |-> [id |-> i, remoteJid |-> ks[i].remoteJid,
                                   fromMe |-> ks[i].fromMe, participant |-> ks[i].participant]]
        sent  == ReadMessages(keys)
        IdsOf(r)  == {r.id} \cup Range(r.list)
        Author(k) == Chosen(k.participant, k.remoteJid)
    IN  /\ \A i \in 1..n :
             LET with == { j \in DOMAIN sent : keys[i].id \in IdsOf(sent[j]) }
             IN  /\ Cardinality(with) = IF keys[i].fromMe THEN 0 ELSE 1
                 /\ \A j \in with : Receiver(sent[j]) = Author(keys[i]) /\ sent[j].to = keys[i].remoteJid
        /\ \A j \in DOMAIN sent :
             \A e \in HandleReceiptStanza(Forwarded(sent[j]), Receiver(sent[j])) :
               /\ e.read /\ e.userJid.user[1] = Me
               /\ \E k \in Range(keys) : e.key.id = k.id /\ Author(k) = Receiver(sent[j])
                                         /\ e.key.remoteJid \in {k.remoteJid} \cup {e.userJid}

NamesAgree == ReactionsPoint /\ ReceiptsReach

=============================================================================
