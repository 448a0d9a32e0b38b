-------------------------------- MODULE Compose --------------------------------
(***************************************************************************)
(* From the content an application sends to the protobuf message that is   *)
(* relayed (encode.ts).  Texts, captions and layouts are left out: what    *)
(* counts is the type of the message, the wrappers around it and what its  *)
(* contextInfo holds.                                                      *)
(***************************************************************************)
EXTENDS Naturals, Sequences, FiniteSets

None == "none"

MediaTypes == {"image", "video", "audio", "document", "sticker"}
OtherTypes == {"text", "contacts", "location", "reaction", "poll", "buttons", "list",
               "reply", "interactive", "template"}

\* A message: its wrappers from the outside, what is on the outermost one's
\* contextInfo, its type ("" for an empty one), its context (what is "own" is
\* the application's), what its file is (a call, see Media) and, for an edit,
\* the message inside.  first: what its first key is, the "content", a "blank"
\* conversation: undefined, or an "other" part: the sender key or the secrets
\* that may come with a received message.
Message(type, ctx, file) ==
  [wraps |-> << >>, wrapCtx |-> {}, type |-> type, ctx |-> ctx, file |-> file, edits |-> << >>,
   first |-> "content"]

\* normalizeMessageContent(): up to five wrappers come off.
Normalize(m) ==
  IF m.wraps = << >> THEN m
  ELSE [m EXCEPT !.wraps = SubSeq(@, 6, Len(@)), !.wrapCtx = {}]

\* generateForwardMessageContent(): the context behind the first key is
\* replaced; a message of our own that was never forwarded is not marked.
\* Plain text becomes an extended text, and leaves its key behind.
Forwarded(c) ==
  LET n == Normalize(c.original)
      plain == n.type = "conversation"
  IN  IF n.first = "other" THEN n
      ELSE [n EXCEPT !.type = IF plain THEN "text" ELSE @,
                     !.first = IF plain THEN "blank" ELSE @,
                     !.ctx = IF "forwarded" \in n.ctx \/ ~c.fromMe \/ c.force
                             THEN {"forwarded"} ELSE {}]

\* The types that take the application's contextInfo over.
TakesContext == MediaTypes \cup {"text", "buttons", "list", "interactive", "template"}

\* The chain of ifs of generateWAMessageContent(): the first property that is
\* there decides.
Typed(c, file) ==
  CASE c.kind = "forward" -> Forwarded(c)
    [] c.kind = "delete"  -> Message("protocol", {}, None)
    [] c.kind = "timer"   -> [Message("protocol", {}, None) EXCEPT !.wraps = << "ephemeral" >>]
    [] c.kind \in MediaTypes \cup OtherTypes ->
         Message(c.kind, IF c.own /\ c.kind \in TakesContext THEN {"own"} ELSE {}, file)
    [] OTHER -> Message("", {}, None)

\* Mentions go behind the first key of what is outermost.
Mentioned(m) ==
  IF m.wraps # << >> THEN [m EXCEPT !.wrapCtx = @ \cup {"mentions"}]
  ELSE IF m.type # "" /\ m.first = "content" THEN [m EXCEPT !.ctx = @ \cup {"mentions"}]
  ELSE m

\* Message.create(), external: keys without a value are dropped, of the
\* outermost only.
Created(m) == IF m.wraps = << >> /\ m.first = "blank" THEN [m EXCEPT !.first = "content"] ELSE m

\* Then it is wrapped as view-once, mentions are added, and an edit wraps it
\* again.
Wrapped(c, m) ==
  LET once == IF c.viewOnce THEN [m EXCEPT !.wraps = << "viewOnce" >> \o @] ELSE m
      said == IF c.mentions THEN Mentioned(once) ELSE once
  IN  Created(IF c.edit THEN [Message("protocol", {}, None) EXCEPT !.edits = << said >>] ELSE said)

BugEnvelope(m, opts) ==
  LET n == Normalize(m)
      there == n.type # "" /\ n.first # "blank" /\ ~opts.newsletter
  IN  [n EXCEPT !.ctx = (IF there /\ opts.quoted THEN {"quoted"} ELSE @)
                        \cup (IF there /\ opts.expires /\ n.type # "protocol"
                              THEN {"expiration"} ELSE {})]

\* generateWAMessageFromContent(): the wrappers come off and stay off.  A
\* quoted message and the chat's timer add to the context behind the key of the
\* content, which a blank conversation is taken for; the timer not to an edit or
\* a setting; a newsletter has neither.
Envelope(m, opts) ==
  LET n == Normalize(m)
      there == n.type # "" /\ n.first # "blank" /\ ~opts.newsletter
  IN  [n EXCEPT !.ctx = @ \cup (IF there /\ opts.quoted THEN {"quoted"} ELSE {})
                          \cup (IF there /\ opts.expires /\ n.type # "protocol"
                                THEN {"expiration"} ELSE {})]

\* generateWAMessage()
Composed(c, file, opts) == Envelope(Wrapped(c, Typed(c, file)), opts)

\* The attribute sendMessage() puts on the stanza: a deletion says whose
\* message it deletes.
EditAttribute(c) ==
  CASE c.kind = "delete" -> IF c.group /\ ~c.fromMe THEN "8" ELSE "7"
    [] c.kind # "delete" /\ c.edit -> "1"
    [] OTHER -> None

=============================================================================
