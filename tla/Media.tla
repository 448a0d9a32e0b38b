--------------------------------- MODULE Media ---------------------------------
(***************************************************************************)
(* sendMessage() (send-relay.ts): a file is encrypted into a temporary     *)
(* file and uploaded to a media host (media.ts, client.ts), the message is *)
(* composed (see Compose) and relayed (see Relay).  Calls overlap: each is *)
(* at one of its awaits.                                                   *)
(*                                                                         *)
(* A temporary file is named by its media type and the millisecond.  Files *)
(* are an inode with chunks behind a name, as on POSIX.  Media hosts, the  *)
(* media_conn query and the cipher are external.                           *)
(***************************************************************************)
EXTENDS Compose

CONSTANTS
  Calls,        \* calls of sendMessage()
  Contents,     \* call -> what it may be called with: see MediaAssumption
  Hosts,        \* number of hosts a media_conn names
  Chunks,       \* chunks of a file
  MaxTime,      \* bound: milliseconds that pass
  MaxAuths      \* bound: times the server changes its auth

\* file: None, or the media type of what is uploaded, the content itself or
\* the header of its buttons.  The rest is explained in Compose.
ASSUME MediaAssumption ==
  /\ Hosts \in Nat /\ Chunks \in Nat \ {0} /\ MaxTime \in Nat /\ MaxAuths \in Nat
  /\ None \notin Calls
  /\ \A j \in Calls : \A c \in Contents[j] :
       /\ c.file \in {None} \cup MediaTypes
       /\ "file" \in DOMAIN c.original /\ c.original.file \notin Calls   \* another's upload

\* What is edited has content of a known kind, and what is forwarded is a
\* message with some, in no more wrappers than normalizeMessageContent() takes
\* off (a setting or a deletion is not forwarded).
ASSUME ContentAssumption ==
  \A j \in Calls : \A c \in Contents[j] :
    /\ c.edit => c.kind \in MediaTypes \cup OtherTypes \cup {"forward", "delete", "timer"}
    /\ DOMAIN c.original = {"wraps", "wrapCtx", "type", "ctx", "file", "edits", "first"}
    /\ c.original.wraps \in Seq(STRING)
    /\ c.original.first \in {"content", "other"}
    /\ c.original.type = "conversation" => c.original.first = "content" /\ c.original.ctx = {}
    /\ c.kind = "forward" /\ ~c.bad =>
         c.original.type \notin {"", "protocol"} /\ Len(c.original.wraps) <= 5

VARIABLES
  calls,      \* see Idle
  names,      \* temporary files: name -> inode
  inodes,     \* inode -> chunk -> whose encryption it holds; inodes are named
              \* by the call that created them
  cache,      \* mediaConnCache.current: its auth, or 0
  auth,       \* the auth the hosts accept
  blobs,      \* what a call's upload left on the hosts
  time,
  kept        \* history: names that could not be removed

vars == << calls, names, inodes, cache, auth, blobs, time, kept >>

Names == ((UNION { { c.file : c \in Contents[j] } : j \in Calls }) \ {None}) \X (0..MaxTime)
Empty == [i \in 1..Chunks |-> None]

\* path: encFilePath; fd: the inode written to, if the file could be opened; at:
\* chunks written; info: auth of uploadInfo; host: the one that is tried; body: what the request reads.
Idle == [pc |-> "idle", content |-> << >>, path |-> << >>, fd |-> None, at |-> 0,
         info |-> 0, host |-> 0, body |-> << >>, sent |-> << >>]

Init ==
  /\ calls = [j \in Calls |-> Idle]
  /\ names = [n \in Names |-> None]
  /\ inodes = [j \in Calls |-> Empty]
  /\ cache = 0 /\ auth = 1 /\ time = 0
  /\ blobs = [j \in Calls |-> Empty]
  /\ kept = {}

Over == {"sent", "failed", "lost"}

To(j, pc) == calls' = [calls EXCEPT ![j].pc = pc]
Ends(j, pc) == calls' = [calls EXCEPT ![j] = [Idle EXCEPT !.pc = pc, !.path = calls[j].path]]
Fails(j) == Ends(j, "failed")

\* waUploadToServer is there from login on; without a file nothing is awaited.
Call(j) ==
  /\ calls[j].pc = "idle"
  /\ \E c \in Contents[j] :
       calls' = [calls EXCEPT ![j].content = << c >>,
                              ![j].pc = IF c.file = None THEN "compose" ELSE "source"]
  /\ UNCHANGED << names, inodes, cache, auth, blobs, time, kept >>

-----------------------------------------------------------------------------
(***************************************************************************)
(* encryptedStream().                                                      *)
(***************************************************************************)

TempName(type) == << type, time >>

\* getStream(), then getMediaKeys(): the source is there or is not.
Source(j) ==
  /\ calls[j].pc = "source"
  /\ \/ calls' = [calls EXCEPT ![j].pc = "open", ![j].path = TempName(calls[j].content[1].file)]
     \/ Fails(j)
  /\ UNCHANGED << names, inodes, cache, auth, blobs, time, kept >>

\* createWriteStream() creates the file or empties the one that is there.  If
\* it cannot, nobody notices yet.
OpenFile(j) ==
  /\ calls[j].pc = "open"
  /\ \/ LET path  == calls[j].path
            inode == IF names[path] = None THEN j ELSE names[path]
        IN  /\ names' = [names EXCEPT ![path] = inode]
            /\ inodes' = [inodes EXCEPT ![inode] = Empty]
            /\ calls' = [calls EXCEPT ![j].pc = "write", ![j].fd = inode]
     \/ To(j, "write") /\ UNCHANGED << names, inodes >>
  /\ UNCHANGED << cache, auth, blobs, time, kept >>

\* unlink(), its error ignored: the name goes, or stays.
Removes(path) ==
  \/ names' = [names EXCEPT ![path] = None] /\ UNCHANGED kept
  \/ names[path] # None /\ kept' = kept \cup {path} /\ UNCHANGED names

\* The catch of encryptedStream().
GivesUp(j) == Fails(j) /\ Removes(calls[j].path)

\* The call is at its next chunk, or waits for the stream to finish.
NextChunk(j) ==
  calls' = [calls EXCEPT ![j].at = IF @ + 1 = Chunks THEN 0 ELSE @ + 1,
                         ![j].pc = IF calls[j].at + 1 = Chunks THEN "finish" ELSE @]

BugWrite(j) ==
  /\ calls[j].pc = "write"
  /\ LET h == calls[j]
     IN  \/ /\ inodes' = IF h.fd = None \/ h.at + 1 = Chunks THEN inodes
                         ELSE [inodes EXCEPT ![h.fd][h.at + 1] = j]
            /\ NextChunk(j)
            /\ UNCHANGED << names, kept >>
         \/ GivesUp(j) /\ UNCHANGED inodes
  /\ UNCHANGED << cache, auth, blobs, time >>

\* A chunk of the source is encrypted and written at our own place; after the
\* last the stream is ended.  The source may break off.
Write(j) ==
  /\ calls[j].pc = "write"
  /\ LET h == calls[j]
     IN  \/ /\ inodes' = IF h.fd = None THEN inodes ELSE [inodes EXCEPT ![h.fd][h.at + 1] = j]
            /\ NextChunk(j)
            /\ UNCHANGED << names, kept >>
         \/ GivesUp(j) /\ UNCHANGED inodes
  /\ UNCHANGED << cache, auth, blobs, time >>

\* Now the stream is listened to: it finishes, or has an error.
Finished(j) ==
  /\ calls[j].pc = "finish"
  /\ \/ /\ calls[j].fd # None
        /\ calls' = [calls EXCEPT ![j].pc = "conn", ![j].fd = None]
        /\ UNCHANGED << names, kept >>
     \/ GivesUp(j)
  /\ UNCHANGED << inodes, cache, auth, blobs, time >>

\* The file cannot be opened, or the disk is full, and the event comes while
\* the source is read: nobody listens, which ends the process.  Temporary files
\* stay.
UnheardError ==
  /\ \E j \in Calls : calls[j].pc = "write"
  /\ calls' = [j \in Calls |->
       IF calls[j].pc \in {"idle"} \cup Over THEN calls[j]
       ELSE [Idle EXCEPT !.pc = "lost", !.path = calls[j].path]]
  /\ cache' = 0
  /\ UNCHANGED << names, inodes, auth, blobs, time, kept >>

-----------------------------------------------------------------------------
(***************************************************************************)
(* getWAUploadToServer() and refreshMediaConn().                           *)
(***************************************************************************)

FirstHost(h) == [h EXCEPT !.pc = IF Hosts = 0 THEN "failed" ELSE "post", !.host = 1]

BugNextHost(j) == calls' = [calls EXCEPT ![j].pc = "post", ![j].body = << >>]

\* The loop over the hosts of the first answer: a failure is logged, and
\* after the last one the upload fails and its file stays.
NextHost(j) ==
  IF calls[j].host < Hosts
  THEN calls' = [calls EXCEPT ![j].pc = "post", ![j].host = @ + 1, ![j].body = << >>]
  ELSE Fails(j)

\* What is cached will do; else the query goes out.
Conn(j) ==
  /\ calls[j].pc = "conn"
  /\ calls' = [calls EXCEPT ![j] = IF cache # 0 THEN FirstHost([@ EXCEPT !.info = cache])
                                   ELSE [@ EXCEPT !.pc = "query"]]
  /\ UNCHANGED << names, inodes, cache, auth, blobs, time, kept >>

\* The answer is cached, whatever was meanwhile; or there is none.
ConnAnswer(j) ==
  /\ calls[j].pc = "query"
  /\ \/ /\ cache' = auth
        /\ calls' = [calls EXCEPT ![j] = FirstHost([@ EXCEPT !.info = auth])]
     \/ Fails(j) /\ UNCHANGED cache
  /\ UNCHANGED << names, inodes, auth, blobs, time, kept >>

\* The request reads the file under its name, or finds none.
Post(j) ==
  /\ calls[j].pc = "post"
  /\ LET inode == names[calls[j].path]
     IN  IF inode = None THEN NextHost(j)
         ELSE calls' = [calls EXCEPT ![j].pc = "posted", ![j].body = inodes[inode]]
  /\ UNCHANGED << names, inodes, cache, auth, blobs, time, kept >>

\* The host stores it under the call's token, if it takes the auth; says no,
\* which asks for another media_conn; or cannot be reached.  What the loop
\* over the hosts kept goes with it.
PostAnswer(j) ==
  /\ calls[j].pc = "posted"
  /\ \/ /\ calls[j].info = auth
        /\ blobs' = [blobs EXCEPT ![j] = calls[j].body]
        /\ calls' = [calls EXCEPT ![j].pc = "uploaded", ![j].body = << >>,
                                 ![j].info = 0, ![j].host = 0]
     \/ To(j, "refresh") /\ UNCHANGED blobs
     \/ NextHost(j) /\ UNCHANGED blobs
  /\ UNCHANGED << names, inodes, cache, auth, time, kept >>

\* The answer to that is for the next host, if one is left.
Refreshed(j) ==
  /\ calls[j].pc = "refresh"
  /\ \/ /\ cache' = auth
        /\ IF calls[j].host < Hosts
           THEN calls' = [calls EXCEPT ![j].pc = "post", ![j].host = @ + 1, ![j].body = << >>,
                                       ![j].info = auth]
           ELSE Fails(j)
     \/ NextHost(j) /\ UNCHANGED cache
  /\ UNCHANGED << names, inodes, auth, blobs, time, kept >>

BugUnlink(j) ==
  /\ calls[j].pc = "uploaded"
  /\ To(j, "compose")
  /\ UNCHANGED << names, inodes, cache, auth, blobs, time, kept >>

\* The call goes on, with the file removed or not.
Unlink(j) ==
  /\ calls[j].pc = "uploaded"
  /\ Removes(calls[j].path)
  /\ To(j, "compose")
  /\ UNCHANGED << inodes, cache, auth, blobs, time >>

-----------------------------------------------------------------------------
(***************************************************************************)
(* The message.                                                            *)
(***************************************************************************)

\* It is composed and handed to relayMessage(); contacts without any, and a
\* forwarded message without content, throw.
Compose(j) ==
  /\ calls[j].pc = "compose"
  /\ LET c == calls[j].content[1]
         file == IF c.file = None THEN None ELSE j
     IN  IF c.bad THEN Fails(j)
         ELSE calls' = [calls EXCEPT ![j].pc = "relay", ![j].sent = << Composed(c, file, c.opts),
                                                                     EditAttribute(c) >>]
  /\ UNCHANGED << names, inodes, cache, auth, blobs, time, kept >>

Relayed(j) ==
  /\ calls[j].pc = "relay"
  /\ Ends(j, "sent") \/ Fails(j)
  /\ UNCHANGED << names, inodes, cache, auth, blobs, time, kept >>

-----------------------------------------------------------------------------
Tick ==
  /\ time < MaxTime /\ time' = time + 1
  /\ UNCHANGED << calls, names, inodes, cache, auth, blobs, kept >>

\* The hosts stop to take an auth; the ttl of the cached one runs out.
AuthChanges ==
  /\ auth < MaxAuths /\ auth' = auth + 1
  /\ UNCHANGED << calls, names, inodes, cache, blobs, time, kept >>
CacheExpires ==
  /\ cache # 0 /\ cache' = 0
  /\ UNCHANGED << calls, names, inodes, auth, blobs, time, kept >>

Step(j) ==
  \/ Source(j) \/ OpenFile(j) \/ Write(j) \/ Finished(j) \/ Conn(j) \/ ConnAnswer(j) \/ Post(j)
  \/ PostAnswer(j) \/ Refreshed(j) \/ Unlink(j) \/ Compose(j) \/ Relayed(j)

Next ==
  \/ \E j \in Calls : Call(j) \/ Step(j)
  \/ UnheardError \/ Tick \/ AuthChanges \/ CacheExpires

\* Promises settle: sources end, the disk, hosts and the query answer or fail.
Fairness == \A j \in Calls : WF_vars(Step(j))

Spec == Init /\ [][Next]_vars
FairSpec == Spec /\ Fairness

-----------------------------------------------------------------------------
(***************************************************************************)
(* Properties.                                                             *)
(***************************************************************************)

Own(j) == [i \in 1..Chunks |-> j]
Shares(j) == \E k \in Calls \ {j} : calls[k].path # << >> /\ calls[k].path = calls[j].path

\* A message never names an upload that holds anything but its own file,
\* whatever uploads overlap, fail or are tried again, as long as no other
\* file of its type was encrypted in the same millisecond: those two share a
\* temporary file (media.ts:215).
OwnBytes == \A j \in Calls : calls[j].pc = "relay" /\ calls[j].sent[1].file = j /\ ~Shares(j)
                               => blobs[j] = Own(j)

\* A temporary file that is left belongs to a call that is under way, failed or
\* was lost with the process, or is one that could not be removed: a call that
\* is sent removes its file, whatever was tried before.
FilesRemoved ==
  \A n \in Names \ kept :
    names[n] # None => \E j \in Calls : calls[j].path = n /\ calls[j].pc # "sent"

\* What was asked to go with a message is on it as it is relayed, and nothing
\* else, whatever it is combined with.  But the mentions of a view-once
\* message or a setting are lost with the wrapper, an edit carries its own
\* inside, and a forwarded message keeps no context and gets no mentions if it
\* was plain text (encode.ts:108, encode.ts:462).  One with another part first
\* keeps its old context, and gets no mentions and no mark (encode.ts:100).
Aside(c) == c.kind = "forward" /\ Normalize(c.original).first = "other"
Plain(c) == c.kind = "forward" /\ Normalize(c.original).type = "conversation"
Asked(c) ==
  (IF c.mentions /\ ~Aside(c) /\ ~Plain(c) THEN {"mentions"} ELSE {})
  \cup (IF c.own /\ c.kind \in TakesContext THEN {"own"} ELSE {})
  \cup (IF Aside(c) THEN Normalize(c.original).ctx \ {"forwarded"} ELSE {})
  \cup (IF c.opts.quoted /\ ~c.opts.newsletter THEN {"quoted"} ELSE {})
  \cup (IF c.opts.expires /\ ~c.opts.newsletter /\ c.kind \notin {"delete", "timer"}
        THEN {"expiration"} ELSE {})
ContextArrives ==
  \A j \in Calls : calls[j].sent # << >> =>
    LET c == calls[j].content[1]  m == calls[j].sent[1]
    IN  /\ ~c.edit /\ ~c.viewOnce /\ c.kind # "timer" /\ m.type # "" => m.ctx \ {"forwarded"} = Asked(c)
        /\ c.edit => m.type = "protocol"
                     /\ (c.mentions /\ (c.viewOnce \/ ~(Aside(c) \/ Plain(c))) =>
                           "mentions" \in m.edits[1].ctx \cup m.edits[1].wrapCtx)
        /\ c.kind = "forward" /\ ~Aside(c) /\ ~c.edit /\ ~c.fromMe => "forwarded" \in m.ctx

\* "incrementing the forwarding score if the message is from someone else"
\* (encode.ts:84): what is forwarded is marked as such.
ForwardMarked ==
  \A j \in Calls : calls[j].sent # << >> =>
    LET c == calls[j].content[1]
    IN  c.kind = "forward" /\ ~c.edit /\ ~c.fromMe => "forwarded" \in calls[j].sent[1].ctx

\* Every call ends, with the message relayed or with an error: no failure of
\* source, disk, query, host or relay leaves it waiting, except that an error
\* of the disk that nobody listens for yet takes the process with it.
SendSettles == \A j \in Calls : calls[j].pc # "idle" ~> calls[j].pc \in Over

\* createCipheriv(), external; the key of a call's file is the call's.
Cipher(key, data) == << "encrypted", key, data >>

\* downloadEncryptedContent(): what it calls the decipher is a cipher too.
Downloaded(key, body) == Cipher(key, body)

\* "Download and decrypt AES-256-CBC encrypted content from a URL"
\* (media.ts:477): who has the message can read its file.
FileReadable ==
  \A j \in Calls : calls[j].pc = "relay" /\ calls[j].sent[1].file = j /\ blobs[j] = Own(j) =>
    Downloaded(j, Cipher(j, << "file", j >>)) = << "file", j >>

=============================================================================
