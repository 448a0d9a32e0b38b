------------------------------ MODULE MediaProofs ------------------------------
(***************************************************************************)
(* Proofs about Media, for any number of overlapping calls, hosts and      *)
(* chunks, any contents, and any order of failures.                        *)
(***************************************************************************)
EXTENDS Media, TLAPS

Fields == {"pc", "content", "path", "fd", "at", "info", "host", "body", "sent"}

\* A call's states: before its file is opened, while it has one, and after.
Before    == {"idle", "source"}
Uploading == {"conn", "query", "post", "posted", "refresh", "uploaded"}
Writing   == {"write", "finish"}
HasFile   == Writing \cup Uploading
Left      == {"failed", "lost"}
Opened    == HasFile \cup {"compose", "relay"} \cup Over

\* A file of a call is its own: it is named in Contents.
FileOf(j, content) == \E c \in Contents[j] : content = << c >> /\ c.file # None

\* Call c's descriptor, if it has one, is of a file under c's name.
FdOf(all, c) == c.fd = None \/ (c.fd \in Calls /\ all[c.fd].path = c.path)

\* FilesRemoved is not inductive by itself: a name is there for a call that
\* has not removed it yet or could not, and its inode was created under that
\* very name.  A call writes to a file under its name, or to none.
FileInv ==
  /\ calls = [j \in Calls |-> calls[j]]
  /\ \A j \in Calls : DOMAIN calls[j] = Fields
  /\ DOMAIN blobs = Calls
  /\ names \in [Names -> Calls \cup {None}]
  /\ inodes \in [Calls -> [1..Chunks -> Calls \cup {None}]]
  /\ time \in 0..MaxTime
  /\ \A j \in Calls :
       /\ calls[j].pc \in Before => calls[j].path = << >>
       /\ calls[j].pc \in Before \cup {"open"} => calls[j].at = 0 /\ calls[j].fd = None
       /\ calls[j].pc \in {"source", "open"} \cup HasFile => FileOf(j, calls[j].content)
       /\ calls[j].pc \in {"open"} \cup HasFile => calls[j].path \in Names
       /\ calls[j].pc \in Writing => FdOf(calls, calls[j])
       /\ calls[j].pc = "write" => calls[j].at \in 0..(Chunks - 1)
  /\ \A n \in Names : names[n] # None =>
       /\ calls[names[n]].path = n /\ calls[names[n]].pc \in Opened
       /\ n \in kept \/ \E j \in Calls : calls[j].path = n /\ calls[j].pc \in HasFile \cup Left

LEMMA NamesNotEmpty == \A n \in Names : n # << >>
<1> SUFFICES ASSUME NEW n \in Names PROVE n # << >>
  OBVIOUS
<1> DEFINE types == (UNION { { c.file : c \in Contents[j] } : j \in Calls }) \ {None}
<1>1. n \in types \X (0..MaxTime)
  BY DEF Names
<1> HIDE DEF types
<1>2. PICK t, m : n = << t, m >>
  BY <1>1
<1> QED
  BY <1>2

LEMMA IdleCall == DOMAIN Idle = Fields /\ Idle.pc = "idle" /\ Idle.path = << >> /\ Idle.at = 0 /\ Idle.fd = None
BY DEF Idle, Fields

LEMMA FileInit == Init => FileInv
<1> SUFFICES ASSUME Init PROVE FileInv
  OBVIOUS
<1>1. /\ calls = [j \in Calls |-> Idle] /\ names = [n \in Names |-> None] /\ time = 0
      /\ inodes = [j \in Calls |-> Empty] /\ blobs = [j \in Calls |-> Empty]
  BY DEF Init
<1>2. Empty \in [1..Chunks -> Calls \cup {None}]
  BY DEF Empty
<1> QED
  BY <1>1, <1>2, IdleCall, MediaAssumption DEF FileInv, Before, HasFile, Writing, Uploading

\* One call moves on and keeps its path; files are written to and names are
\* removed, the call's own when it is done with it.
LEMMA CallWorks ==
  ASSUME FileInv, NEW j \in Calls, NEW c,
         calls' = [calls EXCEPT ![j] = c], DOMAIN c = Fields, c.path = calls[j].path,
         inodes' \in [Calls -> [1..Chunks -> Calls \cup {None}]],
         names' \in [Names -> Calls \cup {None}], \A n \in Names : names'[n] \in {names[n], None},
         kept \subseteq kept', UNCHANGED time, DOMAIN blobs' = DOMAIN blobs,
         c.pc \in Before => calls[j].pc \in Before /\ c.at = calls[j].at /\ c.fd = calls[j].fd,
         c.pc \in {"source", "open"} \cup HasFile => FileOf(j, c.content),
         c.pc \in HasFile => calls[j].pc \in {"open"} \cup HasFile, c.pc # "open",
         c.pc \in Writing => c.fd = None \/ (calls[j].pc \in Writing /\ c.fd = calls[j].fd),
         c.pc = "write" => c.at \in 0..(Chunks - 1),
         calls[j].pc \in Opened => c.pc \in Opened,
         calls[j].pc \in HasFile \cup Left =>
           \/ c.pc \in HasFile \cup Left
           \/ \A n \in Names : n = calls[j].path => names'[n] = None \/ n \in kept'
  PROVE  FileInv'
<1>1. /\ calls' = [k \in Calls |-> calls'[k]]
      /\ calls'[j] = c /\ \A k \in Calls \ {j} : calls'[k] = calls[k]
  BY DEF FileInv
<1>2. \A k \in Calls : calls'[k].path = calls[k].path /\ DOMAIN calls'[k] = Fields
  BY <1>1 DEF FileInv
<1>3. \A k \in Calls :
        /\ calls'[k].pc \in Before => calls'[k].path = << >>
        /\ calls'[k].pc \in Before \cup {"open"} => calls'[k].at = 0 /\ calls'[k].fd = None
        /\ calls'[k].pc \in {"source", "open"} \cup HasFile => FileOf(k, calls'[k].content)
        /\ calls'[k].pc \in {"open"} \cup HasFile => calls'[k].path \in Names
  <2>1. /\ calls[j].pc \in Before => calls[j].path = << >>
        /\ calls[j].pc \in Before \cup {"open"} => calls[j].at = 0 /\ calls[j].fd = None
        /\ calls[j].pc \in {"open"} \cup HasFile => calls[j].path \in Names
    BY DEF FileInv
  <2>2. /\ c.pc \in Before => c.path = << >>
        /\ c.pc \in Before \cup {"open"} => c.at = 0 /\ c.fd = None
        /\ c.pc \in {"source", "open"} \cup HasFile => FileOf(j, c.content)
        /\ c.pc \in {"open"} \cup HasFile => c.path \in Names
    BY <2>1
  <2>3. ASSUME NEW k \in Calls \ {j}
        PROVE  /\ calls'[k].pc \in Before => calls'[k].path = << >>
               /\ calls'[k].pc \in Before \cup {"open"} => calls'[k].at = 0 /\ calls'[k].fd = None
               /\ calls'[k].pc \in {"source", "open"} \cup HasFile => FileOf(k, calls'[k].content)
               /\ calls'[k].pc \in {"open"} \cup HasFile => calls'[k].path \in Names
    <3>1. calls'[k] = calls[k] /\ k \in Calls
      BY <1>1
    <3> QED
      BY <3>1 DEF FileInv
  <2> QED
    BY <1>1, <2>2, <2>3
<1>4. \A k \in Calls : /\ calls'[k].pc \in Writing => FdOf(calls', calls'[k])
                       /\ calls'[k].pc = "write" => calls'[k].at \in 0..(Chunks - 1)
  <2> SUFFICES ASSUME NEW k \in Calls
               PROVE  /\ calls'[k].pc \in Writing => FdOf(calls', calls'[k])
                      /\ calls'[k].pc = "write" => calls'[k].at \in 0..(Chunks - 1)
    OBVIOUS
  <2>1. /\ calls[k].pc \in Writing => FdOf(calls, calls[k])
        /\ calls[k].pc = "write" => calls[k].at \in 0..(Chunks - 1)
    BY DEF FileInv
  <2>2. calls'[k].pc = "write" => calls'[k].at \in 0..(Chunks - 1)
    BY <1>1, <2>1
  <2>3. ASSUME calls'[k].pc \in Writing PROVE FdOf(calls', calls'[k])
    <3>1. calls'[k].fd = None \/ (calls[k].pc \in Writing /\ calls'[k].fd = calls[k].fd)
      BY <1>1, <2>3
    <3> QED
      BY <1>2, <2>1, <3>1 DEF FdOf
  <2> QED
    BY <2>2, <2>3
<1>5. \A n \in Names : names'[n] # None =>
        /\ calls'[names'[n]].path = n /\ calls'[names'[n]].pc \in Opened
        /\ n \in kept' \/ \E k \in Calls : calls'[k].path = n /\ calls'[k].pc \in HasFile \cup Left
  <2> SUFFICES ASSUME NEW n \in Names, names'[n] # None
               PROVE  /\ calls'[names'[n]].path = n /\ calls'[names'[n]].pc \in Opened
                      /\ \/ n \in kept'
                         \/ \E k \in Calls : calls'[k].path = n /\ calls'[k].pc \in HasFile \cup Left
    OBVIOUS
  <2>0. names'[n] = names[n] /\ names[n] # None
    OBVIOUS
  <2>1. names[n] \in Calls /\ calls[names[n]].path = n /\ calls[names[n]].pc \in Opened
    <3>1. names[n] \in Calls \cup {None}
      BY DEF FileInv
    <3> QED
      BY <2>0, <3>1 DEF FileInv
  <2>2. calls'[names[n]].pc \in Opened
    BY <1>1, <2>1
  <2>3. ASSUME NEW k \in Calls, calls[k].path = n, calls[k].pc \in HasFile \cup Left
        PROVE  n \in kept' \/ (calls'[k].path = n /\ calls'[k].pc \in HasFile \cup Left)
    BY <1>1, <1>2, <2>0, <2>3
  <2>4. n \in kept \/ \E k \in Calls : calls[k].path = n /\ calls[k].pc \in HasFile \cup Left
    BY <2>0 DEF FileInv
  <2> QED
    BY <1>2, <2>0, <2>1, <2>2, <2>3, <2>4
<1>6. time' \in 0..MaxTime /\ DOMAIN blobs' = Calls
  BY DEF FileInv
<1> QED
  BY <1>1, <1>2, <1>3, <1>4, <1>5, <1>6 DEF FileInv

\* One call moves on, keeps its path, and no name or file changes.
LEMMA CallMoves ==
  ASSUME FileInv, NEW j \in Calls, NEW c,
         calls' = [calls EXCEPT ![j] = c], DOMAIN c = Fields, c.path = calls[j].path,
         UNCHANGED << names, inodes, time, kept >>, DOMAIN blobs' = DOMAIN blobs,
         c.pc \in Before => calls[j].pc \in Before /\ c.at = calls[j].at /\ c.fd = calls[j].fd,
         c.pc \in {"source", "open"} \cup HasFile => FileOf(j, c.content),
         c.pc \in HasFile => calls[j].pc \in {"open"} \cup HasFile, c.pc # "open",
         c.pc \in Writing => c.fd = None \/ (calls[j].pc \in Writing /\ c.fd = calls[j].fd),
         c.pc = "write" => c.at \in 0..(Chunks - 1),
         calls[j].pc \in Opened => c.pc \in Opened,
         calls[j].pc \in HasFile \cup Left => c.pc \in HasFile \cup Left
  PROVE  FileInv'
<1>1. /\ names' \in [Names -> Calls \cup {None}] /\ \A n \in Names : names'[n] \in {names[n], None}
      /\ inodes' \in [Calls -> [1..Chunks -> Calls \cup {None}]] /\ kept \subseteq kept'
  BY DEF FileInv
<1> QED
  BY <1>1, CallWorks

\* What unlink() leaves of the names.
LEMMA RemovesNames ==
  ASSUME FileInv, NEW path \in Names, Removes(path)
  PROVE  /\ names' \in [Names -> Calls \cup {None}] /\ \A n \in Names : names'[n] \in {names[n], None}
         /\ kept \subseteq kept'
         /\ \A n \in Names : n = path => names'[n] = None \/ n \in kept'
<1>1. names \in [Names -> Calls \cup {None}]
  BY DEF FileInv
<1>2. CASE names' = [names EXCEPT ![path] = None] /\ UNCHANGED kept
  BY <1>1, <1>2
<1>3. CASE kept' = kept \cup {path} /\ UNCHANGED names
  BY <1>1, <1>3
<1> QED
  BY <1>2, <1>3 DEF Removes

\* A failed or finished call.
LEMMA EndedCall ==
  ASSUME NEW path, NEW pc
  PROVE  LET c == [Idle EXCEPT !.pc = pc, !.path = path]
         IN  DOMAIN c = Fields /\ c.pc = pc /\ c.path = path /\ c.sent = << >>
BY DEF Idle, Fields

\* The steps of an upload change where it is, its host, auth and body only.
LEMMA UploadStep ==
  ASSUME FileInv, NEW j \in Calls,
         Conn(j) \/ ConnAnswer(j) \/ Post(j) \/ PostAnswer(j) \/ Refreshed(j)
  PROVE  \E c : /\ calls' = [calls EXCEPT ![j] = c] /\ DOMAIN c = Fields
                /\ c.path = calls[j].path /\ c.pc \in Uploading \cup {"failed"}
                /\ c.pc \in Uploading => c.content = calls[j].content
                /\ c.sent = calls[j].sent \/ c.sent = << >>
                /\ calls[j].pc \in Uploading /\ calls[j].pc # "uploaded"
                /\ UNCHANGED << names, inodes, time, kept >> /\ DOMAIN blobs' = DOMAIN blobs
<1> DEFINE h == calls[j]
<1>1. DOMAIN h = Fields /\ DOMAIN blobs = Calls
  BY DEF FileInv
<1>2. h.pc \in Uploading /\ h.pc # "uploaded" /\ UNCHANGED << names, inodes, time, kept >> /\ DOMAIN blobs' = DOMAIN blobs
  BY DEF Conn, ConnAnswer, Post, PostAnswer, Refreshed, Uploading
<1> DEFINE Ok(c) == /\ DOMAIN c = Fields /\ c.path = h.path /\ c.pc \in Uploading \cup {"failed"}
                    /\ c.pc \in Uploading => c.content = h.content
                    /\ c.sent = h.sent \/ c.sent = << >>
<1>3. \A p \in Uploading : Ok([h EXCEPT !.pc = p])
  BY <1>1 DEF Fields, Uploading
<1>4. \A i : Ok(FirstHost([h EXCEPT !.info = i]))
  BY <1>1 DEF Fields, Uploading, FirstHost
<1>5. \A n : Ok([h EXCEPT !.pc = "post", !.host = n, !.body = << >>])
  BY <1>1 DEF Fields, Uploading
<1>6. \A n, i : Ok([h EXCEPT !.pc = "post", !.host = n, !.body = << >>, !.info = i])
  BY <1>1 DEF Fields, Uploading
<1>7. \A b : \A p \in Uploading : Ok([h EXCEPT !.pc = p, !.body = b])
  BY <1>1 DEF Fields, Uploading
<1>8. Ok([Idle EXCEPT !.pc = "failed", !.path = h.path])
  BY EndedCall DEF Uploading
<1>9. ASSUME NextHost(j)
      PROVE  \E c : calls' = [calls EXCEPT ![j] = c] /\ Ok(c)
  <2>1. CASE h.host < Hosts
    <3>1. calls' = [calls EXCEPT ![j] = [h EXCEPT !.pc = "post", !.host = h.host + 1, !.body = << >>]]
      BY <1>9, <2>1 DEF NextHost
    <3> HIDE DEF h, Ok
    <3> QED
      BY <1>5, <3>1
  <2>2. CASE ~(h.host < Hosts)
    <3>1. calls' = [calls EXCEPT ![j] = [Idle EXCEPT !.pc = "failed", !.path = h.path]]
      BY <1>9, <2>2 DEF NextHost, Fails, Ends
    <3> HIDE DEF h, Ok
    <3> QED
      BY <1>8, <3>1
  <2> QED
    BY <2>1, <2>2
<1>10. CASE Conn(j)
  <2>1. \/ calls' = [calls EXCEPT ![j] = FirstHost([h EXCEPT !.info = cache])]
        \/ calls' = [calls EXCEPT ![j] = [h EXCEPT !.pc = "query"]]
    BY <1>10 DEF Conn
  <2> HIDE DEF h, Ok
  <2>2. \E c : calls' = [calls EXCEPT ![j] = c] /\ Ok(c)
    BY <1>3, <1>4, <2>1 DEF Uploading
  <2> QED
    BY <1>2, <2>2 DEF h, Ok
<1>11. CASE ConnAnswer(j)
  <2>1. \/ calls' = [calls EXCEPT ![j] = FirstHost([h EXCEPT !.info = auth])]
        \/ calls' = [calls EXCEPT ![j] = [Idle EXCEPT !.pc = "failed", !.path = h.path]]
    BY <1>11 DEF ConnAnswer, Fails, Ends
  <2> HIDE DEF h, Ok
  <2>2. \E c : calls' = [calls EXCEPT ![j] = c] /\ Ok(c)
    BY <1>4, <1>8, <2>1
  <2> QED
    BY <1>2, <2>2 DEF h, Ok
<1>12. CASE Post(j)
  <2>1. \/ NextHost(j)
        \/ \E b : calls' = [calls EXCEPT ![j] = [h EXCEPT !.pc = "posted", !.body = b]]
    BY <1>12 DEF Post
  <2> HIDE DEF h, Ok
  <2>2. \E c : calls' = [calls EXCEPT ![j] = c] /\ Ok(c)
    <3>1. CASE NextHost(j)
      BY <1>9, <3>1
    <3>2. CASE \E b : calls' = [calls EXCEPT ![j] = [h EXCEPT !.pc = "posted", !.body = b]]
      BY <1>7, <3>2 DEF Uploading
    <3> QED
      BY <2>1, <3>1, <3>2
  <2> QED
    BY <1>2, <2>2 DEF h, Ok
<1>13. CASE PostAnswer(j)
  <2>1. \/ NextHost(j)
        \/ calls' = [calls EXCEPT ![j] = [h EXCEPT !.pc = "refresh"]]
        \/ calls' = [calls EXCEPT ![j] = [h EXCEPT !.pc = "uploaded", !.body = << >>, !.info = 0, !.host = 0]]
    BY <1>13 DEF PostAnswer, To
  <2> HIDE DEF h, Ok
  <2>2. \E c : calls' = [calls EXCEPT ![j] = c] /\ Ok(c)
    <3>1. CASE NextHost(j)
      BY <1>9, <3>1
    <3>2. CASE calls' = [calls EXCEPT ![j] = [h EXCEPT !.pc = "refresh"]]
      BY <1>3, <3>2 DEF Uploading
    <3>3. CASE calls' = [calls EXCEPT ![j] = [h EXCEPT !.pc = "uploaded", !.body = << >>, !.info = 0, !.host = 0]]
      <4>1. Ok([h EXCEPT !.pc = "uploaded", !.body = << >>, !.info = 0, !.host = 0])
        BY <1>1 DEF h, Ok, Fields, Uploading
      <4> QED
        BY <3>3, <4>1
    <3> QED
      BY <2>1, <3>1, <3>2, <3>3
  <2> QED
    BY <1>2, <2>2 DEF h, Ok
<1>14. CASE Refreshed(j)
  <2>1. \/ NextHost(j)
        \/ calls' = [calls EXCEPT ![j] = [h EXCEPT !.pc = "post", !.host = h.host + 1, !.body = << >>, !.info = auth]]
        \/ calls' = [calls EXCEPT ![j] = [Idle EXCEPT !.pc = "failed", !.path = h.path]]
    BY <1>14 DEF Refreshed, Fails, Ends
  <2> HIDE DEF h, Ok
  <2>2. \E c : calls' = [calls EXCEPT ![j] = c] /\ Ok(c)
    BY <1>6, <1>8, <1>9, <2>1
  <2> QED
    BY <1>2, <2>2 DEF h, Ok
<1> QED
  BY <1>10, <1>11, <1>12, <1>13, <1>14

LEMMA UploadPreserves ==
  ASSUME FileInv, NEW j \in Calls,
         Conn(j) \/ ConnAnswer(j) \/ Post(j) \/ PostAnswer(j) \/ Refreshed(j)
  PROVE  FileInv'
<1>1. PICK c : /\ calls' = [calls EXCEPT ![j] = c] /\ DOMAIN c = Fields
               /\ c.path = calls[j].path /\ c.pc \in Uploading \cup {"failed"}
               /\ c.pc \in Uploading => c.content = calls[j].content
               /\ calls[j].pc \in Uploading
               /\ UNCHANGED << names, inodes, time, kept >> /\ DOMAIN blobs' = DOMAIN blobs
  BY UploadStep
<1>2. FileOf(j, calls[j].content)
  BY <1>1 DEF FileInv, HasFile
<1> QED
  BY <1>1, <1>2, CallMoves DEF Before, HasFile, Writing, Left, Over, Uploading, Opened

LEMMA EndPreserves ==
  ASSUME FileInv, NEW j \in Calls, Call(j) \/ Compose(j) \/ Relayed(j)
  PROVE  FileInv'
<1> DEFINE h == calls[j]
<1>1. DOMAIN h = Fields /\ UNCHANGED << names, inodes, time, blobs, kept >>
  BY DEF FileInv, Call, Compose, Relayed
<1>2. CASE Call(j)
  <2>1. PICK c \in Contents[j] :
          calls' = [calls EXCEPT ![j].content = << c >>,
                                 ![j].pc = IF c.file = None THEN "compose" ELSE "source"]
    BY <1>2 DEF Call
  <2> DEFINE g == [h EXCEPT !.content = << c >>, !.pc = IF c.file = None THEN "compose" ELSE "source"]
  <2>2. calls' = [calls EXCEPT ![j] = g]
    BY <2>1 DEF FileInv
  <2>3. /\ DOMAIN g = Fields /\ g.path = h.path /\ g.content = << c >> /\ g.at = h.at /\ g.fd = h.fd
        /\ g.pc = IF c.file = None THEN "compose" ELSE "source"
    BY <1>1 DEF Fields
  <2>4. h.pc = "idle"
    BY <1>2 DEF Call
  <2> HIDE DEF g, h
  <2>5. g.pc = "source" => FileOf(j, g.content)
    BY <2>3 DEF FileOf
  <2> QED
    BY <1>1, <2>2, <2>3, <2>4, <2>5, CallMoves DEF Before, HasFile, Writing, Left, Over, Uploading, Opened, h
<1>3. CASE Compose(j) \/ Relayed(j)
  <2>1. h.pc \in {"compose", "relay"}
    BY <1>3 DEF Compose, Relayed
  <2>2. \E g : /\ calls' = [calls EXCEPT ![j] = g] /\ DOMAIN g = Fields /\ g.path = h.path
               /\ g.pc \in {"relay", "sent", "failed"}
    <3>1. \/ \E pc \in {"sent", "failed"} : calls' = [calls EXCEPT ![j] = [Idle EXCEPT !.pc = pc, !.path = h.path]]
          \/ \E m : calls' = [calls EXCEPT ![j] = [h EXCEPT !.pc = "relay", !.sent = m]]
      BY <1>3, ZenonT(30) DEF Compose, Relayed, Fails, Ends
    <3>2. \A pc \in {"sent", "failed"} :
            LET g == [Idle EXCEPT !.pc = pc, !.path = h.path]
            IN  DOMAIN g = Fields /\ g.path = h.path /\ g.pc \in {"relay", "sent", "failed"}
      BY EndedCall
    <3>3. \A m : LET g == [h EXCEPT !.pc = "relay", !.sent = m]
                 IN  DOMAIN g = Fields /\ g.path = h.path /\ g.pc \in {"relay", "sent", "failed"}
      BY <1>1 DEF Fields
    <3> HIDE DEF h
    <3> QED
      BY <3>1, <3>2, <3>3
  <2> HIDE DEF h
  <2> QED
    BY <1>1, <2>1, <2>2, CallMoves DEF Before, HasFile, Writing, Left, Over, Uploading, Opened, h
<1> QED
  BY <1>2, <1>3

\* The name is one of the type and this millisecond, and there may be a file
\* of another call under it.
LEMMA SourcePreserves ==
  ASSUME FileInv, NEW j \in Calls, Source(j)
  PROVE  FileInv'
<1> DEFINE h == calls[j]
<1>1. DOMAIN h = Fields /\ h.pc = "source" /\ UNCHANGED << names, inodes, time, blobs, kept >>
      /\ FileOf(j, h.content) /\ h.path = << >> /\ h.at = 0 /\ h.fd = None
  BY DEF FileInv, Source, Before
<1>2. CASE calls' = [calls EXCEPT ![j] = [Idle EXCEPT !.pc = "failed", !.path = h.path]]
  <2> DEFINE g == [Idle EXCEPT !.pc = "failed", !.path = h.path]
  <2>1. DOMAIN g = Fields /\ g.path = h.path /\ g.pc = "failed" /\ calls' = [calls EXCEPT ![j] = g]
    BY <1>2, EndedCall
  <2> HIDE DEF g
  <2> QED
    BY <1>1, <2>1, CallMoves DEF Before, HasFile, Writing, Left, Over, Uploading, Opened
<1>3. CASE calls' = [calls EXCEPT ![j] = [h EXCEPT !.pc = "open", !.path = TempName(h.content[1].file)]]
  <2> DEFINE path == TempName(h.content[1].file)
             g == [h EXCEPT !.pc = "open", !.path = path]
  <2>1. path \in Names
    <3>1. PICK c \in Contents[j] : h.content = << c >> /\ c.file # None
      BY <1>1 DEF FileOf
    <3>2. c.file \in (UNION { { d.file : d \in Contents[k] } : k \in Calls }) \ {None}
      BY <3>1
    <3>3. time \in 0..MaxTime /\ path = << c.file, time >>
      BY <3>1 DEF FileInv, TempName
    <3> QED
      BY <3>2, <3>3 DEF Names
  <2> HIDE DEF path
  <2>2. DOMAIN g = Fields /\ g.pc = "open" /\ g.path = path /\ g.content = h.content /\ g.at = 0 /\ g.fd = None
    BY <1>1 DEF Fields
  <2>3. /\ calls' = [k \in Calls |-> calls'[k]]
        /\ calls'[j] = g /\ \A k \in Calls \ {j} : calls'[k] = calls[k]
    BY <1>3 DEF FileInv, path
  <2> HIDE DEF g, h
  <2>4. \A k \in Calls :
          /\ DOMAIN calls'[k] = Fields
          /\ calls'[k].pc \in Before => calls'[k].path = << >>
          /\ calls'[k].pc \in Before \cup {"open"} => calls'[k].at = 0 /\ calls'[k].fd = None
          /\ calls'[k].pc \in {"source", "open"} \cup HasFile => FileOf(k, calls'[k].content)
          /\ calls'[k].pc \in {"open"} \cup HasFile => calls'[k].path \in Names
    <3> SUFFICES ASSUME NEW k \in Calls
                 PROVE  /\ DOMAIN calls'[k] = Fields
                        /\ calls'[k].pc \in Before => calls'[k].path = << >>
                        /\ calls'[k].pc \in Before \cup {"open"} => calls'[k].at = 0 /\ calls'[k].fd = None
                        /\ calls'[k].pc \in {"source", "open"} \cup HasFile => FileOf(k, calls'[k].content)
                        /\ calls'[k].pc \in {"open"} \cup HasFile => calls'[k].path \in Names
      OBVIOUS
    <3>1. CASE k = j
      BY <1>1, <2>1, <2>2, <2>3, <3>1 DEF Before
    <3>2. CASE k # j
      <4>1. calls'[k] = calls[k]
        BY <2>3, <3>2
      <4>2. /\ DOMAIN calls[k] = Fields
            /\ calls[k].pc \in Before => calls[k].path = << >>
            /\ calls[k].pc \in Before \cup {"open"} => calls[k].at = 0 /\ calls[k].fd = None
            /\ calls[k].pc \in {"source", "open"} \cup HasFile => FileOf(k, calls[k].content)
            /\ calls[k].pc \in {"open"} \cup HasFile => calls[k].path \in Names
        BY DEF FileInv
      <4> QED
        BY <4>1, <4>2
    <3> QED
      BY <3>1, <3>2
  <2>5. \A n \in Names : names[n] # None =>
          /\ calls'[names[n]].path = n /\ calls'[names[n]].pc \in Opened
          /\ n \in kept \/ \E k \in Calls : calls'[k].path = n /\ calls'[k].pc \in HasFile \cup Left
    <3> SUFFICES ASSUME NEW n \in Names, names[n] # None
                 PROVE  /\ calls'[names[n]].path = n /\ calls'[names[n]].pc \in Opened
                        /\ \/ n \in kept
                           \/ \E k \in Calls : calls'[k].path = n /\ calls'[k].pc \in HasFile \cup Left
      OBVIOUS
    <3>1. names[n] \in Calls \cup {None}
      BY DEF FileInv
    <3>2. calls[names[n]].path = n /\ calls[names[n]].pc \in Opened
      BY DEF FileInv
    <3>3. names[n] # j
      BY <1>1, <3>2 DEF Opened, HasFile, Writing, Over, Uploading, h
    <3>4. ASSUME NEW k \in Calls, calls[k].path = n, calls[k].pc \in HasFile \cup Left
          PROVE  calls'[k].path = n /\ calls'[k].pc \in HasFile \cup Left
      <4>1. k # j
        BY <1>1, <3>4 DEF HasFile, Writing, Left, Uploading, h
      <4> QED
        BY <2>3, <3>4, <4>1
    <3>5. n \in kept \/ \E k \in Calls : calls[k].path = n /\ calls[k].pc \in HasFile \cup Left
      BY DEF FileInv
    <3> QED
      BY <2>3, <3>1, <3>2, <3>3, <3>4, <3>5
  <2>6. \A k \in Calls : /\ calls'[k].pc \in Writing => FdOf(calls', calls'[k])
                         /\ calls'[k].pc = "write" => calls'[k].at \in 0..(Chunks - 1)
    <3> SUFFICES ASSUME NEW k \in Calls, calls'[k].pc \in Writing
                 PROVE  /\ FdOf(calls', calls'[k])
                        /\ calls'[k].pc = "write" => calls'[k].at \in 0..(Chunks - 1)
      BY DEF Writing
    <3>1. k # j /\ calls'[k] = calls[k]
      BY <2>2, <2>3 DEF Writing
    <3>2. /\ FdOf(calls, calls[k]) /\ calls[k].path \in Names
          /\ calls[k].pc = "write" => calls[k].at \in 0..(Chunks - 1)
      BY <3>1 DEF FileInv, HasFile
    <3>3. calls[k].fd # j \/ calls[k].fd = None
      BY <1>1, <3>2, NamesNotEmpty DEF h, FdOf
    <3> QED
      BY <2>3, <3>1, <3>2, <3>3 DEF FdOf
  <2> QED
    BY <1>1, <2>3, <2>4, <2>5, <2>6 DEF FileInv
<1> QED
  BY <1>2, <1>3 DEF Source, Fails, Ends

\* The file that is there is emptied; or a new one is this call's; or there is
\* none to write to.
LEMMA OpenPreserves ==
  ASSUME FileInv, NEW j \in Calls, OpenFile(j)
  PROVE  FileInv'
<1> DEFINE h == calls[j]
           path == h.path
           inode == IF names[path] = None THEN j ELSE names[path]
           g == [h EXCEPT !.pc = "write", !.fd = inode]
<1>1. DOMAIN h = Fields /\ h.pc = "open" /\ FileOf(j, h.content) /\ path \in Names /\ h.at = 0
      /\ UNCHANGED << time, blobs, kept >>
  BY DEF FileInv, OpenFile
<1>2. CASE calls' = [calls EXCEPT ![j].pc = "write"] /\ UNCHANGED << names, inodes >>
  <2> DEFINE w == [h EXCEPT !.pc = "write"]
  <2>1. calls' = [calls EXCEPT ![j] = w]
    BY <1>2 DEF FileInv
  <2>2. DOMAIN w = Fields /\ w.path = path /\ w.content = h.content /\ w.at = 0 /\ w.pc = "write"
        /\ w.fd = h.fd
    BY <1>1 DEF Fields
  <2>3. h.fd = None
    BY <1>1 DEF FileInv
  <2> HIDE DEF w
  <2>4. w.at \in 0..(Chunks - 1)
    BY <2>2, MediaAssumption
  <2>5. /\ calls[j].pc = "open" /\ FileOf(j, w.content) /\ w.fd = None /\ w.path = calls[j].path
        /\ UNCHANGED << names, inodes, time, kept >> /\ DOMAIN blobs' = DOMAIN blobs
    BY <1>1, <1>2, <2>2, <2>3
  <2>6. /\ w.pc \in HasFile /\ w.pc \notin Before /\ w.pc # "open" /\ w.pc \in Opened
        /\ calls[j].pc \notin HasFile \cup Left /\ calls[j].pc \notin Opened
    BY <2>2, <2>5 DEF Before, HasFile, Writing, Left, Over, Uploading, Opened
  <2> HIDE DEF h, path
  <2> QED
    BY <2>1, <2>2, <2>4, <2>5, <2>6, CallMoves
<1>3. CASE /\ names' = [names EXCEPT ![path] = inode] /\ inodes' = [inodes EXCEPT ![inode] = Empty]
           /\ calls' = [calls EXCEPT ![j].pc = "write", ![j].fd = inode]
  <2>1. names[path] \in Calls \cup {None}
    BY <1>1 DEF FileInv
  <2>2. inode \in Calls /\ calls[inode].path = path /\ (inode = j \/ calls[inode].pc \in Opened)
    BY <1>1, <2>1 DEF FileInv
  <2> HIDE DEF inode
  <2>3. calls' = [calls EXCEPT ![j] = g]
    BY <1>3 DEF FileInv
  <2>4. DOMAIN g = Fields /\ g.pc = "write" /\ g.fd = inode /\ g.path = path /\ g.content = h.content /\ g.at = 0
    BY <1>1 DEF Fields
  <2>5. /\ calls' = [k \in Calls |-> calls'[k]]
        /\ calls'[j] = g /\ \A k \in Calls \ {j} : calls'[k] = calls[k]
    BY <2>3 DEF FileInv
  <2> HIDE DEF g, h
  <2>6. \A k \in Calls : calls'[k].path = calls[k].path
    BY <2>4, <2>5 DEF h
  <2>7. \A k \in Calls :
          /\ DOMAIN calls'[k] = Fields
          /\ calls'[k].pc \in Before => calls'[k].path = << >>
          /\ calls'[k].pc \in Before \cup {"open"} => calls'[k].at = 0 /\ calls'[k].fd = None
          /\ calls'[k].pc \in {"source", "open"} \cup HasFile => FileOf(k, calls'[k].content)
          /\ calls'[k].pc \in {"open"} \cup HasFile => calls'[k].path \in Names
    <3> SUFFICES ASSUME NEW k \in Calls
                 PROVE  /\ DOMAIN calls'[k] = Fields
                        /\ calls'[k].pc \in Before => calls'[k].path = << >>
                        /\ calls'[k].pc \in Before \cup {"open"} => calls'[k].at = 0 /\ calls'[k].fd = None
                        /\ calls'[k].pc \in {"source", "open"} \cup HasFile => FileOf(k, calls'[k].content)
                        /\ calls'[k].pc \in {"open"} \cup HasFile => calls'[k].path \in Names
      OBVIOUS
    <3>1. CASE k = j
      BY <1>1, <2>4, <2>5, <3>1 DEF Before, h
    <3>2. CASE k # j
      <4>1. calls'[k] = calls[k]
        BY <2>5, <3>2
      <4>2. /\ DOMAIN calls[k] = Fields
            /\ calls[k].pc \in Before => calls[k].path = << >>
            /\ calls[k].pc \in Before \cup {"open"} => calls[k].at = 0 /\ calls[k].fd = None
            /\ calls[k].pc \in {"source", "open"} \cup HasFile => FileOf(k, calls[k].content)
            /\ calls[k].pc \in {"open"} \cup HasFile => calls[k].path \in Names
        BY DEF FileInv
      <4> QED
        BY <4>1, <4>2
    <3> QED
      BY <3>1, <3>2
  <2>8. \A k \in Calls : /\ calls'[k].pc \in Writing => FdOf(calls', calls'[k])
                         /\ calls'[k].pc = "write" => calls'[k].at \in 0..(Chunks - 1)
    <3> SUFFICES ASSUME NEW k \in Calls
                 PROVE  /\ calls'[k].pc \in Writing => FdOf(calls', calls'[k])
                        /\ calls'[k].pc = "write" => calls'[k].at \in 0..(Chunks - 1)
      OBVIOUS
    <3>1. CASE k = j
      <4>1. calls'[k].fd = inode /\ calls'[k].at = 0 /\ calls'[k].path = path
        BY <2>4, <2>5, <3>1
      <4>2. 0 \in 0..(Chunks - 1)
        BY MediaAssumption
      <4> QED
        BY <2>2, <2>6, <4>1, <4>2 DEF FdOf
    <3>2. CASE k # j
      <4>1. calls'[k] = calls[k]
        BY <2>5, <3>2
      <4>2. /\ calls[k].pc \in Writing => FdOf(calls, calls[k])
            /\ calls[k].pc = "write" => calls[k].at \in 0..(Chunks - 1)
        BY DEF FileInv
      <4> QED
        BY <2>6, <4>1, <4>2 DEF FdOf
    <3> QED
      BY <3>1, <3>2
  <2>9. \A n \in Names : names'[n] # None =>
          /\ calls'[names'[n]].path = n /\ calls'[names'[n]].pc \in Opened
          /\ n \in kept' \/ \E k \in Calls : calls'[k].path = n /\ calls'[k].pc \in HasFile \cup Left
    <3> SUFFICES ASSUME NEW n \in Names, names'[n] # None
                 PROVE  /\ calls'[names'[n]].path = n /\ calls'[names'[n]].pc \in Opened
                        /\ \/ n \in kept'
                           \/ \E k \in Calls : calls'[k].path = n /\ calls'[k].pc \in HasFile \cup Left
      OBVIOUS
    <3>0. names \in [Names -> Calls \cup {None}]
      BY DEF FileInv
    <3>1. CASE n = path
      <4>1. names'[n] = inode
        BY <1>1, <1>3, <3>0, <3>1
      <4>2. calls'[inode].pc \in Opened
        BY <2>2, <2>4, <2>5 DEF Opened, HasFile, Writing
      <4>3. calls'[j].path = n /\ calls'[j].pc \in HasFile
        BY <2>4, <2>5, <3>1 DEF HasFile, Writing
      <4> QED
        BY <2>2, <2>6, <3>1, <4>1, <4>2, <4>3
    <3>2. CASE n # path
      <4>1. names'[n] = names[n]
        BY <1>3, <3>0, <3>2
      <4>2. names[n] \in Calls /\ calls[names[n]].path = n /\ calls[names[n]].pc \in Opened
        <5>1. names[n] \in Calls
          BY <3>0, <4>1
        <5> QED
          BY <4>1, <5>1 DEF FileInv
      <4>3. ASSUME NEW k \in Calls, calls[k].path = n
            PROVE  calls'[k] = calls[k]
        BY <2>5, <3>2, <4>3 DEF h
      <4>4. n \in kept \/ \E k \in Calls : calls[k].path = n /\ calls[k].pc \in HasFile \cup Left
        BY <4>1 DEF FileInv
      <4> QED
        BY <1>1, <4>1, <4>2, <4>3, <4>4
    <3> QED
      BY <3>1, <3>2
  <2>10. names' \in [Names -> Calls \cup {None}] /\ inodes' \in [Calls -> [1..Chunks -> Calls \cup {None}]]
    <3>1. Empty \in [1..Chunks -> Calls \cup {None}]
      BY DEF Empty
    <3> QED
      BY <1>3, <2>2, <3>1 DEF FileInv
  <2>11. time' \in 0..MaxTime /\ DOMAIN blobs' = Calls
    BY <1>1 DEF FileInv
  <2> QED
    BY <2>5, <2>7, <2>8, <2>9, <2>10, <2>11 DEF FileInv
<1> QED
  BY <1>2, <1>3 DEF OpenFile, To

\* The catch of encryptedStream(): the call failed, its name removed or left.
LEMMA GivesUpPreserves ==
  ASSUME FileInv, NEW j \in Calls, calls[j].pc \in Writing, GivesUp(j), UNCHANGED << inodes, time, blobs >>
  PROVE  FileInv'
<1> DEFINE g == [Idle EXCEPT !.pc = "failed", !.path = calls[j].path]
<1>1. calls[j].path \in Names /\ inodes \in [Calls -> [1..Chunks -> Calls \cup {None}]]
  BY DEF FileInv, HasFile
<1>2. /\ names' \in [Names -> Calls \cup {None}] /\ \A n \in Names : names'[n] \in {names[n], None}
      /\ kept \subseteq kept'
  BY <1>1, RemovesNames DEF GivesUp
<1>3. DOMAIN g = Fields /\ g.path = calls[j].path /\ g.pc = "failed" /\ calls' = [calls EXCEPT ![j] = g]
  BY EndedCall DEF GivesUp, Fails, Ends
<1> HIDE DEF g
<1> QED
  BY <1>1, <1>2, <1>3, CallWorks DEF Before, HasFile, Writing, Left, Over, Uploading, Opened

\* The call at its next chunk.
LEMMA NextChunkCall ==
  ASSUME FileInv, NEW j \in Calls, calls[j].pc = "write", NextChunk(j)
  PROVE  \E g : /\ calls' = [calls EXCEPT ![j] = g] /\ calls'[j] = g /\ DOMAIN g = Fields
                /\ g.path = calls[j].path /\ g.content = calls[j].content
                /\ g.fd = calls[j].fd /\ g.sent = calls[j].sent
                /\ g.pc = IF calls[j].at + 1 = Chunks THEN "finish" ELSE "write"
                /\ g.at = IF calls[j].at + 1 = Chunks THEN 0 ELSE calls[j].at + 1
<1> DEFINE h == calls[j]
           g == [h EXCEPT !.at = IF h.at + 1 = Chunks THEN 0 ELSE @ + 1,
                          !.pc = IF h.at + 1 = Chunks THEN "finish" ELSE @]
<1>1. calls' = [calls EXCEPT ![j] = g]
  BY DEF FileInv, NextChunk
<1>2. DOMAIN h = Fields
  BY DEF FileInv
<1>3. /\ DOMAIN g = Fields /\ g.path = h.path /\ g.content = h.content /\ g.fd = h.fd /\ g.sent = h.sent
      /\ g.pc = IF h.at + 1 = Chunks THEN "finish" ELSE "write"
      /\ g.at = IF h.at + 1 = Chunks THEN 0 ELSE h.at + 1
  BY <1>2 DEF Fields
<1> HIDE DEF g
<1>4. calls'[j] = g
  BY <1>1 DEF FileInv
<1> QED
  BY <1>1, <1>3, <1>4

\* A chunk is written, or the source broke off.
LEMMA WritePreserves ==
  ASSUME FileInv, NEW j \in Calls, Write(j)
  PROVE  FileInv'
<1> DEFINE h == calls[j]
<1>1. /\ h.pc = "write" /\ FileOf(j, h.content) /\ UNCHANGED << time, blobs >>
      /\ FdOf(calls, h) /\ h.at \in 0..(Chunks - 1)
      /\ names \in [Names -> Calls \cup {None}]
      /\ inodes \in [Calls -> [1..Chunks -> Calls \cup {None}]]
  BY DEF FileInv, Write, HasFile, Writing
<1>2. CASE /\ inodes' = IF h.fd = None THEN inodes ELSE [inodes EXCEPT ![h.fd][h.at + 1] = j]
           /\ NextChunk(j) /\ UNCHANGED << names, kept >>
  <2>1. PICK g : /\ calls' = [calls EXCEPT ![j] = g] /\ DOMAIN g = Fields
                 /\ g.path = h.path /\ g.content = h.content /\ g.fd = h.fd
                 /\ g.pc = IF h.at + 1 = Chunks THEN "finish" ELSE "write"
                 /\ g.at = IF h.at + 1 = Chunks THEN 0 ELSE h.at + 1
    BY <1>1, <1>2, NextChunkCall
  <2>2. inodes' \in [Calls -> [1..Chunks -> Calls \cup {None}]]
    BY <1>1, <1>2, MediaAssumption DEF FdOf
  <2> HIDE DEF h
  <2>3. g.pc = "write" => g.at \in 0..(Chunks - 1)
    BY <1>1, <2>1, MediaAssumption
  <2>4. g.pc \in Writing
    BY <2>1 DEF Writing
  <2>5. names' \in [Names -> Calls \cup {None}] /\ \A n \in Names : names'[n] \in {names[n], None}
    BY <1>1, <1>2
  <2> QED
    BY <1>1, <1>2, <2>1, <2>2, <2>3, <2>4, <2>5, CallWorks
       DEF Before, HasFile, Writing, Left, Over, Uploading, Opened, h
<1>3. CASE GivesUp(j) /\ UNCHANGED inodes
  BY <1>1, <1>3, GivesUpPreserves DEF Writing
<1> QED
  BY <1>2, <1>3 DEF Write

\* The stream has finished, or had an error.
LEMMA FinishPreserves ==
  ASSUME FileInv, NEW j \in Calls, Finished(j)
  PROVE  FileInv'
<1> DEFINE h == calls[j]
           g == [h EXCEPT !.pc = "conn", !.fd = None]
<1>1. /\ DOMAIN h = Fields /\ h.pc = "finish" /\ FileOf(j, h.content) /\ UNCHANGED << inodes, time, blobs >>
  BY DEF FileInv, Finished, HasFile, Writing
<1>2. CASE calls' = [calls EXCEPT ![j].pc = "conn", ![j].fd = None] /\ UNCHANGED << names, kept >>
  <2>1. calls' = [calls EXCEPT ![j] = g]
    BY <1>2 DEF FileInv
  <2>2. DOMAIN g = Fields /\ g.path = h.path /\ g.content = h.content /\ g.pc = "conn"
    BY <1>1 DEF Fields
  <2> HIDE DEF g
  <2> QED
    BY <1>1, <1>2, <2>1, <2>2, CallMoves DEF Before, HasFile, Writing, Left, Over, Uploading, Opened
<1>3. CASE GivesUp(j)
  BY <1>1, <1>3, GivesUpPreserves DEF Writing
<1> QED
  BY <1>2, <1>3 DEF Finished

\* The process has ended: every call that was under way is lost, under its name.
LEMMA UnheardCall ==
  ASSUME FileInv, UnheardError, NEW k \in Calls
  PROVE  /\ DOMAIN calls'[k] = Fields /\ calls'[k].path = calls[k].path
         /\ calls'[k].pc \in {"idle"} \cup Over
         /\ \/ calls'[k] = calls[k] 
            \/ calls[k].pc # "idle" /\ calls'[k].pc = "lost" /\ calls'[k].sent = << >>
<1>1. DOMAIN calls[k] = Fields
  BY DEF FileInv
<1>2. calls'[k] = IF calls[k].pc \in {"idle"} \cup Over THEN calls[k]
                  ELSE [Idle EXCEPT !.pc = "lost", !.path = calls[k].path]
  BY DEF UnheardError
<1>3. CASE calls[k].pc \in {"idle"} \cup Over
  BY <1>1, <1>2, <1>3
<1>4. CASE calls[k].pc \notin {"idle"} \cup Over
  <2> DEFINE g == [Idle EXCEPT !.pc = "lost", !.path = calls[k].path]
  <2>1. calls'[k] = g /\ DOMAIN g = Fields /\ g.pc = "lost" /\ g.path = calls[k].path /\ g.sent = << >>
    BY <1>2, <1>4, EndedCall
  <2> HIDE DEF g
  <2> QED
    BY <1>4, <2>1 DEF Over
<1> QED
  BY <1>3, <1>4

LEMMA UnheardPreserves ==
  ASSUME FileInv, UnheardError
  PROVE  FileInv'
<1>1. UNCHANGED << names, inodes, blobs, time, kept >> /\ calls' = [k \in Calls |-> calls'[k]]
  BY DEF UnheardError
<1>2. \A k \in Calls :
        /\ DOMAIN calls'[k] = Fields
        /\ calls'[k].pc \in Before => calls'[k].path = << >>
        /\ calls'[k].pc \in Before \cup {"open"} => calls'[k].at = 0 /\ calls'[k].fd = None
        /\ calls'[k].pc \notin {"source", "open"} \cup HasFile
  <2> SUFFICES ASSUME NEW k \in Calls
               PROVE  /\ DOMAIN calls'[k] = Fields
                      /\ calls'[k].pc \in Before => calls'[k].path = << >>
                      /\ calls'[k].pc \in Before \cup {"open"} => calls'[k].at = 0 /\ calls'[k].fd = None
                      /\ calls'[k].pc \notin {"source", "open"} \cup HasFile
    OBVIOUS
  <2>1. /\ DOMAIN calls'[k] = Fields /\ calls'[k].pc \in {"idle"} \cup Over
        /\ calls'[k] = calls[k] \/ calls'[k].pc = "lost"
    BY UnheardCall
  <2>2. /\ calls[k].pc \in Before => calls[k].path = << >>
        /\ calls[k].pc \in Before \cup {"open"} => calls[k].at = 0 /\ calls[k].fd = None
    BY DEF FileInv
  <2> QED
    BY <2>1, <2>2 DEF Before, HasFile, Writing, Uploading, Over
<1>3. \A n \in Names : names[n] # None =>
        /\ calls'[names[n]].path = n /\ calls'[names[n]].pc \in Opened
        /\ n \in kept \/ \E k \in Calls : calls'[k].path = n /\ calls'[k].pc \in HasFile \cup Left
  <2> SUFFICES ASSUME NEW n \in Names, names[n] # None
               PROVE  /\ calls'[names[n]].path = n /\ calls'[names[n]].pc \in Opened
                      /\ \/ n \in kept
                         \/ \E k \in Calls : calls'[k].path = n /\ calls'[k].pc \in HasFile \cup Left
    OBVIOUS
  <2>1. names[n] \in Calls /\ calls[names[n]].path = n /\ calls[names[n]].pc \in Opened
    <3>1. names[n] \in Calls \cup {None}
      BY DEF FileInv
    <3> QED
      BY <3>1 DEF FileInv
  <2>2. calls'[names[n]].path = n /\ calls'[names[n]].pc \in Opened
    <3>1. /\ calls'[names[n]].path = calls[names[n]].path
          /\ calls'[names[n]] = calls[names[n]] \/ calls'[names[n]].pc = "lost"
      BY <2>1, UnheardCall
    <3> QED
      BY <2>1, <3>1 DEF Opened, Over
  <2>3. ASSUME NEW k \in Calls, calls[k].path = n, calls[k].pc \in HasFile \cup Left
        PROVE  calls'[k].path = n /\ calls'[k].pc \in HasFile \cup Left
    <3>1. calls'[k].path = calls[k].path /\ (calls'[k] = calls[k] \/ calls'[k].pc = "lost")
      BY UnheardCall
    <3> QED
      BY <2>3, <3>1 DEF Left
  <2>4. n \in kept \/ \E k \in Calls : calls[k].path = n /\ calls[k].pc \in HasFile \cup Left
    BY DEF FileInv
  <2> QED
    BY <2>2, <2>3, <2>4
<1> QED
  BY <1>1, <1>2, <1>3 DEF FileInv, HasFile, Writing

\* The uploaded file's name is removed or left, and the message is composed.
LEMMA UnlinkPreserves ==
  ASSUME FileInv, NEW j \in Calls, Unlink(j)
  PROVE  FileInv'
<1> DEFINE h == calls[j]
           g == [h EXCEPT !.pc = "compose"]
<1>1. /\ DOMAIN h = Fields /\ h.pc = "uploaded" /\ UNCHANGED << inodes, time, blobs >>
      /\ Removes(h.path) /\ calls' = [calls EXCEPT ![j] = g] /\ h.path \in Names
      /\ inodes \in [Calls -> [1..Chunks -> Calls \cup {None}]]
  BY DEF FileInv, Unlink, To, HasFile, Uploading
<1>2. DOMAIN g = Fields /\ g.path = h.path /\ g.pc = "compose"
  BY <1>1 DEF Fields
<1> HIDE DEF g
<1>3. /\ names' \in [Names -> Calls \cup {None}] /\ \A n \in Names : names'[n] \in {names[n], None}
      /\ kept \subseteq kept'
      /\ \A n \in Names : n = h.path => names'[n] = None \/ n \in kept'
  BY <1>1, RemovesNames
<1> QED
  BY <1>1, <1>2, <1>3, CallWorks DEF Before, HasFile, Writing, Left, Over, Uploading, Opened

\* Time, the hosts' auth and the cache concern no file.
LEMMA OthersPreserve ==
  ASSUME FileInv, Tick \/ AuthChanges \/ CacheExpires \/ UNCHANGED vars
  PROVE  FileInv'
<1>1. UNCHANGED << calls, names, inodes, blobs, kept >>
  BY DEF Tick, AuthChanges, CacheExpires, vars
<1>2. time' \in 0..MaxTime
  BY MediaAssumption DEF Tick, AuthChanges, CacheExpires, vars, FileInv
<1> QED
  BY <1>1, <1>2 DEF FileInv

LEMMA FileNext == FileInv /\ [Next]_vars => FileInv'
<1> SUFFICES ASSUME FileInv, [Next]_vars PROVE FileInv'
  OBVIOUS
<1>1. CASE Tick \/ AuthChanges \/ CacheExpires \/ UNCHANGED vars
  BY <1>1, OthersPreserve
<1>2. CASE UnheardError
  BY <1>2, UnheardPreserves
<1>3. ASSUME NEW j \in Calls, Call(j) \/ Step(j)
      PROVE  FileInv'
  <2>1. CASE Call(j) \/ Compose(j) \/ Relayed(j)
    BY <2>1, EndPreserves
  <2>2. CASE Source(j)
    BY <2>2, SourcePreserves
  <2>3. CASE OpenFile(j)
    BY <2>3, OpenPreserves
  <2>4. CASE Write(j)
    BY <2>4, WritePreserves
  <2>7. CASE Finished(j)
    BY <2>7, FinishPreserves
  <2>5. CASE Unlink(j)
    BY <2>5, UnlinkPreserves
  <2>6. CASE Conn(j) \/ ConnAnswer(j) \/ Post(j) \/ PostAnswer(j) \/ Refreshed(j)
    BY <2>6, UploadPreserves
  <2> QED
    BY <1>3, <2>1, <2>2, <2>3, <2>4, <2>5, <2>6, <2>7 DEF Step
<1> QED
  BY <1>1, <1>2, <1>3 DEF Next

\* sendMessage(): no temporary file that can be removed outlives the calls it
\* was for, but for the ones that failed or were lost, in any order of the
\* uploads, their failures and the tries at other hosts, and whichever calls
\* share a name.
THEOREM FilesAreRemoved == Spec => []FilesRemoved
<1>1. FileInv => FilesRemoved
  <2> SUFFICES ASSUME FileInv, NEW n \in Names \ kept, names[n] # None
               PROVE  \E j \in Calls : calls[j].path = n /\ calls[j].pc # "sent"
    BY DEF FilesRemoved
  <2>1. PICK j \in Calls : calls[j].path = n /\ calls[j].pc \in HasFile \cup Left
    BY DEF FileInv
  <2> QED
    BY <2>1 DEF HasFile, Writing, Left, Uploading
<1> QED
  BY FileInit, FileNext, <1>1, PTL DEF Spec

-----------------------------------------------------------------------------
(***************************************************************************)
(* Whose bytes an upload holds                                             *)
(*                                                                         *)
(* Calls that share no temporary file write, read and upload their own     *)
(* chunks only; and a message names the upload of its call, which happened *)
(* before it was composed.                                                 *)
(***************************************************************************)

\* What a call whose file nobody shares has written, read and uploaded is its
\* own; and a message names the call's upload only if there was one.
OwnFile(j) ==
  LET h == calls[j]
  IN  /\ h.pc \in Writing => h.fd \in {None, j}
      /\ h.pc = "write" /\ h.fd = j => \A i \in 1..h.at : inodes[j][i] = j
      /\ h.pc = "finish" /\ h.fd = j => inodes[j] = Own(j)
      /\ h.pc \in Uploading => inodes[j] = Own(j)
      /\ h.pc = "posted" => h.body = Own(j)
      /\ h.pc = "uploaded" => blobs[j] = Own(j)
      /\ h.pc \in {"compose", "relay"} /\ FileOf(j, h.content) => blobs[j] = Own(j)

Composing(j) ==
  LET h == calls[j]
  IN  /\ h.pc \in {"compose", "relay"} => \E d \in Contents[j] : h.content = << d >>
      /\ h.pc = "relay" /\ h.sent[1].file = j => FileOf(j, h.content)

OwnInv == FileInv /\ \A j \in Calls : Composing(j) /\ (~Shares(j) => OwnFile(j))

LEMMA OwnInit == Init => OwnInv
<1> SUFFICES ASSUME Init PROVE OwnInv
  OBVIOUS
<1>1. \A j \in Calls : calls[j].pc = "idle"
  BY IdleCall DEF Init
<1> QED
  BY <1>1, FileInit DEF OwnInv, OwnFile, Composing, Uploading, Writing

\* Names are kept: who shares a file goes on sharing it.
LEMMA SharesGrows ==
  ASSUME FileInv, NEW j \in Calls, NEW c, calls' = [calls EXCEPT ![j] = c],
         c.path = calls[j].path \/ calls[j].path = << >>,
         NEW k \in Calls, Shares(k)
  PROVE  Shares(k)'
<1>1. PICK l \in Calls \ {k} : calls[l].path # << >> /\ calls[l].path = calls[k].path
  BY DEF Shares
<1>2. calls'[j] = c /\ \A i \in Calls \ {j} : calls'[i] = calls[i]
  BY DEF FileInv
<1>3. calls'[l].path = calls[l].path /\ calls'[k].path = calls[k].path
  BY <1>1, <1>2
<1> QED
  BY <1>1, <1>3 DEF Shares

\* One call moves on; it may write to its own file or to one that is shared.
LEMMA OneOwns ==
  ASSUME OwnInv, FileInv', NEW j \in Calls, NEW c, calls' = [calls EXCEPT ![j] = c],
         c.path = calls[j].path \/ calls[j].path = << >>,
         \A k \in Calls \ {j} : ~Shares(k)' => inodes'[k] = inodes[k] /\ blobs'[k] = blobs[k],
         Composing(j)', ~Shares(j)' /\ ~Shares(j) => OwnFile(j)'
  PROVE  OwnInv'
<1>1. calls'[j] = c /\ \A k \in Calls \ {j} : calls'[k] = calls[k]
  BY DEF OwnInv, FileInv
<1>2. ASSUME NEW k \in Calls PROVE Composing(k)' /\ (~Shares(k)' => OwnFile(k)')
  <2>0. Composing(k) /\ (~Shares(k) => OwnFile(k)) /\ FileInv
    BY DEF OwnInv
  <2>1. Shares(k) => Shares(k)'
    BY <2>0, SharesGrows
  <2>2. CASE k = j
    BY <2>1, <2>2
  <2>3. CASE k # j
    <3>1. calls'[k] = calls[k]
      BY <1>1, <2>3
    <3>2. Composing(k)'
      BY <2>0, <3>1 DEF Composing
    <3>3. ASSUME ~Shares(k)' PROVE OwnFile(k)'
      <4>1. OwnFile(k) /\ inodes'[k] = inodes[k] /\ blobs'[k] = blobs[k]
        BY <2>0, <2>1, <2>3, <3>3
      <4> QED
        BY <3>1, <4>1 DEF OwnFile, Own
    <3> QED
      BY <3>2, <3>3
  <2> QED
    BY <2>2, <2>3
<1> QED
  BY <1>2 DEF OwnInv

\* The call of an inode under a name that only one call has is that call.
LEMMA InodeOfName ==
  ASSUME FileInv, NEW j \in Calls, calls[j].path \in Names, ~Shares(j),
         names[calls[j].path] # None
  PROVE  names[calls[j].path] = j
<1> DEFINE n == calls[j].path
<1>1. names[n] \in Calls /\ calls[names[n]].path = n
  <2>1. names[n] \in Calls \cup {None}
    BY DEF FileInv
  <2> QED
    BY <2>1 DEF FileInv
<1>2. n # << >>
  BY NamesNotEmpty
<1> QED
  BY <1>1, <1>2 DEF Shares

\* A call that is not there yet, ended, or waits for its source, has nothing to
\* own.
LEMMA NothingOwned ==
  ASSUME NEW j \in Calls, calls'[j].pc \in {"idle", "source", "open"} \cup Over
  PROVE  OwnFile(j)' /\ Composing(j)'
BY DEF OwnFile, Composing, Uploading, Writing, Over

LEMMA EndedOwns ==
  ASSUME OwnInv, FileInv', NEW j \in Calls, Fails(j) \/ Ends(j, "sent"), UNCHANGED << inodes, blobs >>
  PROVE  OwnInv'
<1>1. PICK pc \in {"sent", "failed"} : calls' = [calls EXCEPT ![j] = [Idle EXCEPT !.pc = pc, !.path = calls[j].path]]
  BY DEF Fails, Ends
<1> DEFINE c == [Idle EXCEPT !.pc = pc, !.path = calls[j].path]
<1>2. c.pc = pc /\ c.path = calls[j].path
  BY EndedCall
<1>3. calls' = [calls EXCEPT ![j] = c]
  BY <1>1
<1> HIDE DEF c
<1>4. calls'[j] = c
  BY <1>3 DEF OwnInv, FileInv
<1> QED
  BY <1>2, <1>3, <1>4, NothingOwned, OneOwns DEF Over

LEMMA StartOwns ==
  ASSUME OwnInv, FileInv', NEW j \in Calls, Call(j) \/ Source(j)
  PROVE  OwnInv'
<1> DEFINE h == calls[j]
<1>1. DOMAIN h = Fields /\ h.path = << >> /\ UNCHANGED << inodes, blobs >> /\ FileInv
  BY DEF OwnInv, FileInv, Call, Source, Before
<1>2. CASE Call(j)
  <2>1. PICK d \in Contents[j] :
          calls' = [calls EXCEPT ![j].content = << d >>,
                                 ![j].pc = IF d.file = None THEN "compose" ELSE "source"]
    BY <1>2 DEF Call
  <2> DEFINE g == [h EXCEPT !.content = << d >>, !.pc = IF d.file = None THEN "compose" ELSE "source"]
  <2>2. calls' = [calls EXCEPT ![j] = g]
    BY <2>1, ZenonT(30) DEF OwnInv, FileInv
  <2>3. g.path = h.path /\ g.content = << d >> /\ g.pc = IF d.file = None THEN "compose" ELSE "source"
    BY <1>1 DEF Fields
  <2> HIDE DEF g, h
  <2>4. calls'[j] = g
    BY <2>2 DEF OwnInv, FileInv
  <2>5. g.pc = "compose" => ~FileOf(j, g.content)
    BY <2>3 DEF FileOf
  <2>6. OwnFile(j)' /\ Composing(j)'
    BY <2>3, <2>4, <2>5 DEF OwnFile, Composing, Uploading, Writing
  <2> QED
    BY <1>1, <2>2, <2>3, <2>6, OneOwns DEF h
<1>3. CASE Source(j)
  <2>1. CASE Fails(j)
    BY <1>1, <2>1, EndedOwns
  <2>2. CASE calls' = [calls EXCEPT ![j].pc = "open", ![j].path = TempName(h.content[1].file)]
    <3> DEFINE g == [h EXCEPT !.pc = "open", !.path = TempName(h.content[1].file)]
    <3>1. calls' = [calls EXCEPT ![j] = g]
      BY <2>2 DEF OwnInv, FileInv
    <3>2. g.pc = "open"
      BY <1>1 DEF Fields
    <3> HIDE DEF g, h
    <3>3. calls'[j] = g
      BY <3>1 DEF OwnInv, FileInv
    <3> QED
      BY <1>1, <3>1, <3>2, <3>3, NothingOwned, OneOwns DEF h
  <2> QED
    BY <1>3, <2>1, <2>2 DEF Source
<1> QED
  BY <1>2, <1>3

LEMMA OpenOwns ==
  ASSUME OwnInv, FileInv', NEW j \in Calls, OpenFile(j)
  PROVE  OwnInv'
<1> DEFINE h == calls[j]
           path == h.path
           inode == IF names[path] = None THEN j ELSE names[path]
           g == [h EXCEPT !.pc = "write", !.fd = inode]
<1>1. DOMAIN h = Fields /\ h.pc = "open" /\ path \in Names /\ h.at = 0 /\ h.fd = None /\ FileInv
      /\ UNCHANGED blobs
  BY ZenonT(30) DEF OwnInv, FileInv, OpenFile
<1>2. CASE calls' = [calls EXCEPT ![j].pc = "write"] /\ UNCHANGED << names, inodes >>
  <2> DEFINE w == [h EXCEPT !.pc = "write"]
  <2>1. calls' = [calls EXCEPT ![j] = w]
    BY <1>1, <1>2 DEF FileInv
  <2>2. w.path = path /\ w.pc = "write" /\ w.fd = None
    BY <1>1 DEF Fields
  <2> HIDE DEF w
  <2>3. calls'[j] = w
    BY <1>1, <2>1 DEF FileInv
  <2>4. Composing(j)' /\ OwnFile(j)'
    BY <2>2, <2>3, MediaAssumption DEF Composing, OwnFile, Uploading, Writing
  <2> QED
    BY <1>1, <1>2, <2>1, <2>2, <2>4, OneOwns
<1>3. CASE /\ inodes' = [inodes EXCEPT ![inode] = Empty]
           /\ calls' = [calls EXCEPT ![j].pc = "write", ![j].fd = inode]
  <2>1. inode \in Calls /\ calls[inode].path = path
    <3>1. names[path] \in Calls \cup {None}
      BY <1>1 DEF FileInv
    <3> QED
      BY <1>1, <3>1 DEF FileInv
  <2>2. ~Shares(j) => inode = j
    BY <1>1, InodeOfName
  <2> HIDE DEF inode
  <2>3. calls' = [calls EXCEPT ![j] = g]
    BY <1>1, <1>3 DEF FileInv
  <2>4. g.pc = "write" /\ g.fd = inode /\ g.path = path /\ g.at = 0
    BY <1>1 DEF Fields
  <2> HIDE DEF g, h
  <2>5. calls'[j] = g /\ \A k \in Calls \ {j} : calls'[k] = calls[k]
    BY <1>1, <2>3 DEF FileInv
  <2>6. Composing(j)' /\ (~Shares(j) => OwnFile(j)')
    BY <2>2, <2>4, <2>5 DEF Composing, OwnFile, Uploading, Writing
  <2>7. ASSUME NEW k \in Calls \ {j}, ~Shares(k)' PROVE inodes'[k] = inodes[k] /\ blobs'[k] = blobs[k]
    <3>1. path # << >>
      BY <1>1, NamesNotEmpty
    <3>2. k # inode
      BY <2>1, <2>4, <2>5, <2>7, <3>1 DEF Shares
    <3> QED
      BY <1>1, <1>3, <3>2 DEF FileInv
  <2> QED
    BY <1>1, <2>3, <2>4, <2>6, <2>7, OneOwns DEF h
<1> QED
  BY <1>2, <1>3 DEF OpenFile, To

\* A chunk is the call's own, and goes to its own file, to a shared one, or
\* nowhere.
LEMMA WriteOwns ==
  ASSUME OwnInv, FileInv', NEW j \in Calls, Write(j)
  PROVE  OwnInv'
<1> DEFINE h == calls[j]
           file == h.fd
           path == h.path
<1>1. /\ h.pc = "write" /\ UNCHANGED blobs /\ FileInv
      /\ path \in Names /\ FdOf(calls, h) /\ h.at \in 0..(Chunks - 1)
      /\ inodes \in [Calls -> [1..Chunks -> Calls \cup {None}]]
  BY DEF OwnInv, FileInv, Write, HasFile, Writing
<1>2. CASE /\ inodes' = IF file = None THEN inodes ELSE [inodes EXCEPT ![file][h.at + 1] = j]
           /\ NextChunk(j)
  <2>1. PICK g : /\ calls' = [calls EXCEPT ![j] = g] /\ calls'[j] = g
                 /\ g.path = path /\ g.fd = file
                 /\ g.pc = IF h.at + 1 = Chunks THEN "finish" ELSE "write"
                 /\ g.at = IF h.at + 1 = Chunks THEN 0 ELSE h.at + 1
    BY <1>1, <1>2, NextChunkCall
  <2>2. \A k \in Calls \ {j} : calls'[k] = calls[k]
    BY <1>1, <2>1 DEF FileInv
  <2>3. ASSUME NEW k \in Calls \ {j}, ~Shares(k)' PROVE inodes'[k] = inodes[k] /\ blobs'[k] = blobs[k]
    <3>1. path # << >>
      BY <1>1, NamesNotEmpty
    <3>2. k # file
      <4>1. ASSUME k = file PROVE FALSE
        <5>1. calls[k].path = path
          BY <1>1, <4>1, MediaAssumption DEF FdOf
        <5>2. calls'[j].path = calls'[k].path /\ calls'[j].path # << >>
          BY <2>1, <2>2, <3>1, <5>1
        <5> QED
          BY <2>3, <5>2 DEF Shares
      <4> QED
        BY <4>1
    <3> QED
      BY <1>1, <1>2, <3>2
  <2>4. ASSUME ~Shares(j) PROVE OwnFile(j)'
    <3>0. file \in {None, j}
      BY <1>1, <2>4 DEF OwnInv, OwnFile, Writing
    <3>1. CASE file = None
      BY <2>1, <3>1, MediaAssumption DEF OwnFile, Uploading, Writing
    <3>2. CASE file = j
      <4>0. file # None
        BY <3>2, MediaAssumption
      <4>1. \A i \in 1..h.at : inodes[j][i] = j
        BY <1>1, <2>4, <3>2 DEF OwnInv, OwnFile
      <4>2. inodes'[j] = [inodes[j] EXCEPT ![h.at + 1] = j]
        BY <1>1, <1>2, <3>2, <4>0
      <4>3. DOMAIN inodes[j] = 1..Chunks /\ inodes[j] = [i \in 1..Chunks |-> inodes[j][i]]
        BY <1>1
      <4>4. h.at + 1 \in 1..Chunks /\ h.at \in Nat
        BY <1>1, MediaAssumption
      <4>5. \A i \in 1..(h.at + 1) : inodes'[j][i] = j
        <5> SUFFICES ASSUME NEW i \in 1..(h.at + 1) PROVE inodes'[j][i] = j
          OBVIOUS
        <5> HIDE DEF h
        <5>1. i \in 1..Chunks /\ (i = h.at + 1 \/ i \in 1..h.at)
          BY <4>4, MediaAssumption
        <5> QED
          BY <4>1, <4>2, <4>3, <5>1
      <4>6. CASE h.at + 1 = Chunks
        <5>1. inodes'[j] = [i \in 1..Chunks |-> inodes'[j][i]]
          BY <4>2, <4>3
        <5>2. inodes'[j] = Own(j)
          BY <4>5, <4>6, <5>1 DEF Own
        <5>3. calls'[j].pc = "finish" /\ calls'[j].fd = j
          BY <2>1, <3>2, <4>6
        <5> QED
          BY <5>2, <5>3 DEF OwnFile, Own, Uploading
      <4>7. CASE h.at + 1 # Chunks
        <5>1. calls'[j].pc = "write" /\ calls'[j].fd = j /\ calls'[j].at = h.at + 1
          BY <2>1, <3>2, <4>7
        <5> QED
          BY <4>5, <5>1 DEF OwnFile, Uploading
      <4> QED
        BY <4>6, <4>7
    <3> QED
      BY <3>0, <3>1, <3>2
  <2>5. Composing(j)'
    BY <2>1 DEF Composing
  <2> QED
    BY <1>1, <2>1, <2>3, <2>4, <2>5, OneOwns
<1>3. CASE GivesUp(j) /\ UNCHANGED inodes
  BY <1>1, <1>3, EndedOwns DEF GivesUp
<1> QED
  BY <1>2, <1>3 DEF Write

\* A file that is finished was written to the end.
LEMMA FinishOwns ==
  ASSUME OwnInv, FileInv', NEW j \in Calls, Finished(j)
  PROVE  OwnInv'
<1> DEFINE h == calls[j]
           g == [h EXCEPT !.pc = "conn", !.fd = None]
<1>1. /\ DOMAIN h = Fields /\ h.pc = "finish" /\ UNCHANGED << inodes, blobs >> /\ FileInv
  BY DEF OwnInv, FileInv, Finished
<1>2. CASE h.fd # None /\ calls' = [calls EXCEPT ![j].pc = "conn", ![j].fd = None]
  <2>1. calls' = [calls EXCEPT ![j] = g]
    BY <1>1, <1>2 DEF FileInv
  <2>2. g.path = h.path /\ g.pc = "conn"
    BY <1>1 DEF Fields
  <2> HIDE DEF g
  <2>3. calls'[j] = g
    BY <1>1, <2>1 DEF FileInv
  <2>4. Composing(j)'
    BY <2>2, <2>3 DEF Composing
  <2>5. ASSUME ~Shares(j) PROVE OwnFile(j)'
    <3>1. inodes[j] = Own(j)
      BY <1>1, <1>2, <2>5 DEF OwnInv, OwnFile, Writing
    <3> QED
      BY <1>1, <2>2, <2>3, <3>1 DEF OwnFile, Own, Uploading, Writing
  <2> QED
    BY <1>1, <2>1, <2>2, <2>4, <2>5, OneOwns
<1>3. CASE GivesUp(j)
  BY <1>1, <1>3, EndedOwns DEF GivesUp
<1> QED
  BY <1>2, <1>3 DEF Finished

\* No call is left that writes, uploads or composes.
LEMMA UnheardOwns ==
  ASSUME OwnInv, FileInv', UnheardError
  PROVE  OwnInv'
<1>1. ASSUME NEW k \in Calls PROVE OwnFile(k)' /\ Composing(k)'
  <2>1. calls'[k].pc \in {"idle"} \cup Over
    BY UnheardCall DEF OwnInv
  <2> QED
    BY <2>1, NothingOwned
<1> QED
  BY <1>1 DEF OwnInv

\* An upload reads the call's own file, and a host stores what was read.
LEMMA UploadOwns ==
  ASSUME OwnInv, FileInv', NEW j \in Calls,
         Conn(j) \/ ConnAnswer(j) \/ Post(j) \/ PostAnswer(j) \/ Refreshed(j)
  PROVE  OwnInv'
<1> DEFINE h == calls[j]
<1>0. FileInv
  BY DEF OwnInv
<1>1. PICK c : /\ calls' = [calls EXCEPT ![j] = c] /\ DOMAIN c = Fields
               /\ c.path = calls[j].path /\ c.pc \in Uploading \cup {"failed"}
               /\ calls[j].pc \in Uploading
               /\ UNCHANGED << names, inodes, time, kept >> /\ DOMAIN blobs' = DOMAIN blobs
  BY <1>0, UploadStep
<1>2. calls'[j] = c /\ DOMAIN h = Fields
  BY <1>0, <1>1 DEF FileInv
<1>3. \A k \in Calls \ {j} : blobs'[k] = blobs[k]
  BY <1>0 DEF FileInv, Conn, ConnAnswer, Post, PostAnswer, Refreshed
<1>4. Composing(j)'
  BY <1>1, <1>2 DEF Composing, Uploading
<1>5. ASSUME ~Shares(j) PROVE OwnFile(j)'
  <2>1. inodes'[j] = Own(j) /\ OwnFile(j)
    BY <1>1, <1>5 DEF OwnInv, OwnFile
  <2>2. ASSUME NextHost(j) PROVE c.pc \in {"post", "failed"}
    <3>1. CASE h.host < Hosts
      <4>1. c = [h EXCEPT !.pc = "post", !.host = h.host + 1, !.body = << >>]
        BY <1>0, <1>2, <2>2, <3>1 DEF NextHost, FileInv
      <4> QED
        BY <1>2, <4>1 DEF Fields
    <3>2. CASE ~(h.host < Hosts)
      <4>1. c = [Idle EXCEPT !.pc = "failed", !.path = h.path]
        BY <1>0, <1>2, <2>2, <3>2 DEF NextHost, Fails, Ends, FileInv
      <4> QED
        BY <4>1, EndedCall
    <3> QED
      BY <3>1, <3>2
  <2>3. CASE Conn(j) \/ ConnAnswer(j) \/ Refreshed(j)
    <3>1. \A i : FirstHost([h EXCEPT !.info = i]).pc \in {"post", "failed"}
      BY <1>2 DEF FirstHost, Fields
    <3>2. [Idle EXCEPT !.pc = "failed", !.path = h.path].pc = "failed"
      BY EndedCall
    <3>3. [h EXCEPT !.pc = "query"].pc = "query"
      BY <1>2 DEF Fields
    <3>4. [h EXCEPT !.pc = "post", !.host = h.host + 1, !.body = << >>, !.info = auth].pc = "post"
      BY <1>2 DEF Fields
    <3>5. \/ \E i : c = FirstHost([h EXCEPT !.info = i])
          \/ c = [Idle EXCEPT !.pc = "failed", !.path = h.path]
          \/ c = [h EXCEPT !.pc = "query"]
          \/ c = [h EXCEPT !.pc = "post", !.host = h.host + 1, !.body = << >>, !.info = auth]
          \/ NextHost(j)
      <4>1. CASE Conn(j)
        <5>1. \/ calls'[j] = FirstHost([h EXCEPT !.info = cache])
              \/ calls'[j] = [h EXCEPT !.pc = "query"]
          BY <1>0, <4>1 DEF Conn, FileInv
        <5> QED
          BY <1>2, <5>1
      <4>2. CASE ConnAnswer(j)
        <5>1. \/ calls'[j] = FirstHost([h EXCEPT !.info = auth])
              \/ calls'[j] = [Idle EXCEPT !.pc = "failed", !.path = h.path]
          BY <1>0, <4>2 DEF ConnAnswer, Fails, Ends, FileInv
        <5> QED
          BY <1>2, <5>1
      <4>3. CASE Refreshed(j)
        <5>1. \/ calls'[j] = [h EXCEPT !.pc = "post", !.host = h.host + 1, !.body = << >>, !.info = auth]
              \/ calls'[j] = [Idle EXCEPT !.pc = "failed", !.path = h.path]
              \/ NextHost(j)
          BY <1>0, <4>3 DEF Refreshed, Fails, Ends, FileInv
        <5> QED
          BY <1>2, <5>1
      <4> QED
        BY <2>3, <4>1, <4>2, <4>3
    <3> HIDE DEF h
    <3>6. c.pc \in {"post", "failed", "query"}
      BY <2>2, <3>1, <3>2, <3>3, <3>4, <3>5
    <3> QED
      BY <1>2, <2>1, <3>6 DEF OwnFile, Own, Uploading, Writing
  <2>4. CASE Post(j)
    <3>1. FileOf(j, h.content) /\ h.path \in Names
      BY <1>0, <1>1 DEF FileInv, HasFile
    <3>2. CASE names[h.path] = None
      <4>1. c.pc \in {"post", "failed"}
        BY <2>2, <2>4, <3>2 DEF Post
      <4> QED
        BY <1>2, <2>1, <4>1 DEF OwnFile, Own, Uploading, Writing
    <3>3. CASE names[h.path] # None
      <4>1. names[h.path] = j
        BY <1>0, <1>5, <3>1, <3>3, InodeOfName
      <4>2. c = [h EXCEPT !.pc = "posted", !.body = inodes[j]]
        BY <1>0, <1>2, <2>4, <3>3, <4>1 DEF Post, FileInv
      <4>3. c.pc = "posted" /\ c.body = inodes[j] /\ inodes'[j] = inodes[j]
        BY <1>1, <1>2, <4>2 DEF Fields
      <4> QED
        BY <1>2, <2>1, <4>3 DEF OwnFile, Own, Uploading, Writing
    <3> QED
      BY <3>2, <3>3
  <2>5. CASE PostAnswer(j)
    <3>1. h.body = Own(j)
      BY <1>5, <2>5 DEF OwnInv, OwnFile, PostAnswer
    <3>2. CASE NextHost(j)
      <4>1. c.pc \in {"post", "failed"}
        BY <2>2, <3>2
      <4> QED
        BY <1>2, <2>1, <4>1 DEF OwnFile, Own, Uploading, Writing
    <3>3. CASE To(j, "refresh")
      <4>1. c = [h EXCEPT !.pc = "refresh"]
        BY <1>0, <1>2, <3>3 DEF To, FileInv
      <4>2. c.pc = "refresh"
        BY <1>2, <4>1 DEF Fields
      <4> QED
        BY <1>2, <2>1, <4>2 DEF OwnFile, Own, Uploading, Writing
    <3>4. CASE /\ blobs' = [blobs EXCEPT ![j] = h.body]
               /\ calls' = [calls EXCEPT ![j].pc = "uploaded", ![j].body = << >>,
                                       ![j].info = 0, ![j].host = 0]
      <4>1. c = [h EXCEPT !.pc = "uploaded", !.body = << >>, !.info = 0, !.host = 0] /\ blobs'[j] = h.body
        BY <1>0, <1>2, <3>4 DEF FileInv
      <4>2. c.pc = "uploaded"
        BY <1>2, <4>1 DEF Fields
      <4> QED
        BY <1>2, <2>1, <3>1, <4>1, <4>2 DEF OwnFile, Own, Uploading, Writing
    <3> QED
      BY <2>5, <3>2, <3>3, <3>4 DEF PostAnswer
  <2> QED
    BY <2>3, <2>4, <2>5
<1> QED
  BY <1>1, <1>3, <1>4, <1>5, OneOwns

\* The uploaded file's name is removed; the upload stays.
LEMMA UnlinkOwns ==
  ASSUME OwnInv, FileInv', NEW j \in Calls, Unlink(j)
  PROVE  OwnInv'
<1> DEFINE h == calls[j]
           g == [h EXCEPT !.pc = "compose"]
<1>1. /\ DOMAIN h = Fields /\ h.pc = "uploaded" /\ FileOf(j, h.content)
      /\ calls' = [calls EXCEPT ![j] = g] /\ UNCHANGED << inodes, blobs >>
  BY DEF OwnInv, FileInv, Unlink, To, HasFile, Uploading
<1>2. g.pc = "compose" /\ g.path = h.path /\ g.content = h.content
  BY <1>1 DEF Fields
<1> HIDE DEF g
<1>3. calls'[j] = g
  BY <1>1 DEF OwnInv, FileInv
<1>4. Composing(j)'
  BY <1>1, <1>2, <1>3 DEF Composing, FileOf
<1>5. ASSUME ~Shares(j) PROVE OwnFile(j)'
  <2>1. blobs[j] = Own(j)
    BY <1>1, <1>5 DEF OwnInv, OwnFile
  <2> QED
    BY <1>1, <1>2, <1>3, <2>1 DEF OwnFile, Own, Uploading, Writing
<1> QED
  BY <1>1, <1>2, <1>4, <1>5, OneOwns

\* A message without a file of its own names another's or none.
LEMMA ComposedFile ==
  ASSUME NEW c, "file" \in DOMAIN c.original
  PROVE  Composed(c, None, c.opts).file \in {None, c.original.file}
<1>1. \A m : "file" \in DOMAIN m => "file" \in DOMAIN Normalize(m) /\ Normalize(m).file = m.file
  BY DEF Normalize
<1>2. \A m, opts : "file" \in DOMAIN m => Envelope(m, opts).file = m.file
  BY <1>1 DEF Envelope
<1>3. \A type, ctx : "file" \in DOMAIN Message(type, ctx, None) /\ Message(type, ctx, None).file = None
  BY DEF Message
<1>4. \A m : "file" \in DOMAIN m => "file" \in DOMAIN Mentioned(m) /\ Mentioned(m).file = m.file
  BY DEF Mentioned
<1>5. \A m : "file" \in DOMAIN m => "file" \in DOMAIN Created(m) /\ Created(m).file = m.file
  BY DEF Created
<1>6. \A m : "file" \in DOMAIN m => Wrapped(c, m).file \in {None, m.file} /\ "file" \in DOMAIN Wrapped(c, m)
  <2> SUFFICES ASSUME NEW m, "file" \in DOMAIN m
               PROVE  Wrapped(c, m).file \in {None, m.file} /\ "file" \in DOMAIN Wrapped(c, m)
    OBVIOUS
  <2> DEFINE once == IF c.viewOnce THEN [m EXCEPT !.wraps = << "viewOnce" >> \o @] ELSE m
             said == IF c.mentions THEN Mentioned(once) ELSE once
             p == Message("protocol", {}, None)
             w == IF c.edit THEN [p EXCEPT !.edits = << said >>] ELSE said
  <2>1. "file" \in DOMAIN once /\ once.file = m.file
    OBVIOUS
  <2>2. Wrapped(c, m) = Created(w)
    BY DEF Wrapped
  <2> HIDE DEF once
  <2>3. "file" \in DOMAIN said /\ said.file = m.file
    BY <1>4, <2>1
  <2>4. "file" \in DOMAIN p /\ p.file = None
    BY <1>3
  <2> HIDE DEF said, p
  <2>5. "file" \in DOMAIN w /\ w.file \in {None, m.file}
    BY <2>3, <2>4
  <2> HIDE DEF w
  <2> QED
    BY <1>5, <2>2, <2>5
<1>7. "file" \in DOMAIN Typed(c, None) /\ Typed(c, None).file \in {None, c.original.file}
  <2>1. "file" \in DOMAIN Forwarded(c) /\ Forwarded(c).file = c.original.file
    BY <1>1 DEF Forwarded
  <2> QED
    BY <1>3, <2>1 DEF Typed
<1> QED
  BY <1>2, <1>6, <1>7 DEF Composed

\* Only a message of a call with a file names that call's upload.
LEMMA ComposeOwns ==
  ASSUME OwnInv, FileInv', NEW j \in Calls, Compose(j)
  PROVE  OwnInv'
<1> DEFINE h == calls[j]
<1>1. DOMAIN h = Fields /\ h.pc = "compose" /\ UNCHANGED << inodes, blobs >>
  BY DEF OwnInv, FileInv, Compose
<1>2. PICK d \in Contents[j] : h.content = << d >>
  BY <1>1 DEF OwnInv, Composing
<1>3. CASE Fails(j)
  BY <1>1, <1>3, EndedOwns
<1>4. CASE ~d.bad
  <2> DEFINE file == IF d.file = None THEN None ELSE j
             message == Composed(d, file, d.opts)
             sent == << message, EditAttribute(d) >>
             g == [h EXCEPT !.pc = "relay", !.sent = sent]
  <2>1. calls' = [calls EXCEPT ![j] = g]
    <3>1. h.content[1] = d
      BY <1>2
    <3>2. calls' = [calls EXCEPT ![j].pc = "relay", ![j].sent = sent]
      BY <1>4, <3>1 DEF Compose
    <3> HIDE DEF sent
    <3> QED
      BY <3>2 DEF OwnInv, FileInv
  <2>2. sent[1] = message
    OBVIOUS
  <2>3. message.file = j => d.file # None
    <3>1. "file" \in DOMAIN d.original /\ d.original.file \notin Calls /\ None \notin Calls
      BY MediaAssumption
    <3>2. CASE d.file = None
      <4>1. message = Composed(d, None, d.opts)
        BY <3>2
      <4> HIDE DEF message
      <4> QED
        BY <3>1, <4>1, ComposedFile
    <3> QED
      BY <3>2
  <2> HIDE DEF message, sent
  <2>4. g.pc = "relay" /\ g.path = h.path /\ g.content = h.content /\ g.sent[1] = message
    BY <1>1, <2>2 DEF Fields
  <2> HIDE DEF g
  <2>5. calls'[j] = g
    BY <2>1 DEF OwnInv, FileInv
  <2>6. Composing(j)'
    BY <1>2, <2>3, <2>4, <2>5 DEF Composing, FileOf
  <2>7. ~Shares(j) => OwnFile(j)'
    <3>1. ~Shares(j) => OwnFile(j)
      BY DEF OwnInv
    <3> QED
      BY <1>1, <2>4, <2>5, <3>1 DEF OwnFile, Own, Uploading, Writing
  <2> QED
    BY <1>1, <2>1, <2>4, <2>6, <2>7, OneOwns DEF h
<1>5. h.content[1] = d
  BY <1>2
<1> QED
  BY <1>3, <1>4, <1>5 DEF Compose

LEMMA OwnNext == OwnInv /\ [Next]_vars => OwnInv'
<1> SUFFICES ASSUME OwnInv, [Next]_vars PROVE OwnInv'
  OBVIOUS
<1>0. FileInv'
  BY FileNext DEF OwnInv
<1>1. CASE Tick \/ AuthChanges \/ CacheExpires \/ UNCHANGED vars
  <2>1. UNCHANGED << calls, inodes, blobs >>
    BY <1>1 DEF Tick, AuthChanges, CacheExpires, vars
  <2> QED
    BY <1>0, <2>1, ZenonT(30) DEF OwnInv, OwnFile, Composing, Shares, Own
<1>2. CASE UnheardError
  BY <1>0, <1>2, UnheardOwns
<1>3. ASSUME NEW j \in Calls, Call(j) \/ Step(j)
      PROVE  OwnInv'
  <2>1. CASE Call(j) \/ Source(j)
    BY <1>0, <2>1, StartOwns
  <2>2. CASE OpenFile(j)
    BY <1>0, <2>2, OpenOwns
  <2>3. CASE Write(j)
    BY <1>0, <2>3, WriteOwns
  <2>8. CASE Finished(j)
    BY <1>0, <2>8, FinishOwns
  <2>4. CASE Conn(j) \/ ConnAnswer(j) \/ Post(j) \/ PostAnswer(j) \/ Refreshed(j)
    BY <1>0, <2>4, UploadOwns
  <2>5. CASE Unlink(j)
    BY <1>0, <2>5, UnlinkOwns
  <2>6. CASE Compose(j)
    BY <1>0, <2>6, ComposeOwns
  <2>7. CASE Relayed(j)
    <3>1. (Ends(j, "sent") \/ Fails(j)) /\ UNCHANGED << inodes, blobs >>
      BY <2>7 DEF Relayed
    <3> QED
      BY <1>0, <3>1, EndedOwns
  <2> QED
    BY <1>3, <2>1, <2>2, <2>3, <2>4, <2>5, <2>6, <2>7, <2>8 DEF Step
<1> QED
  BY <1>1, <1>2, <1>3 DEF Next

\* sendMessage(): an upload that a message names holds the message's own file
\* and nothing else, whatever uploads overlap, fail or are tried at another
\* host, for a call that shares no temporary file.
THEOREM OwnFilesSent == Spec => []OwnBytes
<1>1. OwnInv => OwnBytes
  BY DEF OwnInv, OwnFile, Composing, OwnBytes
<1> QED
  BY OwnInit, OwnNext, <1>1, PTL DEF Spec

-----------------------------------------------------------------------------
(***************************************************************************)
(* What goes with a message                                                *)
(*                                                                         *)
(* The composition of a message is taken apart into the chain of ifs, the  *)
(* wrappers and the envelope; a call that relays a message composed it of  *)
(* the content it was called with.                                         *)
(***************************************************************************)

Parts == {"wraps", "wrapCtx", "type", "ctx", "file", "edits", "first"}

LEMMA MessageParts ==
  ASSUME NEW type, NEW ctx, NEW file
  PROVE  LET m == Message(type, ctx, file)
         IN  /\ DOMAIN m = Parts /\ m.wraps = << >> /\ m.type = type /\ m.ctx = ctx
             /\ m.first = "content"
BY DEF Message, Parts

\* normalizeMessageContent() takes wrappers off and touches nothing inside.
LEMMA NormalizeParts ==
  ASSUME NEW m, DOMAIN m = Parts
  PROVE  /\ DOMAIN Normalize(m) = Parts
         /\ Normalize(m).type = m.type /\ Normalize(m).ctx = m.ctx
         /\ Normalize(m).edits = m.edits /\ Normalize(m).first = m.first
         /\ m.wraps = << >> => Normalize(m) = m
<1>1. Normalize(m) = m \/ Normalize(m) = [m EXCEPT !.wraps = SubSeq(@, 6, Len(@)), !.wrapCtx = {}]
  BY DEF Normalize
<1> DEFINE a == [m EXCEPT !.wraps = SubSeq(@, 6, Len(@))]
           b == [a EXCEPT !.wrapCtx = {}]
<1>2. DOMAIN a = Parts /\ a.type = m.type /\ a.ctx = m.ctx /\ a.edits = m.edits /\ a.first = m.first
  BY DEF Parts
<1>3. b = [m EXCEPT !.wraps = SubSeq(@, 6, Len(@)), !.wrapCtx = {}]
  OBVIOUS
<1> HIDE DEF a
<1>4. DOMAIN b = Parts /\ b.type = a.type /\ b.ctx = a.ctx /\ b.edits = a.edits /\ b.first = a.first
  BY <1>2 DEF Parts
<1> HIDE DEF b
<1> QED
  BY <1>1, <1>2, <1>3, <1>4 DEF Normalize

\* Up to five wrappers come off completely.
LEMMA NormalizeBare ==
  ASSUME NEW m, DOMAIN m = Parts, m.wraps \in Seq(STRING), Len(m.wraps) <= 5
  PROVE  Normalize(m).wraps = << >>
<1>1. CASE m.wraps = << >>
  BY <1>1 DEF Normalize
<1>2. CASE m.wraps # << >>
  <2> DEFINE a == [m EXCEPT !.wraps = SubSeq(@, 6, Len(@))]
             b == [a EXCEPT !.wrapCtx = {}]
  <2>1. Normalize(m) = b
    BY <1>2 DEF Normalize
  <2>2. DOMAIN a = Parts /\ a.wraps = SubSeq(m.wraps, 6, Len(m.wraps))
    BY DEF Parts
  <2>3. SubSeq(m.wraps, 6, Len(m.wraps)) = << >>
    OBVIOUS
  <2> HIDE DEF a
  <2>4. b.wraps = a.wraps
    BY <2>2 DEF Parts
  <2> QED
    BY <2>1, <2>2, <2>3, <2>4
<1> QED
  BY <1>1, <1>2

\* A content the chain of ifs knows.
Known == MediaTypes \cup OtherTypes \cup {"forward", "delete", "timer"}

\* What an application may ask for, see ContentAssumption.
Sayable(c) ==
  /\ c.edit => c.kind \in Known
  /\ DOMAIN c.original = Parts
  /\ c.original.wraps \in Seq(STRING)
  /\ c.original.first \in {"content", "other"}
  /\ c.kind = "forward" => c.original.type \notin {"", "protocol"} /\ Len(c.original.wraps) <= 5

\* The types that are not content.
LEMMA KindsDiffer ==
  /\ "" \notin MediaTypes \cup OtherTypes /\ "protocol" \notin MediaTypes \cup OtherTypes
  /\ "forward" \notin MediaTypes \cup OtherTypes /\ "delete" \notin MediaTypes \cup OtherTypes
  /\ "timer" \notin MediaTypes \cup OtherTypes
  /\ TakesContext \subseteq MediaTypes \cup OtherTypes
BY DEF MediaTypes, OtherTypes, TakesContext

\* What is behind the first key of the composed content.
TypedFirst(c) == IF Aside(c) THEN "other" ELSE IF Plain(c) THEN "blank" ELSE "content"

\* What generateForwardMessageContent() makes of a message.
LEMMA ForwardedParts ==
  ASSUME NEW c, c.kind = "forward", Sayable(c)
  PROVE  LET t == Forwarded(c)
         IN  /\ DOMAIN t = Parts /\ t.wraps = << >> /\ t.type \notin {"", "protocol"}
             /\ t.first = TypedFirst(c)
             /\ Aside(c) => t.ctx = Normalize(c.original).ctx
             /\ ~Aside(c) => t.ctx \subseteq {"forwarded"} /\ (~c.fromMe => t.ctx = {"forwarded"})
<1> DEFINE n == Normalize(c.original)
           ty == IF n.type = "conversation" THEN "text" ELSE n.type
           fi == IF n.type = "conversation" THEN "blank" ELSE n.first
           cx == IF "forwarded" \in n.ctx \/ ~c.fromMe \/ c.force THEN {"forwarded"} ELSE {}
           a == [n EXCEPT !.type = ty]
           b == [a EXCEPT !.first = fi]
           d == [b EXCEPT !.ctx = cx]
<1>1. /\ DOMAIN n = Parts /\ n.type \notin {"", "protocol"} /\ n.wraps = << >>
      /\ n.first \in {"content", "other"}
  BY NormalizeParts, NormalizeBare DEF Sayable
<1>2. Aside(c) <=> n.first = "other"
  BY DEF Aside
<1>3. CASE n.first = "other"
  <2>1. Forwarded(c) = n
    BY <1>3 DEF Forwarded
  <2>2. TypedFirst(c) = "other"
    BY <1>2, <1>3 DEF TypedFirst
  <2> QED
    BY <1>1, <1>2, <1>3, <2>1, <2>2
<1>4. CASE n.first # "other"
  <2>1. Forwarded(c) = d
    BY <1>4 DEF Forwarded
  <2>2. fi = TypedFirst(c)
    BY <1>1, <1>2, <1>4 DEF TypedFirst, Plain
  <2>3. ty \notin {"", "protocol"}
    BY <1>1
  <2>4. cx \subseteq {"forwarded"} /\ (~c.fromMe => cx = {"forwarded"})
    OBVIOUS
  <2> HIDE DEF n, ty, fi, cx
  <2>5. DOMAIN a = Parts /\ a.wraps = n.wraps /\ a.type = ty
    BY <1>1 DEF Parts
  <2> HIDE DEF a
  <2>6. DOMAIN b = Parts /\ b.wraps = a.wraps /\ b.type = a.type /\ b.first = fi
    BY <2>5 DEF Parts
  <2> HIDE DEF b
  <2>7. DOMAIN d = Parts /\ d.wraps = b.wraps /\ d.type = b.type /\ d.first = b.first /\ d.ctx = cx
    BY <2>6 DEF Parts
  <2> HIDE DEF d
  <2> QED
    BY <1>1, <1>2, <1>4, <2>1, <2>2, <2>3, <2>4, <2>5, <2>6, <2>7
<1> QED
  BY <1>3, <1>4

\* What the chain of ifs makes of a content.
TypedCtx(c) ==
  (IF c.own /\ c.kind \in TakesContext THEN {"own"} ELSE {})
  \cup (IF Aside(c) THEN Normalize(c.original).ctx \ {"forwarded"} ELSE {})

TypedAs(c, t) ==
  /\ DOMAIN t = Parts
  /\ t.wraps = IF c.kind = "timer" THEN << "ephemeral" >> ELSE << >>
  /\ t.type = "" <=> c.kind \notin Known
  /\ t.type = "protocol" <=> c.kind \in {"delete", "timer"}
  /\ t.first = TypedFirst(c)
  /\ t.ctx \ {"forwarded"} = TypedCtx(c)
  /\ c.kind = "forward" /\ ~Aside(c) /\ ~c.fromMe => t.ctx = {"forwarded"}

LEMMA TypedParts ==
  ASSUME NEW c, NEW f, Sayable(c)
  PROVE  TypedAs(c, Typed(c, f))
<1> DEFINE t == Typed(c, f)
<1>0. c.kind # "forward" => ~Aside(c) /\ ~Plain(c) /\ TypedFirst(c) = "content"
  BY DEF Aside, Plain, TypedFirst
<1>1. CASE c.kind = "forward"
  <2>1. t = Forwarded(c)
    BY <1>1, KindsDiffer, Zenon DEF Typed
  <2>2. /\ TypedCtx(c) = IF Aside(c) THEN Normalize(c.original).ctx \ {"forwarded"} ELSE {}
        /\ c.kind \in Known /\ c.kind \notin {"delete", "timer"}
    BY <1>1, KindsDiffer DEF TypedCtx, Known
  <2>3. /\ DOMAIN t = Parts /\ t.wraps = << >> /\ t.type \notin {"", "protocol"}
        /\ t.first = TypedFirst(c)
        /\ Aside(c) => t.ctx = Normalize(c.original).ctx
        /\ ~Aside(c) => t.ctx \subseteq {"forwarded"} /\ (~c.fromMe => t.ctx = {"forwarded"})
    BY <1>1, <2>1, ForwardedParts
  <2> HIDE DEF t
  <2>4. t.ctx \ {"forwarded"} = TypedCtx(c)
    BY <2>2, <2>3
  <2> QED
    BY <2>2, <2>3, <2>4 DEF t, TypedAs
<1>2. CASE c.kind = "delete"
  <2>1. t = Message("protocol", {}, None)
    BY <1>2, KindsDiffer DEF Typed
  <2>2. TypedCtx(c) = {} /\ c.kind \in Known
    BY <1>0, <1>2, KindsDiffer DEF TypedCtx, Known
  <2>3. DOMAIN t = Parts /\ t.wraps = << >> /\ t.type = "protocol" /\ t.ctx = {} /\ t.first = "content"
    BY <2>1, MessageParts
  <2> HIDE DEF t
  <2> QED
    BY <1>0, <1>2, <2>2, <2>3 DEF t, TypedAs
<1>3. CASE c.kind = "timer"
  <2> DEFINE p == Message("protocol", {}, None)
             a == [p EXCEPT !.wraps = << "ephemeral" >>]
  <2>1. t = a
    BY <1>3, KindsDiffer DEF Typed
  <2>2. TypedCtx(c) = {} /\ c.kind \in Known
    BY <1>0, <1>3, KindsDiffer DEF TypedCtx, Known
  <2>3. DOMAIN p = Parts /\ p.type = "protocol" /\ p.ctx = {} /\ p.first = "content"
    BY MessageParts
  <2> HIDE DEF p
  <2>4. DOMAIN a = Parts /\ a.type = p.type /\ a.ctx = p.ctx /\ a.first = p.first /\ a.wraps = << "ephemeral" >>
    BY <2>3 DEF Parts
  <2> HIDE DEF t, a
  <2> QED
    BY <1>0, <1>3, <2>1, <2>2, <2>3, <2>4 DEF t, TypedAs
<1>4. CASE c.kind \in MediaTypes \cup OtherTypes
  <2> DEFINE cx == IF c.own /\ c.kind \in TakesContext THEN {"own"} ELSE {}
  <2>0. c.kind \notin {"forward", "delete", "timer", "", "protocol"} /\ c.kind \in Known
    BY <1>4, KindsDiffer DEF Known
  <2>1. t = Message(c.kind, cx, f)
    BY <1>4, <2>0 DEF Typed
  <2>2. cx = TypedCtx(c) /\ cx \ {"forwarded"} = cx
    BY <1>0, <2>0 DEF TypedCtx
  <2> HIDE DEF cx
  <2>3. DOMAIN t = Parts /\ t.wraps = << >> /\ t.type = c.kind /\ t.ctx = cx /\ t.first = "content"
    BY <2>1, MessageParts
  <2> HIDE DEF t
  <2> QED
    BY <1>0, <2>0, <2>2, <2>3 DEF t, TypedAs
<1>5. CASE c.kind \notin Known
  <2>0. /\ c.kind \notin {"forward", "delete", "timer"} /\ c.kind \notin MediaTypes \cup OtherTypes
        /\ c.kind \notin TakesContext
    BY <1>5, KindsDiffer DEF Known
  <2> DEFINE e == Message("", {}, None)
  <2>1. t = e /\ TypedCtx(c) = {}
    BY <1>0, <2>0 DEF Typed, TypedCtx
  <2>2. DOMAIN e = Parts /\ e.wraps = << >> /\ e.type = "" /\ e.ctx = {} /\ e.first = "content"
    BY DEF Message, Parts
  <2> HIDE DEF t, e
  <2> QED
    BY <1>0, <1>5, <2>0, <2>1, <2>2 DEF t, TypedAs
<1> QED
  BY <1>1, <1>2, <1>3, <1>4, <1>5 DEF Known

\* Where mentions go.
LEMMA MentionedParts ==
  ASSUME NEW m, DOMAIN m = Parts
  PROVE  LET s == Mentioned(m)
         IN  /\ DOMAIN s = Parts /\ s.type = m.type /\ s.wraps = m.wraps /\ s.first = m.first
             /\ m.wraps # << >> => s.ctx = m.ctx /\ "mentions" \in s.wrapCtx
             /\ m.wraps = << >> =>
                  s.ctx = m.ctx \cup (IF m.type # "" /\ m.first = "content" THEN {"mentions"} ELSE {})
<1> DEFINE x == [m EXCEPT !.ctx = @ \cup {"mentions"}]
           y == [m EXCEPT !.wrapCtx = @ \cup {"mentions"}]
           s == Mentioned(m)
<1>1. s = IF m.wraps # << >> THEN y ELSE IF m.type # "" /\ m.first = "content" THEN x ELSE m
  BY DEF Mentioned
<1>2. DOMAIN x = Parts /\ x.type = m.type /\ x.wraps = m.wraps /\ x.ctx = m.ctx \cup {"mentions"}
      /\ x.first = m.first
  BY DEF Parts
<1>3. DOMAIN y = Parts /\ y.type = m.type /\ y.wraps = m.wraps /\ y.ctx = m.ctx /\ "mentions" \in y.wrapCtx
      /\ y.first = m.first
  BY DEF Parts
<1> HIDE DEF x, y, s
<1>4. CASE m.wraps # << >>
  BY <1>1, <1>3, <1>4 DEF s
<1>5. CASE m.wraps = << >> /\ m.type # "" /\ m.first = "content"
  BY <1>1, <1>2, <1>5 DEF s
<1>6. CASE m.wraps = << >> /\ ~(m.type # "" /\ m.first = "content")
  BY <1>1, <1>6 DEF s
<1> QED
  BY <1>4, <1>5, <1>6

\* The wrapper of a view-once message and the mentions.
Once(c, m) == IF c.viewOnce THEN [m EXCEPT !.wraps = << "viewOnce" >> \o @] ELSE m
Said(c, m) == IF c.mentions THEN Mentioned(Once(c, m)) ELSE Once(c, m)

LEMMA SaidParts ==
  ASSUME NEW c, NEW m, NEW S, DOMAIN m = Parts, m.wraps \in Seq(S)
  PROVE  LET s == Said(c, m)
         IN  /\ DOMAIN s = Parts /\ s.type = m.type /\ s.first = m.first /\ m.ctx \subseteq s.ctx
             /\ c.mentions /\ (c.viewOnce \/ m.wraps # << >> \/ (m.type # "" /\ m.first = "content")) =>
                  "mentions" \in s.ctx \cup s.wrapCtx
             /\ ~c.viewOnce => s.wraps = m.wraps
             /\ ~c.viewOnce /\ m.wraps = << >> =>
                  s.ctx = m.ctx \cup (IF c.mentions /\ m.type # "" /\ m.first = "content"
                                      THEN {"mentions"} ELSE {})
<1> DEFINE once == Once(c, m)
           s == Said(c, m)
<1>1. /\ DOMAIN once = Parts /\ once.type = m.type /\ once.ctx = m.ctx /\ once.first = m.first
      /\ c.viewOnce => once.wraps # << >>
      /\ ~c.viewOnce => once = m
  <2>1. CASE c.viewOnce
    <3> DEFINE v == [m EXCEPT !.wraps = << "viewOnce" >> \o @]
    <3>1. DOMAIN v = Parts /\ v.type = m.type /\ v.ctx = m.ctx /\ v.first = m.first
          /\ v.wraps = << "viewOnce" >> \o m.wraps
      BY DEF Parts
    <3>2. << "viewOnce" >> \o m.wraps # << >>
      <4>1. Len(<< "viewOnce" >> \o m.wraps) = 1 + Len(m.wraps) /\ Len(m.wraps) \in Nat
        OBVIOUS
      <4> QED
        BY <4>1
    <3>3. once = v
      BY <2>1 DEF Once
    <3> HIDE DEF v, once
    <3> QED
      BY <2>1, <3>1, <3>2, <3>3
  <2>2. CASE ~c.viewOnce
    BY <2>2 DEF Once
  <2> QED
    BY <2>1, <2>2
<1>2. s = IF c.mentions THEN Mentioned(once) ELSE once
  BY DEF Said
<1> HIDE DEF once, s
<1>3. CASE ~c.mentions
  BY <1>1, <1>2, <1>3 DEF s
<1>4. CASE c.mentions
  <2>1. /\ DOMAIN s = Parts /\ s.type = once.type /\ s.wraps = once.wraps /\ s.first = once.first
        /\ once.wraps # << >> => s.ctx = once.ctx /\ "mentions" \in s.wrapCtx
        /\ once.wraps = << >> =>
             s.ctx = once.ctx \cup (IF once.type # "" /\ once.first = "content" THEN {"mentions"} ELSE {})
    BY <1>1, <1>2, <1>4, MentionedParts
  <2> QED
    BY <1>1, <1>4, <2>1 DEF s
<1> QED
  BY <1>3, <1>4

\* What Message.create() leaves.
LEMMA CreatedParts ==
  ASSUME NEW m, DOMAIN m = Parts
  PROVE  LET d == Created(m)
         IN  /\ DOMAIN d = Parts /\ d.type = m.type /\ d.ctx = m.ctx /\ d.edits = m.edits
             /\ m.wraps = << >> => d.first # "blank"
<1> DEFINE a == [m EXCEPT !.first = "content"]
<1>1. DOMAIN a = Parts /\ a.type = m.type /\ a.ctx = m.ctx /\ a.edits = m.edits /\ a.first = "content"
  BY DEF Parts
<1>2. Created(m) = IF m.wraps = << >> /\ m.first = "blank" THEN a ELSE m
  BY DEF Created
<1> HIDE DEF a
<1> QED
  BY <1>1, <1>2

\* What a quoted message and the chat's timer add.
Added(n, opts) ==
  LET there == n.type # "" /\ n.first # "blank" /\ ~opts.newsletter
  IN  (IF there /\ opts.quoted THEN {"quoted"} ELSE {})
      \cup (IF there /\ opts.expires /\ n.type # "protocol" THEN {"expiration"} ELSE {})

LEMMA EnvelopeParts ==
  ASSUME NEW m, NEW opts, DOMAIN m = Parts
  PROVE  LET e == Envelope(m, opts)
         IN  /\ e.type = m.type /\ e.edits = m.edits
             /\ e.ctx = m.ctx \cup Added(m, opts)
<1> DEFINE n == Normalize(m)
           e == [n EXCEPT !.ctx = @ \cup Added(n, opts)]
<1>1. DOMAIN n = Parts /\ n.type = m.type /\ n.ctx = m.ctx /\ n.edits = m.edits /\ n.first = m.first
  BY NormalizeParts
<1>2. Added(n, opts) = Added(m, opts)
  BY <1>1 DEF Added
<1> DEFINE there == n.type # "" /\ n.first # "blank" /\ ~opts.newsletter
<1>3. Envelope(m, opts) = [n EXCEPT !.ctx = @ \cup (IF there /\ opts.quoted THEN {"quoted"} ELSE {})
                          \cup (IF there /\ opts.expires /\ n.type # "protocol"
                                THEN {"expiration"} ELSE {})]
  BY DEF Envelope
<1>4. Added(n, opts) = (IF there /\ opts.quoted THEN {"quoted"} ELSE {})
                       \cup (IF there /\ opts.expires /\ n.type # "protocol" THEN {"expiration"} ELSE {})
  BY DEF Added
<1> HIDE DEF n, there
<1>5. Envelope(m, opts).ctx = n.ctx \cup Added(n, opts) /\ Envelope(m, opts).type = n.type
      /\ Envelope(m, opts).edits = n.edits
  BY <1>1, <1>3, <1>4 DEF Parts
<1> QED
  BY <1>1, <1>2, <1>5

\* Message m has what content c asks for: ContextArrives for one call.
Carries(c, m) ==
  /\ ~c.edit /\ ~c.viewOnce /\ c.kind # "timer" /\ m.type # "" => m.ctx \ {"forwarded"} = Asked(c)
  /\ c.edit => m.type = "protocol"
               /\ (c.mentions /\ (c.viewOnce \/ ~(Aside(c) \/ Plain(c))) =>
                     "mentions" \in m.edits[1].ctx \cup m.edits[1].wrapCtx)
  /\ c.kind = "forward" /\ ~Aside(c) /\ ~c.edit /\ ~c.fromMe => "forwarded" \in m.ctx

\* generateWAMessage() puts on a message what was asked to go with it.
LEMMA ComposedContext ==
  ASSUME NEW c, NEW f, Sayable(c)
  PROVE  Carries(c, Composed(c, f, c.opts))
<1> DEFINE t == Typed(c, f)
           s == Said(c, t)
           p == Message("protocol", {}, None)
           v == IF c.edit THEN [p EXCEPT !.edits = << s >>] ELSE s
           w == Created(v)
           m == Composed(c, f, c.opts)
<1>1. TypedAs(c, t) /\ t.wraps \in Seq({"ephemeral"})
  <2>1. TypedAs(c, t)
    BY TypedParts
  <2> HIDE DEF t
  <2>2. << >> \in Seq({"ephemeral"}) /\ << "ephemeral" >> \in Seq({"ephemeral"})
    OBVIOUS
  <2> QED
    BY <2>1, <2>2 DEF TypedAs
<1>2. m = Envelope(w, c.opts)
  BY DEF Composed, Wrapped, Said, Once
<1> HIDE DEF t
<1>3. /\ DOMAIN s = Parts /\ s.type = t.type /\ s.first = t.first /\ t.ctx \subseteq s.ctx
      /\ c.mentions /\ (c.viewOnce \/ t.wraps # << >> \/ (t.type # "" /\ t.first = "content")) =>
           "mentions" \in s.ctx \cup s.wrapCtx
      /\ ~c.viewOnce => s.wraps = t.wraps
      /\ ~c.viewOnce /\ t.wraps = << >> =>
           s.ctx = t.ctx \cup (IF c.mentions /\ t.type # "" /\ t.first = "content"
                               THEN {"mentions"} ELSE {})
  BY <1>1, SaidParts DEF TypedAs
<1> HIDE DEF s
<1>4. DOMAIN p = Parts /\ p.type = "protocol"
  BY MessageParts
<1> HIDE DEF p
<1>5. c.edit => DOMAIN v = Parts /\ v.type = "protocol" /\ v.edits = << s >>
  BY <1>4 DEF Parts
<1>6. ~c.edit => v = s
  OBVIOUS
<1> HIDE DEF v
<1>7. DOMAIN v = Parts
  BY <1>3, <1>5, <1>6
<1>8. /\ DOMAIN w = Parts /\ w.type = v.type /\ w.ctx = v.ctx /\ w.edits = v.edits
      /\ v.wraps = << >> => w.first # "blank"
  BY <1>7, CreatedParts
<1> HIDE DEF w
<1>9. m.type = w.type /\ m.edits = w.edits /\ m.ctx = w.ctx \cup Added(w, c.opts)
  BY <1>2, <1>8, EnvelopeParts
<1> HIDE DEF m
<1>10. ASSUME ~c.edit, ~c.viewOnce, c.kind # "timer", m.type # ""
       PROVE  m.ctx \ {"forwarded"} = Asked(c)
  <2> DEFINE said == IF c.mentions /\ ~Aside(c) /\ ~Plain(c) THEN {"mentions"} ELSE {}
             more == (IF c.opts.quoted /\ ~c.opts.newsletter THEN {"quoted"} ELSE {})
                     \cup (IF c.opts.expires /\ ~c.opts.newsletter /\ c.kind \notin {"delete", "timer"}
                           THEN {"expiration"} ELSE {})
  <2>1. v = s /\ t.type # "" /\ w.type = t.type /\ t.wraps = << >> /\ s.wraps = << >>
    BY <1>1, <1>3, <1>6, <1>8, <1>9, <1>10 DEF TypedAs
  <2>2. s.ctx = t.ctx \cup said
    BY <1>1, <1>3, <1>10, <2>1 DEF TypedAs, TypedFirst
  <2>3. w.type = "protocol" <=> c.kind \in {"delete", "timer"}
    BY <1>1, <2>1 DEF TypedAs
  <2>4. Added(w, c.opts) = more
    BY <1>8, <2>1, <2>3 DEF Added
  <2>5. m.ctx = (t.ctx \cup said) \cup more
    BY <1>8, <1>9, <2>1, <2>2, <2>4
  <2>6. "forwarded" \notin said \cup more
    OBVIOUS
  <2>7. Asked(c) = (said \cup TypedCtx(c)) \cup more
    BY DEF Asked, TypedCtx
  <2> HIDE DEF said, more
  <2>8. t.ctx \ {"forwarded"} = TypedCtx(c)
    BY <1>1 DEF TypedAs
  <2> QED
    BY <2>5, <2>6, <2>7, <2>8
<1>11. ASSUME c.edit
       PROVE  /\ m.type = "protocol"
              /\ c.mentions /\ (c.viewOnce \/ ~(Aside(c) \/ Plain(c))) =>
                   "mentions" \in m.edits[1].ctx \cup m.edits[1].wrapCtx
  <2>1. m.type = "protocol" /\ m.edits = << s >>
    BY <1>5, <1>8, <1>9, <1>11
  <2>2. t.type # "" /\ (~(Aside(c) \/ Plain(c)) => t.first = "content")
    BY <1>1, <1>11 DEF Sayable, TypedAs, TypedFirst
  <2>3. m.edits[1] = s
    BY <2>1
  <2> QED
    BY <1>3, <2>1, <2>2, <2>3
<1>12. ASSUME c.kind = "forward", ~Aside(c), ~c.edit, ~c.fromMe PROVE "forwarded" \in m.ctx
  BY <1>1, <1>3, <1>6, <1>8, <1>9, <1>12 DEF TypedAs
<1> QED
  BY <1>10, <1>11, <1>12 DEF m, Carries

\* A message that is relayed was composed of what the call was given.
RelaysContent(h, j) ==
  h.sent # << >> =>
    /\ h.pc = "relay"
    /\ \E d \in Contents[j] :
         ~d.bad /\ h.content = << d >> /\ \E f : h.sent[1] = Composed(d, f, d.opts)

ContextInv == OwnInv /\ \A j \in Calls : RelaysContent(calls[j], j)

\* One call moves on and puts together a message only as it is composed.
LEMMA OneRelays ==
  ASSUME ContextInv, OwnInv', NEW j \in Calls, NEW g, calls' = [calls EXCEPT ![j] = g],
         RelaysContent(g, j)
  PROVE  ContextInv'
<1>1. calls'[j] = g /\ \A k \in Calls \ {j} : calls'[k] = calls[k]
  BY DEF ContextInv, OwnInv, FileInv
<1> QED
  BY <1>1 DEF ContextInv

\* A call that relays nothing, and does not start to.
LEMMA QuietRelays ==
  ASSUME ContextInv, OwnInv', NEW j \in Calls, calls[j].pc # "relay",
         NEW g, calls' = [calls EXCEPT ![j] = g], g.sent = calls[j].sent \/ g.sent = << >>
  PROVE  ContextInv'
<1>1. calls[j].sent = << >>
  BY DEF ContextInv, RelaysContent
<1>2. RelaysContent(g, j)
  BY <1>1 DEF RelaysContent
<1> QED
  BY <1>2, OneRelays

\* The steps up to the message.
LEMMA StepsBeforeRelay ==
  ASSUME ContextInv, OwnInv', NEW j \in Calls,
         Call(j) \/ Source(j) \/ OpenFile(j) \/ Write(j) \/ Finished(j) \/ Unlink(j)
  PROVE  ContextInv'
<1> DEFINE h == calls[j]
<1>1. DOMAIN h = Fields /\ calls = [k \in Calls |-> calls[k]]
  BY DEF ContextInv, OwnInv, FileInv
<1>2. h.pc # "relay"
  BY DEF Call, Source, OpenFile, Write, Finished, Unlink
<1>3. CASE Fails(j)
  <2> DEFINE g == [Idle EXCEPT !.pc = "failed", !.path = h.path]
  <2>1. g.sent = << >> /\ calls' = [calls EXCEPT ![j] = g]
    BY <1>3, EndedCall DEF Fails, Ends
  <2> HIDE DEF g
  <2> QED
    BY <1>2, <2>1, QuietRelays
<1>4. CASE Call(j)
  <2>1. PICK d \in Contents[j] :
          calls' = [calls EXCEPT ![j].content = << d >>,
                                 ![j].pc = IF d.file = None THEN "compose" ELSE "source"]
    BY <1>4 DEF Call
  <2> DEFINE g == [h EXCEPT !.content = << d >>, !.pc = IF d.file = None THEN "compose" ELSE "source"]
  <2>2. calls' = [calls EXCEPT ![j] = g]
    BY <1>1, <2>1
  <2>3. g.sent = h.sent
    BY <1>1 DEF Fields
  <2> HIDE DEF g
  <2> QED
    BY <1>2, <2>2, <2>3, QuietRelays
<1>5. CASE Source(j) /\ ~Fails(j)
  <2> DEFINE g == [h EXCEPT !.pc = "open", !.path = TempName(h.content[1].file)]
  <2>1. calls' = [calls EXCEPT ![j] = g]
    BY <1>1, <1>5 DEF Source
  <2>2. g.sent = h.sent
    BY <1>1 DEF Fields
  <2> HIDE DEF g
  <2> QED
    BY <1>2, <2>1, <2>2, QuietRelays
<1>6. CASE OpenFile(j)
  <2> DEFINE inode == IF names[h.path] = None THEN j ELSE names[h.path]
             g == [h EXCEPT !.pc = "write", !.fd = inode]
             w == [h EXCEPT !.pc = "write"]
  <2>1. \/ calls' = [calls EXCEPT ![j].pc = "write", ![j].fd = inode]
        \/ calls' = [calls EXCEPT ![j].pc = "write"]
    BY <1>6 DEF OpenFile, To
  <2> HIDE DEF inode
  <2>2. calls' = [calls EXCEPT ![j] = g] \/ calls' = [calls EXCEPT ![j] = w]
    BY <1>1, <2>1
  <2>3. g.sent = h.sent /\ w.sent = h.sent
    BY <1>1 DEF Fields
  <2> HIDE DEF g, w
  <2> QED
    BY <1>2, <2>2, <2>3, QuietRelays
<1>7. CASE NextChunk(j) /\ Write(j)
  <2>1. h.pc = "write" /\ FileInv
    BY <1>7 DEF Write, ContextInv, OwnInv
  <2>2. PICK g : calls' = [calls EXCEPT ![j] = g] /\ g.sent = h.sent
    BY <1>7, <2>1, NextChunkCall
  <2> QED
    BY <1>2, <2>2, QuietRelays
<1>9. CASE Finished(j) /\ ~Fails(j)
  <2> DEFINE g == [h EXCEPT !.pc = "conn", !.fd = None]
  <2>1. calls' = [calls EXCEPT ![j] = g]
    BY <1>1, <1>9 DEF Finished, GivesUp
  <2>2. g.sent = h.sent
    BY <1>1 DEF Fields
  <2> HIDE DEF g
  <2> QED
    BY <1>2, <2>1, <2>2, QuietRelays
<1>8. CASE Unlink(j)
  <2> DEFINE g == [h EXCEPT !.pc = "compose"]
  <2>1. calls' = [calls EXCEPT ![j] = g] /\ g.sent = h.sent
    BY <1>1, <1>8 DEF Unlink, To, Fields
  <2> HIDE DEF g
  <2> QED
    BY <1>2, <2>1, QuietRelays
<1>10. Write(j) => NextChunk(j) \/ Fails(j)
  BY DEF Write, GivesUp
<1> QED
  BY <1>3, <1>4, <1>5, <1>6, <1>7, <1>8, <1>9, <1>10

\* The message is composed of the content.
LEMMA ComposeRelays ==
  ASSUME ContextInv, OwnInv', NEW j \in Calls, Compose(j)
  PROVE  ContextInv'
<1> DEFINE h == calls[j]
<1>1. DOMAIN h = Fields /\ h.pc = "compose" /\ calls = [k \in Calls |-> calls[k]]
  BY DEF ContextInv, OwnInv, FileInv, Compose
<1>2. PICK d \in Contents[j] : h.content = << d >>
  BY <1>1 DEF ContextInv, OwnInv, Composing
<1>3. h.content[1] = d
  BY <1>2
<1>4. CASE d.bad
  <2> DEFINE g == [Idle EXCEPT !.pc = "failed", !.path = h.path]
  <2>1. g.sent = << >> /\ calls' = [calls EXCEPT ![j] = g]
    BY <1>3, <1>4, EndedCall DEF Compose, Fails, Ends
  <2> HIDE DEF g
  <2> QED
    BY <1>1, <2>1, QuietRelays
<1>5. CASE ~d.bad
  <2> DEFINE file == IF d.file = None THEN None ELSE j
             message == Composed(d, file, d.opts)
             sent == << message, EditAttribute(d) >>
             g == [h EXCEPT !.pc = "relay", !.sent = sent]
  <2>1. calls' = [calls EXCEPT ![j].pc = "relay", ![j].sent = sent]
    BY <1>3, <1>5 DEF Compose
  <2>2. \E f : message = Composed(d, f, d.opts)
    OBVIOUS
  <2>3. sent[1] = message
    OBVIOUS
  <2> HIDE DEF message, sent
  <2>4. calls' = [calls EXCEPT ![j] = g] /\ g.pc = "relay" /\ g.sent = sent /\ g.content = << d >>
    BY <1>1, <1>2, <2>1 DEF Fields
  <2> HIDE DEF g
  <2>5. RelaysContent(g, j)
    BY <1>5, <2>2, <2>3, <2>4 DEF RelaysContent
  <2> QED
    BY <2>4, <2>5, OneRelays
<1> QED
  BY <1>4, <1>5

LEMMA ContextNext == ContextInv /\ [Next]_vars => ContextInv'
<1> SUFFICES ASSUME ContextInv, [Next]_vars PROVE ContextInv'
  OBVIOUS
<1>0. OwnInv'
  BY OwnNext DEF ContextInv
<1>1. CASE Tick \/ AuthChanges \/ CacheExpires \/ UNCHANGED vars
  <2>1. UNCHANGED calls
    BY <1>1 DEF Tick, AuthChanges, CacheExpires, vars
  <2> QED
    BY <1>0, <2>1 DEF ContextInv
<1>2. CASE UnheardError
  <2>1. ASSUME NEW k \in Calls PROVE RelaysContent(calls'[k], k)
    <3>1. calls'[k] = calls[k] \/ calls'[k].sent = << >>
      BY <1>2, UnheardCall DEF ContextInv, OwnInv
    <3> QED
      BY <3>1 DEF ContextInv, RelaysContent
  <2> QED
    BY <1>0, <2>1 DEF ContextInv
<1>3. ASSUME NEW j \in Calls, Call(j) \/ Step(j)
      PROVE  ContextInv'
  <2>1. CASE Call(j) \/ Source(j) \/ OpenFile(j) \/ Write(j) \/ Finished(j) \/ Unlink(j)
    BY <1>0, <2>1, StepsBeforeRelay
  <2>2. CASE Conn(j) \/ ConnAnswer(j) \/ Post(j) \/ PostAnswer(j) \/ Refreshed(j)
    <3>1. FileInv
      BY DEF ContextInv, OwnInv
    <3>2. PICK c : /\ calls' = [calls EXCEPT ![j] = c]
                   /\ c.sent = calls[j].sent \/ c.sent = << >>
                   /\ calls[j].pc \in Uploading
      BY <2>2, <3>1, UploadStep
    <3> QED
      BY <1>0, <3>2, QuietRelays DEF Uploading
  <2>3. CASE Compose(j)
    BY <1>0, <2>3, ComposeRelays
  <2>4. CASE Relayed(j)
    <3>1. PICK pc : calls' = [calls EXCEPT ![j] = [Idle EXCEPT !.pc = pc, !.path = calls[j].path]]
      BY <2>4 DEF Relayed, Fails, Ends
    <3> DEFINE g == [Idle EXCEPT !.pc = pc, !.path = calls[j].path]
    <3>2. g.sent = << >> /\ calls' = [calls EXCEPT ![j] = g]
      BY <3>1, EndedCall
    <3> HIDE DEF g
    <3>3. RelaysContent(g, j)
      BY <3>2 DEF RelaysContent
    <3> QED
      BY <1>0, <3>2, <3>3, OneRelays
  <2> QED
    BY <1>3, <2>1, <2>2, <2>3, <2>4 DEF Step
<1> QED
  BY <1>1, <1>2, <1>3 DEF Next

\* sendMessage(): mentions, the application's context, the quoted message and
\* the chat's timer are on the message that is relayed when they were asked
\* for, and nothing else is, whatever they are combined with, but for the
\* mentions of forwarded plain text and all of a message that has another part
\* first.
THEOREM ContextKept == Spec => []ContextArrives
<1>1. Init => ContextInv
  <2> SUFFICES ASSUME Init PROVE ContextInv
    OBVIOUS
  <2>1. \A j \in Calls : calls[j].sent = << >>
    BY DEF Init, Idle
  <2> QED
    BY <2>1, OwnInit DEF ContextInv, RelaysContent
<1>2. ASSUME ContextInv PROVE ContextArrives
  <2> SUFFICES ASSUME NEW j \in Calls, calls[j].sent # << >>
               PROVE  Carries(calls[j].content[1], calls[j].sent[1])
    BY DEF ContextArrives, Carries
  <2>1. PICK d \in Contents[j] :
          ~d.bad /\ calls[j].content = << d >> /\ \E f : calls[j].sent[1] = Composed(d, f, d.opts)
    BY <1>2 DEF ContextInv, RelaysContent
  <2>2. calls[j].content[1] = d
    BY <2>1
  <2>3. Sayable(d)
    BY <2>1, ContentAssumption DEF Sayable, Known, Parts
  <2>4. PICK f : calls[j].sent[1] = Composed(d, f, d.opts)
    BY <2>1
  <2> QED
    BY <2>2, <2>3, <2>4, ComposedContext
<1> QED
  BY <1>1, ContextNext, <1>2, PTL DEF Spec

=============================================================================
