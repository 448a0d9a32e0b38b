-------------------------------- MODULE MCMedia --------------------------------
(***************************************************************************)
(* Instance: calls with files of one type, in the same millisecond or not, *)
(* one of which may send other contents, in combinations of what goes with *)
(* them.                                                                   *)
(***************************************************************************)
EXTENDS Media

Base == [kind |-> "text", file |-> None, own |-> FALSE, mentions |-> FALSE, viewOnce |-> FALSE,
         edit |-> FALSE, original |-> Message("", {}, None), fromMe |-> FALSE, force |-> FALSE,
         group |-> FALSE, bad |-> FALSE,
         opts |-> [quoted |-> FALSE, expires |-> FALSE, newsletter |-> FALSE]]

CONSTANTS a, b

Originals ==
  { [Message("conversation", {}, None) EXCEPT !.wraps = [i \in 1..n |-> "ephemeral"]] : n \in {0, 2} }
  \cup { [Message("text", ctx, None) EXCEPT !.first = first] :
         << ctx, first >> \in {<< {}, "content" >>, << {}, "other" >>, << {"forwarded"}, "content" >>} }
  \cup { [Message("text", {"own", "quoted"}, None) EXCEPT !.wraps = << "ephemeral", "viewOnce" >>] }
Options == { [quoted |-> FALSE, expires |-> FALSE, newsletter |-> FALSE],
             [quoted |-> TRUE, expires |-> TRUE, newsletter |-> FALSE],
             [quoted |-> TRUE, expires |-> TRUE, newsletter |-> TRUE] }
NoFiles ==
  { [Base EXCEPT !.kind = "contacts", !.bad = TRUE], [Base EXCEPT !.kind = "buttons", !.own = TRUE] }
  \cup { [Base EXCEPT !.own = own, !.mentions = m, !.edit = own, !.opts = o] :
         own, m \in BOOLEAN, o \in Options }
  \cup { [Base EXCEPT !.kind = k, !.group = g, !.fromMe = me, !.opts.expires = TRUE, !.opts.quoted = me] :
         k \in {"delete", "timer"}, g, me \in BOOLEAN }
  \cup { [Base EXCEPT !.kind = "forward", !.fromMe = me, !.force = f, !.mentions = me,
                      !.viewOnce = f, !.edit = f, !.opts.quoted = me, !.original = o] :
         me, f \in BOOLEAN, o \in Originals }

\* Two calls with a file, one of which may have one of the other contents.
Buttons == { [Base EXCEPT !.kind = "buttons", !.file = "image", !.mentions = TRUE] }
Image   == { [Base EXCEPT !.kind = "image", !.file = "image", !.viewOnce = TRUE, !.mentions = TRUE,
                          !.opts.quoted = TRUE] }
Either == Buttons \cup NoFiles
MCContents == [j \in Calls |-> IF j = a THEN Either ELSE Image]

=============================================================================
