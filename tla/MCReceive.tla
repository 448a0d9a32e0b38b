------------------------------- MODULE MCReceive -------------------------------
(***************************************************************************)
(* Instance: a number that stanzas name two LIDs for, and another that has *)
(* the first of them (its owner changed numbers); stanzas with up to two   *)
(* ciphertexts.  And of Chats: three people, two devices each, up to three *)
(* messages read at once.                                                  *)
(***************************************************************************)
EXTENDS Announcements

CONSTANTS n1, n2, l1, l2

Shape(form, author, alt, encs, kind) ==
  [form |-> form, author |-> author, alt |-> alt, encs |-> encs, kind |-> kind]

MCShapes ==
  { Shape("good", n1, alt, << "msg" >>, "text") : alt \in {None, l1, l2} }
  \cup { Shape("good", n2, alt, << "msg" >>, "text") : alt \in {None, l1} }
  \cup { Shape("good", n1, l1, << "pkmsg", "skmsg" >>, "keys") }
  \cup { Shape("good", l1, None, << "pkmsg" >>, "history"),
         Shape("good", n2, l1, << "plaintext" >>, "bare"),
         Shape("good", n1, None, << >>, "update"),
         Shape("good", n2, None, << >>, "once"),
         Shape("bad", n1, None, << >>, "text"),
         Shape("ignored", n1, None, << >>, "text") }

=============================================================================
