----------------------------- MODULE Announcements -----------------------------
(***************************************************************************)
(* Receive and Chats: a message that is announced is named by its key, and *)
(* later ones may be about it.                                             *)
(***************************************************************************)
EXTENDS Receive, Chats

\* An announced message may be a reaction to any other, and may be read with
\* any others: whichever they are, this client and the others mean the same
\* message (see Chats).
NamesFollow == \A s \in Stanzas : upserts[s] = << >> \/ NamesAgree

=============================================================================
