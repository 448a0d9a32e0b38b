------------------------------ MODULE GroupNotices ------------------------------
(***************************************************************************)
(* Wire and Groups: the notification of a change of a group is a stanza,   *)
(* which comes in a frame.                                                 *)
(***************************************************************************)
EXTENDS Wire, Groups

\* The client may be handed the notification of any change of a group: what
\* the application makes of it is the group as it is (see Groups).
GroupsFollow == \A n \in Range(delivered) : n \in MalformedFrames \/ GroupsAgree

=============================================================================
