------------------------------- MODULE MCRelay -------------------------------
(***************************************************************************)
(* Instances of Relay for TLC: the own account with its phone and this     *)
(* client, peers with one device each, one group.                          *)
(***************************************************************************)
EXTENDS Relay

MCSelf      == << "me", 5 >>
MCDevicesOf == [u \in Users |->
  CASE u = "me" -> << << "me", 0 >>, MCSelf >>
    [] OTHER -> << << u, 0 >> >>]
MCMembers   == [g \in Groups |-> << "me", "ann" >>]

\* In the second instance two peers share a group.
MCPeers     == [g \in Groups |-> << "ann", "bob" >>]

MCFragile   == { << "ann", 0 >> }

=============================================================================
