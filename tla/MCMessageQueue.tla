--------------------------- MODULE MCMessageQueue ---------------------------
(***************************************************************************)
(* Instances of MessageQueue for TLC.                                      *)
(***************************************************************************)
EXTENDS MessageQueue

CONSTANTS a, b, c

\* One urgent message and the others normal.
MixedPriorities == [m \in Messages |-> IF m = a THEN 0 ELSE 2]

=============================================================================
