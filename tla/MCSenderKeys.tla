----------------------------- MODULE MCSenderKeys -----------------------------
(***************************************************************************)
(* Instances of SenderKeys for TLC.                                        *)
(***************************************************************************)
EXTENDS SenderKeys, TLC

\* The handlers are alike.
Symmetry == Permutations(Handlers)

=============================================================================
