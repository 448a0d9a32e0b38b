---------------------------- MODULE MCConnection ----------------------------
(***************************************************************************)
(* Instances of Connection for TLC.                                        *)
(***************************************************************************)
EXTENDS Connection, TLC

\* The calls of connect() are alike (for safety runs only).
Symmetry == Permutations(Calls)

=============================================================================
