------------------------------ MODULE MCPreKeys ------------------------------
(***************************************************************************)
(* Instances of PreKeys for TLC; logins and messages are interchangeable.  *)
(***************************************************************************)
EXTENDS PreKeys, TLC

Symmetric == Permutations(Logins) \cup Permutations(Messages)

=============================================================================
