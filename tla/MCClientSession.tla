-------------------------- MODULE MCClientSession --------------------------
(* The instance of ClientSession, and with it AuthSession, that TLC checks. *)
EXTENDS ClientSession, TLC

Symmetry == Permutations(Handlers) \cup Permutations(RefreshKeys)
=============================================================================
