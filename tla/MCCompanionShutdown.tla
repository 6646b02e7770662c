------------------------ MODULE MCCompanionShutdown ------------------------
(* Small instances of CompanionShutdown for TLC. *)
EXTENDS CompanionShutdown, TLC

\* Clients are not told apart.  Used in the runs without liveness only.
ClientSymmetry == Permutations(Clients)
=============================================================================
