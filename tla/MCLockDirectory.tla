--------------------------- MODULE MCLockDirectory ---------------------------
(* Small instances of LockDirectory for TLC. *)
EXTENDS LockDirectory, TLC

\* Neither companions nor ports are told apart.
DirSymmetry == Permutations(Companions) \cup Permutations(Ports)
=============================================================================
