--------------------------- MODULE MCSelectionBus ---------------------------
(* Small instances of SelectionBus for TLC. *)
EXTENDS SelectionBus, TLC

CONSTANTS s1, s2, m1, m2

\* The two selections are different ranges: two different mentions.
MCMentionOf == s1 :> m1 @@ s2 :> m2

\* Connections are interchangeable.  Used in the runs without liveness only.
ConnSymmetry == Permutations(Conns)
=============================================================================
