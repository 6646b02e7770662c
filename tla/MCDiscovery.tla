------------------------------ MODULE MCDiscovery ------------------------------
(* A small instance of Discovery, and so of LockDirectory, for TLC. *)
EXTENDS Discovery, Naturals, FiniteSets, TLC

\* Neither companions nor ports are told apart.
DirSymmetry == Permutations(Companions) \cup Permutations(Ports)

\* What can still matter: no step reads the port or the token of a companion that is
\* gone, or how the last helper ended.
DirView ==
    << file, tmp, listening, sweepVars,
       [c \in Companions |-> IF phase[c] \in {"exited", "failed"} THEN "ended" ELSE phase[c]],
       [c \in Companions |-> IF Alive(c) THEN <<port[c], cancelled[c]>> ELSE None],
       IF scan \in Outcomes THEN "idle" ELSE scan, unread, seen, pick, steady >>

StrangerIsAbout == \E p \in Ports : Stranger \in {listening[p], file[p]}

\* Bounds: up to two companions are on port 0, and while a helper is under way one, with
\* no other editor about.
FewOnZero ==
    Cardinality({c \in Companions : port[c] = Zero})
        <= CASE scan \notin {"reading", "chosen"} -> 2
             [] ~StrangerIsAbout                  -> 1
             [] OTHER                             -> 0
=============================================================================
