----------------------------- MODULE MCLspSession -----------------------------
(* Small instances of LspSession for TLC. *)
EXTENDS LspSession, TLC

\* Documents are not told apart.
DocSymmetry == Permutations(Docs)

\* Bound: of the ids, versions and writes that the constants allow, three together if no
\* message has an id, and two otherwise.
Budget == asked + versions + writes <= IF asked = 0 THEN 3 ELSE 2

\* What a step or a property can depend on: not on what was handed to the tracker, nor on
\* what was answered, so long as what is owed and not answered is known; and once the thread
\* has ended, on nothing but how it was left.
LspView ==
    IF thread = "ended" THEN <<"ended", flags, mirror>>
    ELSE <<pipe, buffer, asked, versions, diskVars, thread, flags, storeVars, work,
           SubSeq(owed, Len(answers) + 1, Len(owed))>>
=============================================================================
