---------------------------- MODULE MCDocumentText ----------------------------
(* Small instances of DocumentText for TLC. *)
EXTENDS DocumentText

\* Every kind of character by itself, nothing, and texts that end, begin and consist
\* of a terminator.
MCInserts == {<<>>, Letter, LineFeed, Return \o LineFeed, TwoBytes, FourBytes,
              Letter \o LineFeed, LineFeed \o Letter}
=============================================================================
