------------------------- MODULE MCExtensionInstall -------------------------
(* Three releases, whose names sort as they were made, or the last before the others. *)
EXTENDS ExtensionInstall

MCVersions == 1..3

\* v0.8.0, v0.9.0 and v0.10.0 or v0.9.1: the strings sort 3 < 1 < 2, or as made.
MCStringOrders == {[v \in MCVersions |-> v], [v \in MCVersions |-> v % 3]}
=============================================================================
