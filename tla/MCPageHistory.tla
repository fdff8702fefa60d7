----------------------------- MODULE MCPageHistory -----------------------------
(* PageHistory on few revisions; page ids and texts are interchangeable.   *)
EXTENDS PageHistory

Interchangeable == Permutations(Oids) \cup Permutations(Texts)
=============================================================================
