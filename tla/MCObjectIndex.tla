----------------------------- MODULE MCObjectIndex -----------------------------
(* ObjectIndex on short scripts; ids and GUIDs are interchangeable.        *)
EXTENDS ObjectIndex, TLC

Interchangeable == Permutations(Indices) \cup Permutations(Guids)
=============================================================================
