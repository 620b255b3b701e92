-------------------------- MODULE MCDocumentLoading ------------------------
(* The sound contents that are not blank are interchangeable. *)
EXTENDS DocumentLoading, TLC

Symmetry == Permutations(Sound \ Blank)
============================================================================
