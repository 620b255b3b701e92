------------------------- MODULE MCExtractionResult ------------------------
(* Fields are interchangeable. *)
EXTENDS ExtractionResult, TLC

Symmetry == Permutations(Field)
============================================================================
