------------------------- MODULE MCDocumentPipeline ------------------------
(* Messages are model values and attempts numbers, both given by the .cfg. *)
EXTENDS DocumentPipeline
============================================================================
