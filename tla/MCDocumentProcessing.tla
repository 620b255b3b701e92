------------------------ MODULE MCDocumentProcessing -----------------------
(* Invocations of one Lambda are interchangeable. *)
EXTENDS DocumentProcessing, TLC

Symmetry == Permutations(Worker) \union Permutations(Reconciler)
===========================================================================
