--------------------------- MODULE MCControlPlane --------------------------
(* Clients and job identifiers are interchangeable. *)
EXTENDS ControlPlane, TLC

Symmetry == Permutations(Client) \union Permutations(JobId)
============================================================================
