------------------------------ MODULE MCPortal ------------------------------
(* Instances of Portal for TLC. *)
EXTENDS Portal, TLC

\* Clients and versions are interchangeable; the approvers are not.
Symmetry == Permutations(Client) \union Permutations(Version)
=============================================================================
