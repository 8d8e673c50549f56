------------------------- MODULE MCContractVersions -------------------------
(* Instances of ContractVersions for TLC. *)
EXTENDS ContractVersions, TLC

\* Clients and versions are interchangeable.
Symmetry == Permutations(Client) \union Permutations(Version)
=============================================================================
