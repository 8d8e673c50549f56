---------------------------- MODULE MCApprovals ----------------------------
(* Instances of Approvals for TLC. *)
EXTENDS Approvals, TLC

\* Clients, versions and approvers are interchangeable.
Symmetry == Permutations(Client) \union Permutations(Version) \union Permutations(User)
=============================================================================
