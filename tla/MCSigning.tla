----------------------------- MODULE MCSigning -----------------------------
(* Instances of Signing for TLC. *)
EXTENDS Signing, TLC

\* Clients, requests, envelopes and signers are interchangeable.
Symmetry == Permutations(Client) \union Permutations(Request)
                \union Permutations(Envelope) \union Permutations(Signer)
=============================================================================
