---------------------------- MODULE MCRecipients ----------------------------
(* Instances of Recipients for TLC. *)
EXTENDS Recipients
=============================================================================
