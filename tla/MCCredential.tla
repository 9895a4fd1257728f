---- MODULE MCCredential ----
(* Instances of CredentialOperations for TLC: the constants are numbers. *)
EXTENDS CredentialOperations
====
