-------------------------- MODULE MCSecretRotation --------------------------
(* One delivery, test requests, and three secrets in the course of time.   *)
EXTENDS SecretRotation
=============================================================================
