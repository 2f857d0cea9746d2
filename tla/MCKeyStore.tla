----------------------------- MODULE MCKeyStore -----------------------------
(* Small instances of KeyStore for TLC. *)
EXTENDS KeyStore, TLC

LifecycleOps == StateOps \cup {"destroy", "force_destroy"}
EncryptOps   == {"encrypt", "decrypt", "rotate", "force_destroy"}

\* Secrets, requests and key ids are interchangeable: nothing orders them.
Symmetry ==
  Permutations(Secrets) \cup Permutations(Requests) \cup Permutations(KeyIds)
=============================================================================
