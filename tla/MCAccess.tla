------------------------------ MODULE MCAccess ------------------------------
(* Small instances of Access for TLC. *)
EXTENDS Access, TLC

GrantHandlers == {"key_op", "create_key", "list_keys", "create_namespace",
                  "create_grant", "delete_grant", "create_token"}
TokenHandlers == {"create_principal", "delete_principal", "create_token", "revoke_token",
                  "set_principal_disabled"}

\* Requests and ids are interchangeable, but for those of the bootstrap.
Symmetry ==
  Permutations(Requests) \cup Permutations(Principals \ {Root})
    \cup Permutations(Tokens \ {RootToken}) \cup Permutations(Grants)
    \cup Permutations(Namespaces \ {Default}) \cup Permutations(Keys)
=============================================================================
