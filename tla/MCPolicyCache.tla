---------------------------- MODULE MCPolicyCache -----------------------------
(* A cache of two blocks under each of the three policies. *)
EXTENDS PolicyCache
=============================================================================
