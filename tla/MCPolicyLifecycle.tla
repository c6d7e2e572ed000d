--------------------------- MODULE MCPolicyLifecycle ---------------------------
(* Three policies: the model values of the lifecycle's run. *)
EXTENDS PolicyLifecycle

CONSTANTS v1, v2, v3

MCPolicy == {v1, v2, v3}
Symmetric == Permutations(MCPolicy)
===============================================================================
