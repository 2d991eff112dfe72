--------------------------- MODULE MCPolicyWorker ----------------------------
(***************************************************************************)
(* Symmetry for PolicyWorker: requests and categories are interchangeable. *)
(***************************************************************************)
EXTENDS PolicyWorker, TLC

MCSymmetry == Permutations(Requests) \union Permutations(Categories)
=============================================================================
