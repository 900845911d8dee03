----------------------- MODULE MCResourceController -----------------------
(* Bounded instances of the sub-controller for TLC. *)
EXTENDS ResourceController, TLC

NamespaceSymmetry == Permutations(Namespaces)
SyncSymmetry == Permutations(Syncs)
============================================================================
