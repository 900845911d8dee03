----------------------------- MODULE MCTriggers -----------------------------
(* Bounded instances of the triggers for TLC. *)
EXTENDS Triggers

CONSTANTS n1, n2
============================================================================
