--------------------------- MODULE MCRegistration ---------------------------
(* Bounded instances of the registration for TLC. *)
EXTENDS Registration

CONSTANTS g1, g2, g3, s1, s2

\* Three kinds, the first with two sources.
ThreeKinds == {[gvk |-> g1, src |-> s1], [gvk |-> g1, src |-> s2],
               [gvk |-> g2, src |-> s1], [gvk |-> g3, src |-> s1]}

\* A kind that can be synced and one that cannot.
ScopedKinds == {[gvk |-> g1, src |-> s1], [gvk |-> g3, src |-> s1]}
============================================================================
