--------------------------- MODULE MCDestinations ---------------------------
(* Bounded instances of the destination lists for TLC. *)
EXTENDS Destinations

\* The source is the first object of the first namespace.
FirstPlace == <<1, 1>>

OrderedPlaces == <<<<1, 1>>, <<1, 2>>, <<2, 1>>, <<2, 2>>>>
============================================================================
