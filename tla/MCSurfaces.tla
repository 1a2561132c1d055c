----------------------------- MODULE MCSurfaces -----------------------------
(* An instance of Surfaces for TLC: the first two keys share a prefix, and *)
(* so do the last two.                                                     *)
EXTENDS Surfaces, TLC

CommonPrefix == [k \in Keys |-> CASE k <= 2 -> 1 [] k = 3 -> 0 [] k >= 4 -> 2]
=============================================================================
