----------------------------- MODULE MCRouteRing -----------------------------
(* RouteRing on small instances. *)
EXTENDS RouteRing, TLC

Symmetry == Permutations(Readers)
=============================================================================
